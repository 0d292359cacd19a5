--------------------------- MODULE ManagementViews ---------------------------
(***************************************************************************)
(* The read half of the control plane: the rows of a snapshot d that the   *)
(* answers to credential p can hold.  A filter, a page of a list or a      *)
(* single row by its identifier shows some of what the operator lists.     *)
(***************************************************************************)
EXTENDS ManagementRoutes

(* What the services select, each after its own check of the actor.        *)

ServerUsersRead(d, p) == IF ServerUsersRequireActor(d, p) THEN Present(d.user) ELSE {}

\* Mutant: the membership is not compared.
UsersReadByAdministrator(d, p) ==
    IF OrganizationUsersRequireActor(d, p) THEN Present(d.user) ELSE {}

\* Operators among them: those are only kept from being changed.
OrganizationUsersRead(d, p) ==
    IF OrganizationUsersRequireActor(d, p) THEN OrganizationMembers(d, p) ELSE {}

\* Whose sessions a page is about to end.
OrganizationSessionTarget(d, p) ==
    IF OrganizationUsersRequireActor(d, p) THEN OrganizationTargets(d, p) ELSE {}

UserSelfRead(d, p) == {d.cred[p].user} \cap Present(d.user)

ServerOrganizationsRead(d, p) == IF Actor(d, p).operator THEN Present(d.org) ELSE {}
OrganizationMetadataRead(d, p) ==
    IF Actor(d, p).role = "admin" THEN {Actor(d, p).org} \cap Present(d.org) ELSE {}

ClientsRead(d, p) == IF Actor(d, p).operator THEN Present(d.client) ELSE {}
\* Refused to a client whose assignments do not fit its mode.
ClientUserOrganizationsRead(d, p) ==
    UNION {d.client[c].userOrgs : c \in {x \in ClientsRead(d, p) :
        OrganizationAssignmentCountIsValid(d.client[x].userAccess, d.client[x].userOrgs)}}
ClientMachineOrganizationsRead(d, p) ==
    UNION {d.client[c].machineOrgs : c \in {x \in ClientsRead(d, p) :
        OrganizationAssignmentCountIsValid(d.client[x].machineAccess, d.client[x].machineOrgs)}}

OrganizationOAuth2SessionsRead(d, p) ==
    IF Actor(d, p).role = "admin" THEN OAuth2SessionsOfOrganization(d, Actor(d, p).org) ELSE {}
\* Each joined with its client, which the answer names: see ClientsShown.
UserOAuth2SessionsRead(d, p) ==
    SessionsOfUser(d, d.cred[p].user) \cap OAuth2SessionsOfOrganization(d, Actor(d, p).org)
UserBrowserSessionsRead(d, p) == SessionsOfUser(d, d.cred[p].user) \cap BrowserSessions(d)

\* Mutant: only the activity of the client is asked.
ActiveClients(d, o) == {c \in Present(d.client) : d.client[c].active}

\* The clients a user of organization o may be asked to consent to or to approve a device
\* of, whichever the interaction is for: the page names it once it has passed these checks.
InteractionClients(d, o) ==
    {c \in Present(d.client) :
        d.client[c].active /\ ClientAllowsUserOrganization(d.client[c], o)}
AuthorizationClientsRead(d, p) ==
    {c \in InteractionClients(d, Actor(d, p).org) : "authorization_code" \in d.client[c].grants}
DeviceClientsRead(d, p) == InteractionClients(d, Actor(d, p).org)

\* The tokens a confidential client is told to be active, of those issued to it.
Introspected(d, c) ==
    {k \in SessionsOfClient(d, c) :
        /\ ActiveClient(d, c) /\ d.client[c].confidential
        /\ d.cred[k].kind = "user" => EligibleIdentity(d, k)}

-----------------------------------------------------------------------------
(* The routes that answer with them, of the API and of the pages.          *)

Answer(admitted, rows) == IF admitted THEN rows ELSE {}

ServerUsersApiViews(d, p) ==
    Answer(RequireOperatorPermission(d, p, "users:read"), ServerUsersRead(d, p))
OperatorUsersPageViews(d, p) == Answer(RequireOperatorForm(d, p), ServerUsersRead(d, p))
OrganizationUsersApiViews(d, p) ==
    Answer(RequireOrganizationAdminPermission(d, p, "organization:read"),
           OrganizationUsersRead(d, p))
OrganizationUsersPageViews(d, p) ==
    Answer(RequireOrganizationAdminForm(d, p), OrganizationUsersRead(d, p))
OrganizationUserSessionsPageViews(d, p) ==
    Answer(RequireOrganizationAdminForm(d, p), OrganizationSessionTarget(d, p))
MeView(d, p) == Answer(RequirePermission(d, p, "profile:read"), UserSelfRead(d, p))
AccountPage(d, p) == Answer(BrowserPrincipal(d, p), UserSelfRead(d, p))
\* The identity is looked up again behind the bearer token.
UserInfo(d, p) ==
    Answer(BearerPrincipal(d, p), IF EligibleIdentity(d, p) THEN UserSelfRead(d, p) ELSE {})

ServerOrganizationsApiViews(d, p) ==
    Answer(RequireOperatorPermission(d, p, "organizations:read"), ServerOrganizationsRead(d, p))
OperatorOrganizationsPageViews(d, p) ==
    Answer(RequireOperatorForm(d, p), ServerOrganizationsRead(d, p))
OrganizationMetadataApiView(d, p) ==
    Answer(RequireOrganizationAdminPermission(d, p, "organization:read"),
           OrganizationMetadataRead(d, p))
OrganizationSettingsPage(d, p) ==
    Answer(RequireOrganizationAdminForm(d, p), OrganizationMetadataRead(d, p))

ServerClientsApiViews(d, p) ==
    Answer(RequireOperatorPermission(d, p, "oauth2_clients:read"), ClientsRead(d, p))
OperatorClientsPageViews(d, p) == Answer(RequireOperatorForm(d, p), ClientsRead(d, p))
ClientUserOrganizationsApiView(d, p) ==
    Answer(RequireOperatorPermission(d, p, "oauth2_clients:read"),
           ClientUserOrganizationsRead(d, p))
ClientMachineOrganizationsApiView(d, p) ==
    Answer(RequireOperatorPermission(d, p, "oauth2_clients:read"),
           ClientMachineOrganizationsRead(d, p))
OperatorClientDetailPage(d, p) ==
    Answer(RequireOperatorForm(d, p),
           ClientUserOrganizationsRead(d, p) \cup ClientMachineOrganizationsRead(d, p))

OrganizationOAuth2SessionsApiView(d, p) ==
    Answer(RequireOrganizationAdminPermission(d, p, "organization:read"),
           OrganizationOAuth2SessionsRead(d, p))
OrganizationOAuth2SessionsPage(d, p) ==
    Answer(RequireOrganizationAdminForm(d, p), OrganizationOAuth2SessionsRead(d, p))
MeOAuth2SessionsView(d, p) == Answer(BrowserPrincipal(d, p), UserOAuth2SessionsRead(d, p))
MeSessionsView(d, p) == Answer(BrowserPrincipal(d, p), UserBrowserSessionsRead(d, p))

ConsentPage(d, p) == Answer(BrowserPrincipal(d, p), AuthorizationClientsRead(d, p))
AuthorizationInteractionView(d, p) ==
    Answer(BrowserPrincipal(d, p), AuthorizationClientsRead(d, p))
DeviceInteractionView(d, p) == Answer(BrowserPrincipal(d, p), DeviceClientsRead(d, p))

-----------------------------------------------------------------------------
(* All that p can be shown, by table.                                      *)

OAuth2SessionsShown(d, p) ==
    UNION {OrganizationOAuth2SessionsApiView(d, p), OrganizationOAuth2SessionsPage(d, p),
           MeOAuth2SessionsView(d, p)}
SessionsShown(d, p) == OAuth2SessionsShown(d, p) \cup MeSessionsView(d, p)

\* An OAuth2 session names its user, its organization and its client.
AccountsShown(d, p) ==
    UNION {ServerUsersApiViews(d, p), OperatorUsersPageViews(d, p),
           OrganizationUsersApiViews(d, p), OrganizationUsersPageViews(d, p),
           OrganizationUserSessionsPageViews(d, p), MeView(d, p), AccountPage(d, p),
           UserInfo(d, p), {d.cred[k].user : k \in OAuth2SessionsShown(d, p)}}
\* A profile names its organization.
OrganizationsShown(d, p) ==
    UNION {ServerOrganizationsApiViews(d, p), OperatorOrganizationsPageViews(d, p),
           OrganizationMetadataApiView(d, p), OrganizationSettingsPage(d, p),
           ClientUserOrganizationsApiView(d, p), ClientMachineOrganizationsApiView(d, p),
           OperatorClientDetailPage(d, p), {d.user[u].org : u \in AccountsShown(d, p)},
           {d.cred[k].holder.org : k \in OAuth2SessionsShown(d, p)}}
ClientsShown(d, p) ==
    UNION {ServerClientsApiViews(d, p), OperatorClientsPageViews(d, p), ConsentPage(d, p),
           AuthorizationInteractionView(d, p), DeviceInteractionView(d, p),
           {d.cred[k].client : k \in OAuth2SessionsShown(d, p)}}
=============================================================================
