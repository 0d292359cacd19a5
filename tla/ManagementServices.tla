------------------------- MODULE ManagementServices -------------------------
(***************************************************************************)
(* The services of the control plane and the public account and token      *)
(* operations: app/identity/services, app/oauth2/clients/management,       *)
(* app/security.  Each is a predicate Service(d, p, ..., e): principal p,  *)
(* reading the snapshot d, writes the rows that make it e.                 *)
(*                                                                         *)
(* A service that hashes a password or a secret outside any transaction    *)
(* comes in two: what the first transaction remembers (a Memo), and its    *)
(* completion, which is given the memo and the rows of a later snapshot.   *)
(***************************************************************************)
EXTENDS IdentityDatabase

CONSTANT MaxSessionsPerUser  \* browser sessions (settings)

ASSUME ManagementServicesAssumption == MaxSessionsPerUser \in Nat \ {0}

-----------------------------------------------------------------------------
(* Users through the server control plane.                                 *)

ServerUsersRequireActor(d, p) == Actor(d, p).operator

\* Invited: active, not verified.
ServerUsersCreate(d, e) ==
    \E u \in Vacant(d.user), o \in Present(d.org), role \in Roles, operator \in BOOLEAN :
        e = CreateUser(d, u, [org |-> o, role |-> role, operator |-> operator,
                              active |-> TRUE, verified |-> FALSE, hash |-> Mint(d)])

\* PATCH and PUT: any of the columns.
ServerUsersUpdate(d, e) ==
    \E u \in Present(d.user), o \in Present(d.org), role \in Roles,
       operator, active, verified \in BOOLEAN :
        LET new == [org |-> o, role |-> role, operator |-> operator, active |-> active,
                    verified |-> verified, hash |-> d.user[u].hash]
        IN  ProtectUpdate(d, u, new) /\ e = UpdateUser(d, u, new)

ServerUsersDelete(d, e) ==
    \E u \in Present(d.user) : ProtectDelete(d, u) /\ e = DeleteUser(d, u)

ServerUsers(d, p, e) ==
    /\ ServerUsersRequireActor(d, p)
    /\ ServerUsersCreate(d, e) \/ ServerUsersUpdate(d, e) \/ ServerUsersDelete(d, e)

-----------------------------------------------------------------------------
(* Users of the actor's organization.                                      *)

OrganizationUsersRequireActor(d, p) == Actor(d, p).role = "admin"

\* All users of the organization (mutant of OrganizationTargets: operators among them).
OrganizationMembers(d, p) == {u \in Present(d.user) : d.user[u].org = Actor(d, p).org}

\* Users of the actor's organization, operators excepted.
OrganizationTargets(d, p) ==
    {u \in Present(d.user) : d.user[u].org = Actor(d, p).org /\ ~d.user[u].operator}

OrganizationUsersCreate(d, p, e) ==
    \E u \in Vacant(d.user), role \in Roles, active \in BOOLEAN :
        e = CreateUser(d, u, [org |-> Actor(d, p).org, role |-> role, operator |-> FALSE,
                              active |-> active, verified |-> FALSE, hash |-> Mint(d)])

OrganizationUsersUpdate(d, p, e) ==
    \E u \in OrganizationTargets(d, p), role \in Roles, active \in BOOLEAN :
        LET new == [d.user[u] EXCEPT !.role = role, !.active = active]
        IN  ProtectUpdate(d, u, new) /\ e = UpdateUser(d, u, new)

OrganizationUsersDelete(d, p, e) ==
    \E u \in OrganizationTargets(d, p) : ProtectDelete(d, u) /\ e = DeleteUser(d, u)

OrganizationUsers(d, p, e) ==
    /\ OrganizationUsersRequireActor(d, p)
    /\ \/ OrganizationUsersCreate(d, p, e)
       \/ OrganizationUsersUpdate(d, p, e)
       \/ OrganizationUsersDelete(d, p, e)

-----------------------------------------------------------------------------
(* Organizations.                                                          *)

ServerOrganizations(d, p, e) ==
    /\ Actor(d, p).operator
    /\ \E name \in Names, o \in Organizations : e = [d EXCEPT !.org = [d.org EXCEPT ![o] = name]]

OrganizationMetadata(d, p, e) ==
    /\ Actor(d, p).role = "admin"
    /\ \E name \in Names : e = [d EXCEPT !.org = [d.org EXCEPT ![Actor(d, p).org] = name]]

-----------------------------------------------------------------------------
(* Sessions.                                                               *)

\* The three things a management page does to the sessions of one user.
UserSessionActions(d, u, e) ==
    \/ e = DeleteUserSessions(d, u)
    \/ e = ClearUserOAuth2Sessions(d, u)
    \/ e = RevokeUserSecuritySessions(d, u)

\* ... and to those of one organization.
OrganizationSessionActions(d, o, e) ==
    \/ e = DeleteOrganizationSessions(d, o)
    \/ e = ClearOrganizationOAuth2Sessions(d, o)
    \/ e = RevokeOrganizationSecuritySessions(d, o)

\* OAuth2 sessions of the administrator's organization: of one client, or one session.
OrganizationOAuth2Sessions(d, p, e) ==
    /\ Actor(d, p).role = "admin"
    /\ LET own == OAuth2SessionsOfOrganization(d, Actor(d, p).org)
       IN  \/ \E c \in Clients : e = EndSessions(d, own \cap SessionsOfClient(d, c))
           \/ \E k \in own : e = EndSessions(d, {k})

\* Which organizations a machine client may reach now.
MachineClientMayAccess(d, c, o) ==
    LET row == d.client[c]
    IN  /\ row # None
        /\ row.active
        /\ "client_credentials" \in row.grants
        /\ row.machineAccess # "none"
        /\ OrganizationAssignmentCountIsValid(row.machineAccess, row.machineOrgs)
        /\ row.machineAccess = "unrestricted" \/ o \in row.machineOrgs

OperatorMayEndSessions(d, p) ==
    UserPrincipal(d, p) /\ Actor(d, p).operator /\ "sessions:write" \in UserPermissions(d, p)

\* authorize: a server operator, or a machine client for an organization assigned to it.
MayEndOrganizationSessions(d, p, o) ==
    /\ o \in Present(d.org)
    /\ \/ OperatorMayEndSessions(d, p)
       \/ /\ MachinePrincipal(d, p)
          /\ "sessions:write" \in d.cred[p].scopes
          /\ MachineClientMayAccess(d, d.cred[p].client, o)

-----------------------------------------------------------------------------
(* Clients.                                                                *)

\* OAuth2ClientPolicy.validate, of the grants the model distinguishes.
ValidClient(confidential, grants) ==
    grants # {} /\ ("client_credentials" \in grants => confidential)

ClientCreate(d, e) ==
    \E c \in Vacant(d.client), confidential, active \in BOOLEAN,
       grants \in SUBSET GrantTypes, scopes \in ScopeSets,
       mode \in UserAccessModes, assigned \in SUBSET Present(d.org) :
        /\ ValidClient(confidential, grants)
        /\ OrganizationAssignmentCountIsValid(mode, assigned)
        /\ e = CreateClient(d, c,
               [confidential |-> confidential, active |-> active, grants |-> grants,
                scopes |-> scopes, secret |-> IF confidential THEN Mint(d) ELSE 0,
                userAccess |-> mode, userOrgs |-> assigned,
                machineAccess |-> "none", machineOrgs |-> {}])

ClientReplace(d, e) ==
    \E c \in Present(d.client), active \in BOOLEAN, grants \in SUBSET GrantTypes,
       scopes \in ScopeSets :
        LET old == d.client[c]
            new == [old EXCEPT !.active = active, !.grants = grants, !.scopes = scopes]
        IN  /\ ValidClient(old.confidential, grants)
            /\ old.machineAccess # "none" => "client_credentials" \in grants
            /\ e = ReplaceClientRow(d, c, new, CapabilitiesNarrowed(old, new))

ClientDelete(d, e) == \E c \in Present(d.client) : e = DeleteClient(d, c)

ClientUserOrganizations(d, e) ==
    \E c \in Present(d.client), mode \in UserAccessModes, assigned \in SUBSET Present(d.org) :
        LET old == d.client[c]
            new == [old EXCEPT !.userAccess = mode, !.userOrgs = assigned]
        IN  /\ OrganizationAssignmentCountIsValid(mode, assigned)
            /\ e = ReplaceClientRow(d, c, new, UserPolicyNarrowed(old, new))

ClientMachineOrganizations(d, e) ==
    \E c \in Present(d.client), mode \in MachineAccessModes, assigned \in SUBSET Present(d.org) :
        LET old == d.client[c]
            new == [old EXCEPT !.machineAccess = mode, !.machineOrgs = assigned]
        IN  /\ mode = "none" \/ "client_credentials" \in old.grants
            /\ OrganizationAssignmentCountIsValid(mode, assigned)
            /\ e = ReplaceClientRow(d, c, new, MachinePolicyNarrowed(old, new))

ClientRegistry(d, p, e) ==
    /\ Actor(d, p).operator
    /\ ClientCreate(d, e) \/ ClientReplace(d, e) \/ ClientDelete(d, e)
ClientOrganizations(d, p, e) ==
    /\ Actor(d, p).operator
    /\ ClientUserOrganizations(d, e) \/ ClientMachineOrganizations(d, e)

-----------------------------------------------------------------------------
(* The actor's own account.                                                *)

SelfDelete(d, p, e) ==
    LET u == d.cred[p].user
    IN  ProtectDelete(d, u) /\ e = DeleteUser(d, u)

\* Another browser session, or an OAuth2 session, of the same user.
OwnSessions(d, p, e) ==
    \E k \in SessionsOfUser(d, d.cred[p].user) \ {p} : e = EndSessions(d, {k})

\* This browser session, the others of its user, or all of them.
Logout(d, p, e) ==
    LET all == SessionsOfUser(d, d.cred[p].user) \cap BrowserSessions(d)
    IN  \E ended \in {{p}, all \ {p}, all} : e = EndSessions(d, ended)

-----------------------------------------------------------------------------
(* Without a principal.                                                    *)

\* The first start, serialized by a file lock and done before requests are served.
BootstrapOperatorUser(d, e) ==
    /\ Present(d.user) = {}
    /\ \E u \in Users, o \in Vacant(d.org), name \in Names :
           e = [CreateUser(d, u, [org |-> o, role |-> "admin", operator |-> TRUE, active |-> TRUE,
                                  verified |-> TRUE, hash |-> Mint(d)])
                EXCEPT !.org = [d.org EXCEPT ![o] = name]]

\* Registration founds an organization and makes its founder the administrator.
Register(d, e) ==
    \E u \in Vacant(d.user), o \in Vacant(d.org), name \in Names :
        e = [CreateUser(d, u, [org |-> o, role |-> "admin", operator |-> FALSE, active |-> TRUE,
                               verified |-> FALSE, hash |-> Mint(d)])
             EXCEPT !.org = [d.org EXCEPT ![o] = name]]

\* A link from a mail verifies the address it went to, which may be a new one, or also
\* sets a password.  Which links still work is the subject of WorkflowTokens.
ConfirmEmail(d, e) ==
    \E u \in Present(d.user) :
        /\ d.user[u].active
        /\ e = RevokeUserSecuritySessions(
                   [d EXCEPT !.user = [d.user EXCEPT ![u] = [d.user[u] EXCEPT !.verified = TRUE]]],
                   u)
SetPasswordByLink(d, e) ==
    \E u \in Present(d.user) : d.user[u].active /\ e = SetPassword(d, u, TRUE)

\* The command line tool of the machine's administrator.
ProvisionMachineClient(d, e) ==
    \E c \in Vacant(d.client), scopes \in ScopeSets, mode \in MachineAccessModes,
       assigned \in SUBSET Present(d.org) :
        /\ OrganizationAssignmentCountIsValid(mode, assigned)
        /\ e = CreateClient(d, c,
               [confidential |-> TRUE, active |-> TRUE, grants |-> {"client_credentials"},
                scopes |-> scopes, secret |-> Mint(d),
                userAccess |-> "unrestricted", userOrgs |-> {},
                machineAccess |-> mode, machineOrgs |-> assigned])

-----------------------------------------------------------------------------
(* Services that step out of their transaction to hash.                    *)

PasswordMemo(d, p) == [task |-> "password", row |-> d.cred[p].user, hash |-> Actor(d, p).hash]
RotationMemo(d, c) == [task |-> "rotation", row |-> c, hash |-> d.client[c].secret]
LoginMemo(d, u) == [task |-> "login", row |-> u, hash |-> d.user[u].hash]
TokenMemo(d, c) == [task |-> "token", row |-> c, hash |-> d.client[c].secret]
Memos ==
    [task : {"password", "login"}, row : Users, hash : Nat]
        \cup [task : {"rotation", "token"}, row : Clients, hash : Nat]

\* What a request may set aside after reading d as p.
Departures(d, p) ==
    (IF BrowserPrincipal(d, p) THEN {PasswordMemo(d, p)} ELSE {})
        \cup
    (IF RequireOperatorPermission(d, p, "oauth2_clients:write")
     THEN {RotationMemo(d, c) : c \in {x \in Present(d.client) : d.client[x].confidential}}
     ELSE {})
        \cup
    (IF p = None
     THEN {LoginMemo(d, u) : u \in {x \in Present(d.user) : Accessible(d.user[x])}}
              \cup {TokenMemo(d, c) : c \in {x \in Present(d.client) : d.client[x].active}}
     ELSE {})

ChangePasswordAutonomously(d, m, e) ==
    /\ d.user[m.row] # None
    /\ d.user[m.row].hash = m.hash
    /\ d.user[m.row].active
    /\ e = SetPassword(d, m.row, d.user[m.row].verified)

RotateClientSecretAutonomously(d, m, e) ==
    /\ d.client[m.row] # None
    /\ d.client[m.row].confidential
    /\ d.client[m.row].secret = m.hash
    /\ e = [UpdateClient(d, m.row, [d.client[m.row] EXCEPT !.secret = Mint(d)])
            EXCEPT !.minted = Mint(d)]

\* What makes room for a new browser session of u; that it is the oldest, BrowserSession
\* says.
Overflow(d, u) ==
    LET own == SessionsOfUser(d, u) \cap BrowserSessions(d)
    IN  IF Cardinality(own) < MaxSessionsPerUser THEN {{}}
        ELSE {over \in SUBSET own : Cardinality(own \ over) = MaxSessionsPerUser - 1}

Login(d, m, e) ==
    /\ d.user[m.row] # None
    /\ Accessible(d.user[m.row])
    /\ d.user[m.row].hash = m.hash
    /\ \E k \in Vacant(d.cred), over \in Overflow(d, m.row) :
           e = OpenSession(EndSessions(d, over), k,
                           [kind |-> "browser", user |-> m.row, client |-> None,
                            scopes |-> {}, holder |-> d.user[m.row]])

\* Mutant: only its secret is compared.
LockAndReloadSecret(d, m) == d.client[m.row] # None /\ d.client[m.row].secret = m.hash

\* The client is locked and read again: what was authenticated must still be so.
LockAndReloadTokenClient(d, m) ==
    /\ ActiveClient(d, m.row)
    /\ d.client[m.row].confidential => d.client[m.row].secret = m.hash

\* An authorization code or a device code, whose own life TokenFamily, AuthorizationFlow
\* and DeviceFlow model.
IssueUserToken(d, m, e) ==
    /\ LockAndReloadTokenClient(d, m)
    /\ "authorization_code" \in d.client[m.row].grants
    /\ \E k \in Vacant(d.cred), u \in Present(d.user), scopes \in SUBSET d.client[m.row].scopes :
           /\ Accessible(d.user[u])
           /\ ClientAllowsUserOrganization(d.client[m.row], d.user[u].org)
           /\ e = OpenSession(d, k, [kind |-> "user", user |-> u, client |-> m.row,
                                     scopes |-> scopes, holder |-> d.user[u]])

HandleClientCredentialsGrant(d, m, e) ==
    /\ LockAndReloadTokenClient(d, m)
    /\ d.client[m.row].confidential
    /\ "client_credentials" \in d.client[m.row].grants
    /\ \E k \in Vacant(d.cred), scopes \in SUBSET d.client[m.row].scopes :
           e = OpenSession(d, k, [kind |-> "machine", user |-> None, client |-> m.row,
                                  scopes |-> scopes, holder |-> None])

\* A client revokes a token it holds; it is not read again.
RevokeToken(d, m, e) == \E k \in SessionsOfClient(d, m.row) : e = EndSessions(d, {k})

Completion(d, m, e) ==
    \/ m.task = "password" /\ ChangePasswordAutonomously(d, m, e)
    \/ m.task = "rotation" /\ RotateClientSecretAutonomously(d, m, e)
    \/ m.task = "login" /\ Login(d, m, e)
    \/ /\ m.task = "token"
       /\ IssueUserToken(d, m, e) \/ HandleClientCredentialsGrant(d, m, e) \/ RevokeToken(d, m, e)
=============================================================================
