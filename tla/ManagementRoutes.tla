-------------------------- MODULE ManagementRoutes --------------------------
(***************************************************************************)
(* The entry points: the JSON API under app/api/v1, for a browser session  *)
(* or a bearer token with the permission of the route, and the management  *)
(* pages under app/web, for a browser session with the role of the page.   *)
(* Each admits the credential p of a request (None if it presents none);   *)
(* both sets then call the same services, which check the actor's role     *)
(* again.                                                                  *)
(***************************************************************************)
EXTENDS ManagementServices

(* The server control plane.                                               *)

ServerUsersApi(d, p) == RequireOperatorPermission(d, p, "users:write")
OperatorUsersPages(d, p) == RequireOperatorForm(d, p)
ServerUsersRoutes(d, p, e) ==
    /\ ServerUsersApi(d, p) \/ OperatorUsersPages(d, p)
    /\ ServerUsers(d, p, e)

ServerOrganizationsApi(d, p) == RequireOperatorPermission(d, p, "organizations:write")
OperatorOrganizationsPages(d, p) == RequireOperatorForm(d, p)
ServerOrganizationsRoutes(d, p, e) ==
    /\ ServerOrganizationsApi(d, p) \/ OperatorOrganizationsPages(d, p)
    /\ ServerOrganizations(d, p, e)

ServerClientsApi(d, p) == RequireOperatorPermission(d, p, "oauth2_clients:write")
OperatorClientsPages(d, p) == RequireOperatorForm(d, p)
ServerClientsRoutes(d, p, e) ==
    /\ ServerClientsApi(d, p) \/ OperatorClientsPages(d, p)
    /\ ClientRegistry(d, p, e)

ClientOrganizationsApi(d, p) == RequireOperatorPermission(d, p, "oauth2_clients:write")
ClientOrganizationsPages(d, p) == RequireOperatorForm(d, p)
ClientOrganizationsRoutes(d, p, e) ==
    /\ ClientOrganizationsApi(d, p) \/ ClientOrganizationsPages(d, p)
    /\ ClientOrganizations(d, p, e)

ServerBrowserSessionsApi(d, p, e) ==
    RequireOperatorPermission(d, p, "sessions:write") /\ e = DeleteAllSessions(d)
OperatorSessionsPages(d, p, e) ==
    /\ RequireOperatorForm(d, p)
    /\ \/ e = DeleteAllSessions(d)
       \/ e = ClearAllOAuth2Sessions(d)
       \/ e = RevokeAllSecuritySessions(d)
OperatorUserSessionsPages(d, p, e) ==
    /\ RequireOperatorForm(d, p)
    /\ \E u \in Present(d.user) : UserSessionActions(d, u, e)
OperatorOrganizationSessionsPages(d, p, e) ==
    /\ RequireOperatorForm(d, p)
    /\ \E o \in Organizations :
           MayEndOrganizationSessions(d, p, o) /\ OrganizationSessionActions(d, o, e)

\* The one route a machine client may call.
OrganizationSecuritySessionsApi(d, p, e) ==
    \E o \in Organizations :
        MayEndOrganizationSessions(d, p, o) /\ e = RevokeOrganizationSecuritySessions(d, o)

(* Administration of one organization.                                     *)

OrganizationUsersApi(d, p) == RequireOrganizationAdminPermission(d, p, "organization:write")
OrganizationUsersPages(d, p) == RequireOrganizationAdminForm(d, p)
OrganizationUsersRoutes(d, p, e) ==
    /\ OrganizationUsersApi(d, p) \/ OrganizationUsersPages(d, p)
    /\ OrganizationUsers(d, p, e)

OrganizationMetadataApi(d, p) == RequireOrganizationAdminPermission(d, p, "organization:write")
OrganizationMetadataPages(d, p) == RequireOrganizationAdminForm(d, p)
OrganizationMetadataRoutes(d, p, e) ==
    /\ OrganizationMetadataApi(d, p) \/ OrganizationMetadataPages(d, p)
    /\ OrganizationMetadata(d, p, e)

OrganizationOAuth2SessionsApi(d, p) ==
    RequireOrganizationAdminPermission(d, p, "organization:write")
OrganizationOAuth2SessionsPages(d, p) == RequireOrganizationAdminForm(d, p)
OrganizationOAuth2SessionsRoutes(d, p, e) ==
    /\ OrganizationOAuth2SessionsApi(d, p) \/ OrganizationOAuth2SessionsPages(d, p)
    /\ OrganizationOAuth2Sessions(d, p, e)

OrganizationUserSessionsPages(d, p, e) ==
    /\ RequireOrganizationAdminForm(d, p)
    /\ \E u \in OrganizationTargets(d, p) : UserSessionActions(d, u, e)
OrganizationSecuritySessionsPages(d, p, e) ==
    RequireOrganizationAdminForm(d, p) /\ OrganizationSessionActions(d, Actor(d, p).org, e)

(* The actor's own account: browser sessions only.                         *)

MeApi(d, p, e) == BrowserPrincipal(d, p) /\ SelfDelete(d, p, e)
MeSessionsApi(d, p, e) == BrowserPrincipal(d, p) /\ OwnSessions(d, p, e)
\* Whatever has become of the account.
LogoutApi(d, p, e) == Holds(d, p, "browser") /\ Logout(d, p, e)

(* Without a credential: for a visitor or the holder of a link.            *)

RegistrationRoutes(d, e) == Register(d, e)
LinkRoutes(d, e) == ConfirmEmail(d, e) \/ SetPasswordByLink(d, e)

-----------------------------------------------------------------------------
(* What a request may do, by the part of the product it belongs to.        *)

OperatorRequest(d, p, e) ==
    \/ ServerBrowserSessionsApi(d, p, e)
    \/ OperatorSessionsPages(d, p, e)
    \/ OperatorUserSessionsPages(d, p, e)
    \/ OperatorOrganizationSessionsPages(d, p, e)
    \/ ServerOrganizationsRoutes(d, p, e)
    \/ ServerClientsRoutes(d, p, e)
    \/ ClientOrganizationsRoutes(d, p, e)
    \/ ServerUsersRoutes(d, p, e)
OrganizationRequest(d, p, e) ==
    \/ OrganizationUsersRoutes(d, p, e)
    \/ OrganizationMetadataRoutes(d, p, e)
    \/ OrganizationOAuth2SessionsRoutes(d, p, e)
    \/ OrganizationUserSessionsPages(d, p, e)
    \/ OrganizationSecuritySessionsPages(d, p, e)
OwnRequest(d, p, e) == MeApi(d, p, e) \/ MeSessionsApi(d, p, e) \/ LogoutApi(d, p, e)
PublicRequest(d, e) ==
    \/ BootstrapOperatorUser(d, e)
    \/ RegistrationRoutes(d, e)
    \/ LinkRoutes(d, e)
    \/ ProvisionMachineClient(d, e)

Request(d, p, e) ==
    \/ OwnRequest(d, p, e)
    \/ OrganizationSecuritySessionsApi(d, p, e)
    \/ OrganizationRequest(d, p, e)
    \/ p = None /\ PublicRequest(d, e)
    \/ OperatorRequest(d, p, e)
=============================================================================
