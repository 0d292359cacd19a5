-------------------------- MODULE IdentityDatabase --------------------------
(***************************************************************************)
(* The rows the control plane decides on, as a record d: users with their  *)
(* membership, organizations, OAuth2 clients with their organization       *)
(* policies, and the live credentials (browser sessions and OAuth2         *)
(* families).  Every operator is a function or a predicate of such a       *)
(* record: who a credential acts as, what it permits                       *)
(* (app/security, app/oauth2/principal.py), what the access invariants     *)
(* allow, and what each write ends.                                        *)
(***************************************************************************)
EXTENDS Integers, FiniteSets

CONSTANTS
    Users, Organizations, Clients, Credentials,  \* rows a table may hold (bounds)
    Names,      \* of organizations
    ScopeSets,  \* sets of scopes a client may be allowed
    None

Permissions ==
    {"profile:read", "profile:write", "organization:read", "organization:write",
     "organizations:read", "organizations:write", "users:read", "users:write",
     "sessions:write", "oauth2_clients:read", "oauth2_clients:write"}
Roles == {"member", "admin"}
GrantTypes == {"authorization_code", "client_credentials"}
UserAccessModes == {"unrestricted", "single", "selected"}
MachineAccessModes == {"none", "single", "selected", "unrestricted"}

UserRows ==
    [org : Organizations, role : Roles, operator : BOOLEAN, active : BOOLEAN,
     verified : BOOLEAN, hash : Nat]
ClientRows ==
    [confidential : BOOLEAN, active : BOOLEAN, grants : SUBSET GrantTypes,
     scopes : ScopeSets, secret : Nat,
     userAccess : UserAccessModes, userOrgs : SUBSET Organizations,
     machineAccess : MachineAccessModes, machineOrgs : SUBSET Organizations]
\* holder is history: the user's row when the session was opened.  Of it the code stores
\* the organization (oauth2_session.organization_id).
CredentialRows ==
    [kind : {"browser"}, user : Users, client : {None}, scopes : {{}}, holder : UserRows]
        \cup
    [kind : {"user"}, user : Users, client : Clients, scopes : SUBSET Permissions,
     holder : UserRows]
        \cup
    [kind : {"machine"}, user : {None}, client : Clients, scopes : SUBSET Permissions,
     holder : {None}]
ASSUME IdentityDatabaseAssumption ==
    /\ IsFiniteSet(Users)
    /\ ScopeSets \subseteq SUBSET Permissions
    /\ None \notin Users \cup Organizations \cup Clients \cup Credentials \cup Names
    /\ None \notin UserRows \cup ClientRows \cup CredentialRows

\* minted numbers the password and secret hashes ever stored.
Databases ==
    [user : [Users -> UserRows \cup {None}],
     org : [Organizations -> Names \cup {None}],
     client : [Clients -> ClientRows \cup {None}],
     cred : [Credentials -> CredentialRows \cup {None}],
     minted : Nat]

Present(table) == {x \in DOMAIN table : table[x] # None}
Vacant(table) == {x \in DOMAIN table : table[x] = None}

-----------------------------------------------------------------------------
(* Principals: what a credential stands for in the snapshot d.             *)

\* A user may act while its account is active and its current address verified.
Accessible(row) == row.active /\ row.verified

RolePermissions(row) ==
    {"profile:read", "profile:write"}
        \cup (IF row.role = "admin" THEN {"organization:read", "organization:write"} ELSE {})
        \cup (IF row.operator
              THEN {"organizations:read", "organizations:write", "users:read", "users:write",
                    "sessions:write", "oauth2_clients:read", "oauth2_clients:write"}
              ELSE {})

Holds(d, p, kind) == p \in Present(d.cred) /\ d.cred[p].kind = kind
Actor(d, p) == d.user[d.cred[p].user]

\* The account behind a session; of an OAuth2 session also its organization.
EligibleIdentity(d, p) ==
    /\ Actor(d, p) # None
    /\ Accessible(Actor(d, p))
    /\ Actor(d, p).org = d.cred[p].holder.org

ActiveClient(d, c) == d.client[c] # None /\ d.client[c].active

BrowserPrincipal(d, p) ==
    /\ Holds(d, p, "browser")
    /\ Actor(d, p) # None
    /\ Accessible(Actor(d, p))

BearerPrincipal(d, p) ==
    /\ Holds(d, p, "user")
    /\ ActiveClient(d, d.cred[p].client)
    /\ EligibleIdentity(d, p)

MachinePrincipal(d, p) ==
    /\ Holds(d, p, "machine")
    /\ ActiveClient(d, d.cred[p].client)

\* get_current_user_context: a user by bearer token or by browser session.
UserPrincipal(d, p) == BrowserPrincipal(d, p) \/ BearerPrincipal(d, p)

BrowserPermissions(d, p) == RolePermissions(Actor(d, p))
BearerPermissions(d, p) == RolePermissions(Actor(d, p)) \cap d.cred[p].scopes
UserPermissions(d, p) ==
    IF d.cred[p].kind = "browser" THEN BrowserPermissions(d, p) ELSE BearerPermissions(d, p)

RequirePermission(d, p, permission) ==
    UserPrincipal(d, p) /\ permission \in UserPermissions(d, p)
RequireOrganizationAdminPermission(d, p, permission) ==
    RequirePermission(d, p, permission) /\ Actor(d, p).role = "admin"
RequireOperatorPermission(d, p, permission) ==
    RequirePermission(d, p, permission) /\ Actor(d, p).operator
\* The guards of the management pages: a browser session and a role.
RequireOrganizationAdminForm(d, p) == BrowserPrincipal(d, p) /\ Actor(d, p).role = "admin"
RequireOperatorForm(d, p) == BrowserPrincipal(d, p) /\ Actor(d, p).operator

-----------------------------------------------------------------------------
(* The access invariants: counts taken under the writer lock.              *)

AccessibleOperators(d) ==
    {u \in Present(d.user) : d.user[u].operator /\ Accessible(d.user[u])}
AccessibleAdministrators(d, o) ==
    {u \in Present(d.user) :
        d.user[u].org = o /\ d.user[u].role = "admin" /\ Accessible(d.user[u])}

\* Mutant: the target counts too.
RequireAnyOperator(d) == AccessibleOperators(d) # {}
RequireOtherOperator(d) == Cardinality(AccessibleOperators(d)) > 1
RequireOtherOrganizationAdmin(d, o) == Cardinality(AccessibleAdministrators(d, o)) > 1

ProtectUpdate(d, u, new) ==
    LET old == d.user[u]
        closed == ~new.active \/ ~new.verified
        removesOperator == old.operator /\ Accessible(old) /\ (~new.operator \/ closed)
        removesAdministrator ==
            /\ old.role = "admin" /\ Accessible(old)
            /\ new.role = "member" \/ closed \/ new.org # old.org
    IN  /\ removesOperator => RequireOtherOperator(d)
        /\ removesAdministrator => RequireOtherOrganizationAdmin(d, old.org)

ProtectDelete(d, u) ==
    LET old == d.user[u]
    IN  /\ old.operator /\ Accessible(old) => AccessibleOperators(d) \ {u} # {}
        /\ old.role = "admin" /\ Accessible(old)
               => AccessibleAdministrators(d, old.org) \ {u} # {}

-----------------------------------------------------------------------------
(* Sessions and what ends them.                                            *)

EndSessions(d, ended) ==
    [d EXCEPT !.cred = [k \in Credentials |-> IF k \in ended THEN None ELSE d.cred[k]]]

BrowserSessions(d) == {k \in Present(d.cred) : d.cred[k].kind = "browser"}
OAuth2Sessions(d) == {k \in Present(d.cred) : d.cred[k].kind # "browser"}
SessionsOfUser(d, u) == {k \in Present(d.cred) : d.cred[k].user = u}
SessionsOfClient(d, c) == {k \in Present(d.cred) : d.cred[k].client = c}
\* Browser sessions by the membership of their user, OAuth2 sessions by their own column.
BrowserSessionsOfOrganization(d, o) ==
    {k \in BrowserSessions(d) : Actor(d, k) # None /\ Actor(d, k).org = o}
OAuth2SessionsOfOrganization(d, o) ==
    {k \in OAuth2Sessions(d) : d.cred[k].kind = "user" /\ d.cred[k].holder.org = o}

RevokeUserSecuritySessions(d, u) == EndSessions(d, SessionsOfUser(d, u))
RevokeOrganizationSecuritySessions(d, o) ==
    EndSessions(d, BrowserSessionsOfOrganization(d, o) \cup OAuth2SessionsOfOrganization(d, o))
RevokeAllSecuritySessions(d) == EndSessions(d, Credentials)
ClearOrganizationOAuth2Sessions(d, o) == EndSessions(d, OAuth2SessionsOfOrganization(d, o))
ClearUserOAuth2Sessions(d, u) == EndSessions(d, SessionsOfUser(d, u) \cap OAuth2Sessions(d))
ClearAllOAuth2Sessions(d) == EndSessions(d, OAuth2Sessions(d))
DeleteUserSessions(d, u) == EndSessions(d, SessionsOfUser(d, u) \cap BrowserSessions(d))
DeleteOrganizationSessions(d, o) == EndSessions(d, BrowserSessionsOfOrganization(d, o))
DeleteAllSessions(d) == EndSessions(d, BrowserSessions(d))
RevokeClientSessions(d, c) == EndSessions(d, SessionsOfClient(d, c))

OpenSession(d, k, row) == [d EXCEPT !.cred = [d.cred EXCEPT ![k] = row]]

-----------------------------------------------------------------------------
(* Users.                                                                  *)

\* Passwords and secrets are hashed with a fresh salt.
Mint(d) == d.minted + 1

CreateUser(d, u, row) ==
    [d EXCEPT !.user = [d.user EXCEPT ![u] = row], !.minted = Mint(d)]

\* Mutant: a new role does not count.
RevokesSessionsUnlessRole(old, new) ==
    \/ new.active # old.active
    \/ new.operator # old.operator
    \/ new.verified # old.verified
    \/ new.org # old.org

\* Whether an update changes who may act and as what.
RevokesSessions(old, new) ==
    \/ new.active # old.active
    \/ new.operator # old.operator
    \/ new.verified # old.verified
    \/ new.role # old.role
    \/ new.org # old.org

UpdateUser(d, u, new) ==
    LET updated == [d EXCEPT !.user = [d.user EXCEPT ![u] = new]]
    IN  IF RevokesSessions(d.user[u], new)
        THEN RevokeUserSecuritySessions(updated, u)
        ELSE updated

SetPassword(d, u, verified) ==
    RevokeUserSecuritySessions(
        [d EXCEPT
            !.user = [d.user EXCEPT
                        ![u] = [d.user[u] EXCEPT !.hash = Mint(d), !.verified = verified]],
            !.minted = Mint(d)],
        u)

\* Mutant: no cascade.
DeleteUserRow(d, u) == [d EXCEPT !.user = [d.user EXCEPT ![u] = None]]

\* The sessions go with their user: ON DELETE CASCADE.
DeleteUser(d, u) ==
    [RevokeUserSecuritySessions(d, u) EXCEPT !.user = [d.user EXCEPT ![u] = None]]

-----------------------------------------------------------------------------
(* Clients.                                                                *)

OrganizationAssignmentCountIsValid(mode, assigned) ==
    \/ mode \in {"unrestricted", "none"} /\ assigned = {}
    \/ mode = "single" /\ Cardinality(assigned) = 1
    \/ mode = "selected" /\ assigned # {}

\* ensure_client_allows_user_organization
ClientAllowsUserOrganization(row, o) ==
    /\ OrganizationAssignmentCountIsValid(row.userAccess, row.userOrgs)
    /\ row.userAccess = "unrestricted" \/ o \in row.userOrgs

\* Whether a replacement takes something from what tokens were issued for.
CapabilitiesNarrowed(old, new) ==
    \/ old.scopes \ new.scopes # {}
    \/ old.grants \ new.grants # {}
    \/ old.active /\ ~new.active

\* Mutant: organizations that are taken from the list do not count.
UserPolicyNarrowedByMode(old, new) ==
    old.userAccess = "unrestricted" /\ new.userAccess # "unrestricted"

UserPolicyNarrowed(old, new) ==
    IF old.userAccess = "unrestricted"
    THEN new.userAccess # "unrestricted"
    ELSE new.userAccess # "unrestricted" /\ old.userOrgs \ new.userOrgs # {}

MachinePolicyNarrowed(old, new) ==
    /\ old.machineAccess # "none"
    /\ \/ new.machineAccess = "none"
       \/ IF old.machineAccess = "unrestricted"
          THEN new.machineAccess # "unrestricted"
          ELSE new.machineAccess # "unrestricted" /\ old.machineOrgs \ new.machineOrgs # {}

\* _update_client writes every column, those that were only read among them.
UpdateClient(d, c, row) == [d EXCEPT !.client = [d.client EXCEPT ![c] = row]]

ReplaceClientRow(d, c, row, narrowed) ==
    IF narrowed THEN RevokeClientSessions(UpdateClient(d, c, row), c) ELSE UpdateClient(d, c, row)

CreateClient(d, c, row) == [UpdateClient(d, c, row) EXCEPT !.minted = Mint(d)]

\* The sessions go with their client: ON DELETE CASCADE.
DeleteClient(d, c) == RevokeClientSessions(UpdateClient(d, c, None), c)
=============================================================================
