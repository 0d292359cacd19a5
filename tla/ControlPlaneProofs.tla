-------------------------- MODULE ControlPlaneProofs --------------------------
(* Theorems about ControlPlane, for every value of its constants.          *)
EXTENDS ControlPlane, FiniteSetTheorems, TLAPS

-----------------------------------------------------------------------------
(* The writes, as equations between the tables.                            *)

\* A database has its five columns, each of its type.
LEMMA Columns ==
    ASSUME NEW d \in Databases
    PROVE  /\ d.user \in [Users -> UserRows \cup {None}]
           /\ d.org \in [Organizations -> Names \cup {None}]
           /\ d.client \in [Clients -> ClientRows \cup {None}]
           /\ d.cred \in [Credentials -> CredentialRows \cup {None}]
           /\ d.minted \in Nat /\ Mint(d) \in Nat
           /\ Present(d.user) = {u \in Users : d.user[u] # None}
           /\ Present(d.org) = {o \in Organizations : d.org[o] # None}
           /\ Present(d.client) = {c \in Clients : d.client[c] # None}
           /\ Present(d.cred) = {k \in Credentials : d.cred[k] # None}
           /\ Vacant(d.user) = {u \in Users : d.user[u] = None}
           /\ Vacant(d.org) = {o \in Organizations : d.org[o] = None}
           /\ Vacant(d.client) = {c \in Clients : d.client[c] = None}
           /\ Vacant(d.cred) = {k \in Credentials : d.cred[k] = None}
  BY DEF Databases, Present, Vacant, Mint

\* A user's row has all its columns.
LEMMA UserColumns ==
    ASSUME NEW row \in UserRows
    PROVE  /\ row.org \in Organizations /\ row.role \in Roles /\ row.hash \in Nat
           /\ row.operator \in BOOLEAN /\ row.active \in BOOLEAN /\ row.verified \in BOOLEAN
           /\ row = [org |-> row.org, role |-> row.role, operator |-> row.operator,
                     active |-> row.active, verified |-> row.verified, hash |-> row.hash]
  BY DEF UserRows

\* A client's row has all its columns.
LEMMA ClientColumns ==
    ASSUME NEW row \in ClientRows
    PROVE  /\ row.confidential \in BOOLEAN /\ row.active \in BOOLEAN
           /\ row.grants \subseteq GrantTypes /\ row.scopes \in ScopeSets /\ row.secret \in Nat
           /\ row.userAccess \in UserAccessModes /\ row.userOrgs \subseteq Organizations
           /\ row.machineAccess \in MachineAccessModes /\ row.machineOrgs \subseteq Organizations
  BY DEF ClientRows

\* What a credential's kind says of its columns.
LEMMA CredentialColumns ==
    ASSUME NEW row \in CredentialRows
    PROVE  /\ row.kind \in {"browser", "user", "machine"}
           /\ row.kind # "machine" => row.user \in Users /\ row.holder \in UserRows
           /\ row.kind = "machine" => row.user = None /\ row.holder = None
           /\ row.kind # "browser" => row.client \in Clients /\ row.scopes \subseteq Permissions
           /\ row.kind = "browser" => row.client = None
  BY DEF CredentialRows

\* No row is None.
LEMMA RowsAreNotNone == None \notin UserRows /\ None \notin ClientRows /\ None \notin CredentialRows
  BY IdentityDatabaseAssumption

\* e has the tables of d, but for the sessions that ended.
Ends(d, ended, e) ==
    /\ e \in Databases
    /\ e.user = d.user /\ e.org = d.org /\ e.client = d.client /\ e.minted = d.minted
    /\ \A k \in Credentials : e.cred[k] = IF k \in ended THEN None ELSE d.cred[k]

LEMMA EndSessionsEffect ==
    ASSUME NEW d \in Databases, NEW ended
    PROVE  Ends(d, ended, EndSessions(d, ended))
  <1> DEFINE cred == [k \in Credentials |-> IF k \in ended THEN None ELSE d.cred[k]]
  <1>1. cred \in [Credentials -> CredentialRows \cup {None}]
    BY Columns
  <1>2. /\ EndSessions(d, ended).cred = cred
        /\ EndSessions(d, ended).user = d.user /\ EndSessions(d, ended).org = d.org
        /\ EndSessions(d, ended).client = d.client /\ EndSessions(d, ended).minted = d.minted
    BY DEF EndSessions, Databases
  <1>3. EndSessions(d, ended) \in Databases
    BY <1>1 DEF EndSessions, Databases
  <1> QED
    BY <1>2, <1>3 DEF Ends

\* e has the tables of d, but for the row of u and sessions of u that ended.
UserWritten(d, u, new, ended, e) ==
    /\ e \in Databases
    /\ e.user = [d.user EXCEPT ![u] = new]
    /\ e.org = d.org /\ e.client = d.client
    /\ \A k \in Credentials : e.cred[k] = IF k \in ended THEN None ELSE d.cred[k]

LEMMA UserRowEffect ==
    ASSUME NEW d \in Databases, NEW u \in Users, NEW new \in UserRows \cup {None},
           NEW minted \in Nat
    PROVE  LET e == [d EXCEPT !.user = [d.user EXCEPT ![u] = new], !.minted = minted]
           IN  e \in Databases /\ UserWritten(d, u, new, {}, e)
  <1> DEFINE e == [d EXCEPT !.user = [d.user EXCEPT ![u] = new], !.minted = minted]
  <1>1. [d.user EXCEPT ![u] = new] \in [Users -> UserRows \cup {None}]
    BY Columns
  <1>2. /\ e.user = [d.user EXCEPT ![u] = new] /\ e.org = d.org /\ e.client = d.client
        /\ e.cred = d.cred
    BY DEF Databases
  <1>3. e \in Databases
    BY <1>1 DEF Databases
  <1> QED
    BY <1>2, <1>3 DEF UserWritten

LEMMA UserRowOnlyEffect ==
    ASSUME NEW d \in Databases, NEW u \in Users, NEW new \in UserRows \cup {None}
    PROVE  UserWritten(d, u, new, {}, [d EXCEPT !.user = [d.user EXCEPT ![u] = new]])
  <1> DEFINE e == [d EXCEPT !.user = [d.user EXCEPT ![u] = new]]
  <1>1. [d.user EXCEPT ![u] = new] \in [Users -> UserRows \cup {None}]
    BY Columns
  <1>2. /\ e.user = [d.user EXCEPT ![u] = new] /\ e.org = d.org /\ e.client = d.client
        /\ e.cred = d.cred
    BY DEF Databases
  <1>3. e \in Databases
    BY <1>1 DEF Databases
  <1> QED
    BY <1>2, <1>3 DEF UserWritten

\* Ending all the sessions of u after its row is written.
LEMMA RevokeAfterWrite ==
    ASSUME NEW d \in Databases, NEW u \in Users, NEW new, NEW f,
           UserWritten(d, u, new, {}, f)
    PROVE  UserWritten(d, u, new, SessionsOfUser(d, u), RevokeUserSecuritySessions(f, u))
  <1>1. f \in Databases
    BY DEF UserWritten
  <1>2. Ends(f, SessionsOfUser(f, u), RevokeUserSecuritySessions(f, u))
    BY <1>1, EndSessionsEffect DEF RevokeUserSecuritySessions
  <1>3. \A k \in Credentials : f.cred[k] = d.cred[k]
    BY DEF UserWritten
  <1>4. SessionsOfUser(f, u) = SessionsOfUser(d, u)
    BY <1>1, <1>3, Columns DEF SessionsOfUser
  <1> QED
    BY <1>2, <1>3, <1>4 DEF UserWritten, Ends

LEMMA UpdateUserEffect ==
    ASSUME NEW d \in Databases, NEW u \in Users, NEW new \in UserRows
    PROVE  UserWritten(d, u, new,
                       IF RevokesSessions(d.user[u], new) THEN SessionsOfUser(d, u) ELSE {},
                       UpdateUser(d, u, new))
  <1>1. CASE RevokesSessions(d.user[u], new)
    BY <1>1, UserRowOnlyEffect, RevokeAfterWrite DEF UpdateUser
  <1>2. CASE ~RevokesSessions(d.user[u], new)
    BY <1>2, UserRowOnlyEffect DEF UpdateUser
  <1> QED
    BY <1>1, <1>2

LEMMA SetPasswordEffect ==
    ASSUME NEW d \in Databases, NEW u \in Present(d.user), NEW verified \in BOOLEAN
    PROVE  LET new == [d.user[u] EXCEPT !.hash = Mint(d), !.verified = verified]
           IN  /\ new \in UserRows
               /\ UserWritten(d, u, new, SessionsOfUser(d, u), SetPassword(d, u, verified))
  <1> DEFINE new == [d.user[u] EXCEPT !.hash = Mint(d), !.verified = verified]
  <1>1. u \in Users /\ d.user[u] \in UserRows /\ Mint(d) \in Nat
    BY Columns
  <1>2. new \in UserRows
    BY <1>1 DEF UserRows
  <1> HIDE DEF new
  <1>3. UserWritten(d, u, new, {}, [d EXCEPT !.user = [d.user EXCEPT ![u] = new], !.minted = Mint(d)])
    BY <1>1, <1>2, UserRowEffect
  <1>4. UserWritten(d, u, new, SessionsOfUser(d, u), SetPassword(d, u, verified))
    BY <1>1, <1>3, RevokeAfterWrite DEF SetPassword, new
  <1> QED
    BY <1>2, <1>4 DEF new

LEMMA CreateUserEffect ==
    ASSUME NEW d \in Databases, NEW u \in Users, NEW row \in UserRows
    PROVE  UserWritten(d, u, row, {}, CreateUser(d, u, row))
  BY Columns, UserRowEffect DEF CreateUser

LEMMA DeleteUserEffect ==
    ASSUME NEW d \in Databases, NEW u \in Users
    PROVE  UserWritten(d, u, None, SessionsOfUser(d, u), DeleteUser(d, u))
  <1>1. Ends(d, SessionsOfUser(d, u), RevokeUserSecuritySessions(d, u))
    BY EndSessionsEffect DEF RevokeUserSecuritySessions
  <1>2. RevokeUserSecuritySessions(d, u) \in Databases
    BY <1>1 DEF Ends
  <1>3. UserWritten(RevokeUserSecuritySessions(d, u), u, None, {},
                    [RevokeUserSecuritySessions(d, u) EXCEPT
                        !.user = [RevokeUserSecuritySessions(d, u).user EXCEPT ![u] = None]])
    BY <1>2, UserRowOnlyEffect
  <1>4. RevokeUserSecuritySessions(d, u).user = d.user
    BY <1>1 DEF Ends
  <1> QED
    BY <1>1, <1>3, <1>4 DEF DeleteUser, UserWritten, Ends
\* e has the tables of d, but for the row of c and sessions of c that ended.
ClientWritten(d, c, new, ended, e) ==
    /\ e \in Databases
    /\ e.client = [d.client EXCEPT ![c] = new]
    /\ e.org = d.org /\ e.user = d.user
    /\ \A k \in Credentials : e.cred[k] = IF k \in ended THEN None ELSE d.cred[k]

LEMMA ClientRowEffect ==
    ASSUME NEW d \in Databases, NEW c \in Clients, NEW new \in ClientRows \cup {None}
    PROVE  /\ ClientWritten(d, c, new, {}, UpdateClient(d, c, new))
           /\ UpdateClient(d, c, new).minted = d.minted
  <1>1. [d.client EXCEPT ![c] = new] \in [Clients -> ClientRows \cup {None}]
    BY Columns
  <1>2. /\ UpdateClient(d, c, new).client = [d.client EXCEPT ![c] = new]
        /\ UpdateClient(d, c, new).org = d.org /\ UpdateClient(d, c, new).user = d.user
        /\ UpdateClient(d, c, new).cred = d.cred /\ UpdateClient(d, c, new).minted = d.minted
    BY DEF Databases, UpdateClient
  <1>3. UpdateClient(d, c, new) \in Databases
    BY <1>1 DEF Databases, UpdateClient
  <1> QED
    BY <1>2, <1>3 DEF ClientWritten

\* Another count of the hashes stored.
LEMMA MintedEffect ==
    ASSUME NEW d \in Databases, NEW n \in Nat
    PROVE  /\ [d EXCEPT !.minted = n] \in Databases
           /\ [d EXCEPT !.minted = n].user = d.user /\ [d EXCEPT !.minted = n].org = d.org
           /\ [d EXCEPT !.minted = n].client = d.client /\ [d EXCEPT !.minted = n].cred = d.cred
  BY DEF Databases

LEMMA MintingClientEffect ==
    ASSUME NEW d \in Databases, NEW c \in Clients, NEW new \in ClientRows
    PROVE  ClientWritten(d, c, new, {}, [UpdateClient(d, c, new) EXCEPT !.minted = Mint(d)])
  <1>1. ClientWritten(d, c, new, {}, UpdateClient(d, c, new))
    BY ClientRowEffect
  <1>2. Mint(d) \in Nat /\ UpdateClient(d, c, new) \in Databases
    BY <1>1, Columns DEF ClientWritten
  <1> QED
    BY <1>1, <1>2, MintedEffect DEF ClientWritten

LEMMA RevokeAfterClientWrite ==
    ASSUME NEW d \in Databases, NEW c \in Clients, NEW new \in ClientRows \cup {None}
    PROVE  ClientWritten(d, c, new, SessionsOfClient(d, c),
                         RevokeClientSessions(UpdateClient(d, c, new), c))
  <1> DEFINE f == UpdateClient(d, c, new)
  <1>1. ClientWritten(d, c, new, {}, f)
    BY ClientRowEffect
  <1> HIDE DEF f
  <1>2. f \in Databases
    BY <1>1 DEF ClientWritten
  <1>3. Ends(f, SessionsOfClient(f, c), RevokeClientSessions(f, c))
    BY <1>2, EndSessionsEffect DEF RevokeClientSessions
  <1>4. \A k \in Credentials : f.cred[k] = d.cred[k]
    BY <1>1 DEF ClientWritten
  <1>5. SessionsOfClient(f, c) = SessionsOfClient(d, c)
    BY <1>2, <1>4, Columns DEF SessionsOfClient
  <1>6. ClientWritten(d, c, new, SessionsOfClient(d, c), RevokeClientSessions(f, c))
    BY <1>1, <1>3, <1>4, <1>5 DEF ClientWritten, Ends
  <1> QED
    BY <1>6 DEF f

LEMMA ReplaceClientEffect ==
    ASSUME NEW d \in Databases, NEW c \in Clients, NEW new \in ClientRows,
           NEW narrowed \in BOOLEAN
    PROVE  ClientWritten(d, c, new, IF narrowed THEN SessionsOfClient(d, c) ELSE {},
                         ReplaceClientRow(d, c, new, narrowed))
  <1>1. CASE narrowed
    BY <1>1, RevokeAfterClientWrite DEF ReplaceClientRow
  <1>2. CASE ~narrowed
    BY <1>2, ClientRowEffect DEF ReplaceClientRow
  <1> QED
    BY <1>1, <1>2

\* e has the tables of d, but for a name of an organization.
OrganizationWritten(d, o, name, e) ==
    /\ e \in Databases
    /\ e.org = [d.org EXCEPT ![o] = name]
    /\ e.user = d.user /\ e.client = d.client /\ e.cred = d.cred

LEMMA OrganizationEffect ==
    ASSUME NEW d \in Databases, NEW o \in Organizations, NEW name \in Names
    PROVE  OrganizationWritten(d, o, name, [d EXCEPT !.org = [d.org EXCEPT ![o] = name]])
  <1>1. [d.org EXCEPT ![o] = name] \in [Organizations -> Names \cup {None}]
    BY Columns
  <1> QED
    BY <1>1 DEF OrganizationWritten, Databases

\* e has the tables of d, but for a session that was opened.
Opened(d, k, row, e) ==
    /\ e \in Databases
    /\ e.user = d.user /\ e.org = d.org /\ e.client = d.client
    /\ e.cred = [d.cred EXCEPT ![k] = row]

LEMMA OpenSessionEffect ==
    ASSUME NEW d \in Databases, NEW k \in Credentials, NEW row \in CredentialRows
    PROVE  Opened(d, k, row, OpenSession(d, k, row))
  <1>1. [d.cred EXCEPT ![k] = row] \in [Credentials -> CredentialRows \cup {None}]
    BY Columns
  <1> QED
    BY <1>1 DEF OpenSession, Opened, Databases

-----------------------------------------------------------------------------
(* Soundness is kept by writes of each kind.                               *)

\* Sessions may end, and no session that stays loses its user's row.
LEMMA UserWritesAreSound ==
    ASSUME NEW d, Sound(d), NEW e \in Databases,
           e.client = d.client,
           \A o \in Organizations : d.org[o] # None => e.org[o] # None,
           \A u \in Users : e.user[u] # None => e.org[e.user[u].org] # None,
           \A k \in Credentials : e.cred[k] = d.cred[k] \/ e.cred[k] = None,
           \A k \in Credentials : e.cred[k] # None /\ e.cred[k].kind # "machine"
               => e.user[e.cred[k].user] = d.user[e.cred[k].user]
    PROVE  Sound(e)
  <1>1. d \in Databases
    BY DEF Sound
  <1>2. \A u \in Present(e.user) : e.user[u].org \in Present(e.org)
    BY Columns, UserColumns, RowsAreNotNone
  <1>3. \A c \in Present(e.client) :
            e.client[c].userOrgs \cup e.client[c].machineOrgs \subseteq Present(e.org)
    <2>1. Present(d.org) \subseteq Present(e.org)
      BY <1>1, Columns
    <2>2. \A c \in Present(d.client) :
              d.client[c].userOrgs \cup d.client[c].machineOrgs \subseteq Present(d.org)
      BY DEF Sound, References
    <2> QED
      BY <2>1, <2>2
  <1>4. ASSUME NEW k \in Present(e.cred)
        PROVE  /\ k \in Present(d.cred) /\ e.cred[k] = d.cred[k]
               /\ e.cred[k].kind # "machine" => e.cred[k].user \in Present(e.user)
               /\ e.cred[k].kind # "browser" => e.cred[k].client \in Present(e.client)
    <2>1. k \in Present(d.cred) /\ e.cred[k] = d.cred[k] /\ k \in Credentials /\ e.cred[k] # None
      BY <1>1, Columns
    <2>2. e.cred[k].kind # "machine" => d.user[e.cred[k].user] # None /\ e.cred[k].user \in Users
      BY <1>1, <2>1, Columns DEF Sound, References
    <2>3. e.cred[k].kind # "browser" => e.cred[k].client \in Present(e.client)
      BY <2>1 DEF Sound, References
    <2> QED
      BY <2>1, <2>2, <2>3, Columns
  <1>5. References(e)
    BY <1>2, <1>3, <1>4 DEF References
  <1>6. CurrentAuthority(e)
    BY <1>4, Columns DEF Sound, CurrentAuthority
  <1>7. TokensWithinClients(e)
    BY <1>4 DEF Sound, TokensWithinClients, WithinClient
  <1>8. ConsistentClients(e)
    BY DEF Sound, ConsistentClients
  <1> QED
    BY <1>5, <1>6, <1>7, <1>8 DEF Sound

\* The new row of a client is consistent and its organizations exist; a token of it that
\* stays is within it.
ConsistentRow(d, row) ==
    /\ row \in ClientRows
    /\ OrganizationAssignmentCountIsValid(row.userAccess, row.userOrgs)
    /\ OrganizationAssignmentCountIsValid(row.machineAccess, row.machineOrgs)
    /\ row.machineAccess # "none" => "client_credentials" \in row.grants
    /\ ValidClient(row.confidential, row.grants)
    /\ row.userOrgs \cup row.machineOrgs \subseteq Present(d.org)

\* WithinClient, of a client's row and a token's row.
Fits(row, token) ==
    /\ row.active
    /\ token.scopes \subseteq row.scopes
    /\ IF token.kind = "user"
       THEN /\ "authorization_code" \in row.grants
            /\ ClientAllowsUserOrganization(row, token.holder.org)
       ELSE row.confidential /\ "client_credentials" \in row.grants

LEMMA WithinIsFits == \A d, k : WithinClient(d, k) = Fits(d.client[d.cred[k].client], d.cred[k])
  BY DEF WithinClient, Fits

LEMMA ClientWritesAreSound ==
    ASSUME NEW d, Sound(d), NEW c \in Clients, NEW new, NEW ended, NEW e,
           ClientWritten(d, c, new, ended, e),
           new = None \/ ConsistentRow(d, new),
           \A k \in SessionsOfClient(d, c) : k \in ended \/ (new # None /\ Fits(new, d.cred[k]))
    PROVE  Sound(e)
  <1>1. d \in Databases /\ e \in Databases
    BY DEF Sound, ClientWritten
  <1>2. /\ e.user = d.user /\ e.org = d.org
        /\ \A x \in Clients : e.client[x] = IF x = c THEN new ELSE d.client[x]
        /\ \A k \in Credentials : e.cred[k] = IF k \in ended THEN None ELSE d.cred[k]
    BY <1>1, Columns DEF ClientWritten
  <1>3. ASSUME NEW x \in Present(e.client)
        PROVE  ConsistentRow(e, e.client[x])
    <2>1. CASE x = c
      BY <1>1, <1>2, <2>1, Columns DEF ConsistentRow
    <2>2. CASE x # c
      <3>1. x \in Present(d.client) /\ e.client[x] = d.client[x] /\ d.client[x] \in ClientRows
        BY <1>1, <1>2, <2>2, Columns
      <3> QED
        BY <1>2, <3>1 DEF Sound, References, ConsistentClients, ConsistentRow
    <2> QED
      BY <2>1, <2>2
  <1>4. ASSUME NEW k \in Present(e.cred)
        PROVE  /\ k \in Present(d.cred) /\ e.cred[k] = d.cred[k]
               /\ e.cred[k].kind # "browser" =>
                    /\ e.cred[k].client \in Present(e.client)
                    /\ Fits(e.client[e.cred[k].client], e.cred[k])
    <2>1. k \in Present(d.cred) /\ e.cred[k] = d.cred[k] /\ k \in Credentials /\ k \notin ended
      BY <1>1, <1>2, Columns
    <2>2. SUFFICES ASSUME d.cred[k].kind # "browser"
                   PROVE  /\ d.cred[k].client \in Present(e.client)
                          /\ Fits(e.client[d.cred[k].client], d.cred[k])
      BY <2>1
    <2>3. d.cred[k].client \in Present(d.client) /\ Fits(d.client[d.cred[k].client], d.cred[k])
      BY <2>1, <2>2, WithinIsFits DEF Sound, References, TokensWithinClients
    <2>4. CASE d.cred[k].client = c
      <3>1. k \in SessionsOfClient(d, c)
        BY <2>1, <2>4 DEF SessionsOfClient
      <3>2. new # None /\ Fits(new, d.cred[k])
        BY <2>1, <3>1
      <3> QED
        BY <1>1, <1>2, <2>4, <3>2, Columns
    <2>5. CASE d.cred[k].client # c
      <3>1. d.cred[k].client \in Clients /\ d.client[d.cred[k].client] # None
        BY <1>1, <2>3, Columns
      <3>2. e.client[d.cred[k].client] = d.client[d.cred[k].client]
        BY <1>2, <2>5, <3>1
      <3> QED
        BY <1>1, <2>3, <3>1, <3>2, Columns
    <2> QED
      BY <2>4, <2>5
  <1>5. References(e)
    <2>1. \A u \in Present(e.user) : e.user[u].org \in Present(e.org)
      BY <1>2 DEF Sound, References
    <2>2. \A k \in Present(e.cred) : e.cred[k].kind # "machine" => e.cred[k].user \in Present(e.user)
      BY <1>2, <1>4 DEF Sound, References
    <2> QED
      BY <1>3, <1>4, <2>1, <2>2 DEF References, ConsistentRow
  <1>6. CurrentAuthority(e)
    BY <1>2, <1>4 DEF Sound, CurrentAuthority
  <1>7. TokensWithinClients(e)
    BY <1>4, WithinIsFits DEF TokensWithinClients
  <1>8. ConsistentClients(e)
    BY <1>3 DEF ConsistentClients, ConsistentRow
  <1> QED
    BY <1>1, <1>5, <1>6, <1>7, <1>8 DEF Sound

\* The new session is of a row that exists as it is, or of a client it fits.
LEMMA OpenedIsSound ==
    ASSUME NEW d, Sound(d), NEW k \in Credentials, NEW row \in CredentialRows, NEW e,
           Opened(d, k, row, e),
           row.kind # "machine" =>
               /\ row.user \in Present(d.user) /\ row.holder = d.user[row.user]
               /\ Accessible(row.holder),
           row.kind # "browser" =>
               row.client \in Present(d.client) /\ Fits(d.client[row.client], row)
    PROVE  Sound(e)
  <1>1. /\ d \in Databases /\ e \in Databases
        /\ e.user = d.user /\ e.org = d.org /\ e.client = d.client
    BY DEF Sound, Opened
  <1>2. \A j \in Present(e.cred) : e.cred[j] = row \/ (j \in Present(d.cred) /\ e.cred[j] = d.cred[j])
    BY <1>1, Columns DEF Opened
  <1>3. References(e)
    BY <1>1, <1>2 DEF Sound, References
  <1>4. CurrentAuthority(e)
    BY <1>1, <1>2 DEF Sound, CurrentAuthority
  <1>5. TokensWithinClients(e)
    BY <1>1, <1>2, WithinIsFits DEF Sound, TokensWithinClients
  <1>6. ConsistentClients(e)
    BY <1>1 DEF Sound, ConsistentClients
  <1> QED
    BY <1>1, <1>3, <1>4, <1>5, <1>6 DEF Sound
-----------------------------------------------------------------------------
(* The administrators remain.                                              *)

Remain(d, e) ==
    /\ AccessibleOperators(d) # {} => AccessibleOperators(e) # {}
    /\ \A o \in Organizations :
           AccessibleAdministrators(d, o) # {} => AccessibleAdministrators(e, o) # {}

Kept(d, e) == Sound(e) /\ Remain(d, e)

\* Whoever counts more than one finds another than u.
LEMMA CountedMoreThanOne ==
    ASSUME NEW S \in SUBSET Users, NEW u, Cardinality(S) > 1
    PROVE  \E x \in S : x # u
  <1>1. SUFFICES ASSUME \A x \in S : x = u
                 PROVE  FALSE
    OBVIOUS
  <1>2. IsFiniteSet({u}) /\ Cardinality({u}) = 1
    BY FS_Singleton
  <1>3. S \in SUBSET {u}
    BY <1>1
  <1>4. IsFiniteSet(S) /\ Cardinality(S) <= Cardinality({u})
    BY <1>2, <1>3, FS_Subset
  <1>5. Cardinality(S) \in Nat
    BY <1>4, FS_CardinalityType
  <1> QED
    BY <1>2, <1>4, <1>5

LEMMA SameUsersRemain ==
    ASSUME NEW d, NEW e, e.user = d.user
    PROVE  Remain(d, e)
  BY DEF Remain, AccessibleOperators, AccessibleAdministrators

\* What the access invariants must establish of the target u of a write.
MayWrite(d, u, new) ==
    LET old == d.user[u]
    IN  /\ old # None /\ old.operator /\ Accessible(old) =>
               \/ new # None /\ new.operator /\ Accessible(new)
               \/ \E x \in AccessibleOperators(d) : x # u
        /\ old # None /\ old.role = "admin" /\ Accessible(old) =>
               \/ new # None /\ new.role = "admin" /\ Accessible(new) /\ new.org = old.org
               \/ \E x \in AccessibleAdministrators(d, old.org) : x # u

LEMMA WrittenRemain ==
    ASSUME NEW d \in Databases, NEW u \in Users, NEW new \in UserRows \cup {None},
           NEW ended, NEW e, UserWritten(d, u, new, ended, e), MayWrite(d, u, new)
    PROVE  Remain(d, e)
  <1>1. /\ e \in Databases
        /\ \A x \in Users : e.user[x] = IF x = u THEN new ELSE d.user[x]
    BY Columns DEF UserWritten
  <1>2. \A x \in Users : x # u /\ x \in AccessibleOperators(d) => x \in AccessibleOperators(e)
    BY <1>1, Columns DEF AccessibleOperators
  <1>3. \A x \in Users, o \in Organizations :
            x # u /\ x \in AccessibleAdministrators(d, o) => x \in AccessibleAdministrators(e, o)
    BY <1>1, Columns DEF AccessibleAdministrators
  <1>4. ASSUME AccessibleOperators(d) # {}
        PROVE  AccessibleOperators(e) # {}
    <2>1. PICK x \in Users : x \in AccessibleOperators(d)
      BY <1>4, Columns DEF AccessibleOperators
    <2>2. CASE x # u
      BY <1>2, <2>1, <2>2
    <2>3. CASE x = u
      <3>1. d.user[u] # None /\ d.user[u].operator /\ Accessible(d.user[u])
        BY <2>1, <2>3, Columns DEF AccessibleOperators
      <3>2. CASE new # None /\ new.operator /\ Accessible(new)
        <4>1. u \in AccessibleOperators(e)
          BY <1>1, <3>2, Columns DEF AccessibleOperators
        <4> QED
          BY <4>1
      <3>3. CASE \E y \in AccessibleOperators(d) : y # u
        <4>1. PICK y \in AccessibleOperators(d) : y # u
          BY <3>3
        <4>2. y \in Users
          BY Columns DEF AccessibleOperators
        <4> QED
          BY <1>2, <4>1, <4>2
      <3> QED
        BY <3>1, <3>2, <3>3 DEF MayWrite
    <2> QED
      BY <2>2, <2>3
  <1>5. ASSUME NEW o \in Organizations, AccessibleAdministrators(d, o) # {}
        PROVE  AccessibleAdministrators(e, o) # {}
    <2>1. PICK x \in Users : x \in AccessibleAdministrators(d, o)
      BY <1>5, Columns DEF AccessibleAdministrators
    <2>2. CASE x # u
      BY <1>3, <2>1, <2>2
    <2>3. CASE x = u
      <3>1. /\ d.user[u] # None /\ d.user[u].role = "admin" /\ Accessible(d.user[u])
            /\ d.user[u].org = o
        BY <2>1, <2>3, Columns DEF AccessibleAdministrators
      <3>2. CASE new # None /\ new.role = "admin" /\ Accessible(new) /\ new.org = o
        <4>1. u \in AccessibleAdministrators(e, o)
          BY <1>1, <3>2, Columns DEF AccessibleAdministrators
        <4> QED
          BY <4>1
      <3>3. CASE \E y \in AccessibleAdministrators(d, o) : y # u
        <4>1. PICK y \in AccessibleAdministrators(d, o) : y # u
          BY <3>3
        <4>2. y \in Users
          BY Columns DEF AccessibleAdministrators
        <4> QED
          BY <1>3, <4>1, <4>2
      <3> QED
        BY <3>1, <3>2, <3>3 DEF MayWrite
    <2> QED
      BY <2>2, <2>3
  <1> QED
    BY <1>4, <1>5 DEF Remain

\* The counts are of users.
LEMMA CountedAreUsers ==
    ASSUME NEW d \in Databases, NEW o
    PROVE  AccessibleOperators(d) \subseteq Users /\ AccessibleAdministrators(d, o) \subseteq Users
  BY Columns DEF AccessibleOperators, AccessibleAdministrators

LEMMA ProtectUpdateProtects ==
    ASSUME NEW d \in Databases, NEW u \in Present(d.user), NEW new \in UserRows,
           ProtectUpdate(d, u, new)
    PROVE  MayWrite(d, u, new)
  <1> DEFINE old == d.user[u]
  <1>1. old \in UserRows /\ u \in Users
    BY Columns
  <1>2. /\ old.operator \in BOOLEAN /\ new.operator \in BOOLEAN
        /\ old.role \in Roles /\ new.role \in Roles
    BY <1>1, UserColumns
  <1>3. ASSUME old.operator, Accessible(old), ~(new.operator /\ Accessible(new))
        PROVE  \E x \in AccessibleOperators(d) : x # u
    <2>1. Cardinality(AccessibleOperators(d)) > 1
      BY <1>3 DEF ProtectUpdate, RequireOtherOperator, Accessible
    <2> QED
      BY <2>1, CountedMoreThanOne, CountedAreUsers
  <1>4. ASSUME old.role = "admin", Accessible(old),
               ~(new.role = "admin" /\ Accessible(new) /\ new.org = old.org)
        PROVE  \E x \in AccessibleAdministrators(d, old.org) : x # u
    <2>1. new.role = "member" \/ new.role = "admin"
      BY <1>2 DEF Roles
    <2>2. Cardinality(AccessibleAdministrators(d, old.org)) > 1
      BY <1>4, <2>1 DEF ProtectUpdate, RequireOtherOrganizationAdmin, Accessible
    <2> QED
      BY <2>2, CountedMoreThanOne, CountedAreUsers
  <1> QED
    BY <1>3, <1>4, RowsAreNotNone DEF MayWrite

LEMMA ProtectDeleteProtects ==
    ASSUME NEW d \in Databases, NEW u \in Present(d.user), ProtectDelete(d, u)
    PROVE  MayWrite(d, u, None)
  BY DEF ProtectDelete, MayWrite

-----------------------------------------------------------------------------
(* Services.                                                               *)

\* The row of u is written and all the sessions of u end, or the row stays as it was.
LEMMA UserWriteKeeps ==
    ASSUME NEW d, Sound(d), NEW u \in Users, NEW new \in UserRows \cup {None},
           NEW ended, NEW e, UserWritten(d, u, new, ended, e), MayWrite(d, u, new),
           new # None => new.org \in Present(d.org),
           SessionsOfUser(d, u) \subseteq ended \/ new = d.user[u]
    PROVE  Kept(d, e)
  <1>1. d \in Databases /\ e \in Databases
    BY DEF Sound, UserWritten
  <1>2. /\ e.client = d.client /\ e.org = d.org
        /\ \A x \in Users : e.user[x] = IF x = u THEN new ELSE d.user[x]
        /\ \A k \in Credentials : e.cred[k] = IF k \in ended THEN None ELSE d.cred[k]
    BY <1>1, Columns DEF UserWritten
  <1>3. \A x \in Users : e.user[x] # None => e.org[e.user[x].org] # None
    BY <1>1, <1>2, Columns DEF Sound, References
  <1>4. ASSUME NEW k \in Credentials, e.cred[k] # None, e.cred[k].kind # "machine"
        PROVE  e.user[e.cred[k].user] = d.user[e.cred[k].user]
    <2>1. k \notin ended /\ e.cred[k] = d.cred[k] /\ k \in Present(d.cred)
      BY <1>1, <1>2, <1>4, Columns
    <2>2. d.cred[k].user \in Users
      BY <1>1, <1>4, <2>1, Columns DEF Sound, References
    <2>3. d.cred[k].user = u => new = d.user[u]
      BY <2>1 DEF SessionsOfUser
    <2> QED
      BY <1>2, <2>1, <2>2, <2>3
  <1>5. Sound(e)
    BY <1>1, <1>2, <1>3, <1>4, UserWritesAreSound
  <1> QED
    BY <1>1, <1>5, WrittenRemain DEF Kept

LEMMA EndingKeeps ==
    ASSUME NEW d, Sound(d), NEW ended
    PROVE  Kept(d, EndSessions(d, ended))
  <1>1. d \in Databases
    BY DEF Sound
  <1>2. Ends(d, ended, EndSessions(d, ended))
    BY <1>1, EndSessionsEffect
  <1> DEFINE e == EndSessions(d, ended)
  <1>3. /\ e \in Databases /\ e.user = d.user /\ e.org = d.org /\ e.client = d.client
        /\ \A k \in Credentials : e.cred[k] = d.cred[k] \/ e.cred[k] = None
    BY <1>2 DEF Ends
  <1>4. \A u \in Users : d.user[u] # None => d.org[d.user[u].org] # None
    BY <1>1, Columns DEF Sound, References
  <1> HIDE DEF e
  <1>5. Sound(e)
    BY <1>3, <1>4, UserWritesAreSound
  <1> QED
    BY <1>3, <1>5, SameUsersRemain DEF Kept, e

\* Every way to end sessions ends some.
LEMMA SessionActionsEnd ==
    ASSUME NEW d, NEW u, NEW o, NEW e,
           \/ UserSessionActions(d, u, e)
           \/ OrganizationSessionActions(d, o, e)
           \/ e = DeleteAllSessions(d)
           \/ e = ClearAllOAuth2Sessions(d)
           \/ e = RevokeAllSecuritySessions(d)
    PROVE  \E ended : e = EndSessions(d, ended)
  BY DEF UserSessionActions, OrganizationSessionActions, DeleteUserSessions,
     ClearUserOAuth2Sessions, RevokeUserSecuritySessions, DeleteOrganizationSessions,
     ClearOrganizationOAuth2Sessions, RevokeOrganizationSecuritySessions, DeleteAllSessions,
     ClearAllOAuth2Sessions, RevokeAllSecuritySessions

LEMMA OrganizationWriteKeeps ==
    ASSUME NEW d, Sound(d), NEW o \in Organizations, NEW name \in Names
    PROVE  Kept(d, [d EXCEPT !.org = [d.org EXCEPT ![o] = name]])
  <1> DEFINE e == [d EXCEPT !.org = [d.org EXCEPT ![o] = name]]
  <1>1. d \in Databases /\ OrganizationWritten(d, o, name, e)
    BY OrganizationEffect DEF Sound
  <1> HIDE DEF e
  <1>2. /\ e \in Databases /\ e.user = d.user /\ e.client = d.client /\ e.cred = d.cred
        /\ \A x \in Organizations : e.org[x] = IF x = o THEN name ELSE d.org[x]
    BY <1>1, Columns DEF OrganizationWritten
  <1>3. name # None
    BY IdentityDatabaseAssumption
  <1>4. \A u \in Users : e.user[u] # None => e.user[u].org \in Organizations /\ e.org[e.user[u].org] # None
    BY <1>1, <1>2, <1>3, Columns DEF Sound, References
  <1>5. Sound(e)
    BY <1>2, <1>3, <1>4, UserWritesAreSound
  <1> QED
    BY <1>2, <1>5, SameUsersRemain DEF Kept, e

\* Nobody has a session before there is an account.
LEMMA NoSessionOfVacant ==
    ASSUME NEW d, Sound(d), NEW u \in Vacant(d.user)
    PROVE  SessionsOfUser(d, u) = {} /\ u \in Users /\ u \notin Present(d.user)
  <1>1. u \in Users /\ d.user[u] = None /\ d \in Databases /\ u # None
    BY Columns, IdentityDatabaseAssumption DEF Sound
  <1>2. \A k \in Present(d.cred) : d.cred[k].user # u
    BY <1>1, Columns, CredentialColumns DEF Sound, References
  <1> QED
    BY <1>1, <1>2, Columns DEF SessionsOfUser

LEMMA CreateUserKeeps ==
    ASSUME NEW d, Sound(d), NEW u \in Vacant(d.user), NEW row \in UserRows,
           row.org \in Present(d.org)
    PROVE  Kept(d, CreateUser(d, u, row))
  <1>1. d \in Databases /\ u \in Users /\ SessionsOfUser(d, u) = {} /\ d.user[u] = None
    BY NoSessionOfVacant, Columns DEF Sound
  <1>2. UserWritten(d, u, row, {}, CreateUser(d, u, row))
    BY <1>1, CreateUserEffect
  <1>3. MayWrite(d, u, row)
    BY <1>1 DEF MayWrite
  <1> QED
    BY <1>1, <1>2, <1>3, UserWriteKeeps

LEMMA UpdateUserKeeps ==
    ASSUME NEW d, Sound(d), NEW u \in Present(d.user), NEW new \in UserRows,
           new.org \in Present(d.org), new.hash = d.user[u].hash, ProtectUpdate(d, u, new)
    PROVE  Kept(d, UpdateUser(d, u, new))
  <1> DEFINE ended == IF RevokesSessions(d.user[u], new) THEN SessionsOfUser(d, u) ELSE {}
  <1>1. d \in Databases /\ u \in Users /\ d.user[u] \in UserRows
    BY Columns DEF Sound
  <1>2. UserWritten(d, u, new, ended, UpdateUser(d, u, new))
    BY <1>1, UpdateUserEffect
  <1>3. MayWrite(d, u, new)
    BY <1>1, ProtectUpdateProtects
  <1>4. ~RevokesSessions(d.user[u], new) => new = d.user[u]
    BY <1>1, UserColumns DEF RevokesSessions
  <1>5. SessionsOfUser(d, u) \subseteq ended \/ new = d.user[u]
    BY <1>4
  <1> HIDE DEF ended
  <1> QED
    BY <1>1, <1>2, <1>3, <1>5, UserWriteKeeps

LEMMA DeleteUserKeeps ==
    ASSUME NEW d, Sound(d), NEW u \in Present(d.user), ProtectDelete(d, u)
    PROVE  Kept(d, DeleteUser(d, u))
  <1>1. d \in Databases /\ u \in Users
    BY Columns DEF Sound
  <1>2. UserWritten(d, u, None, SessionsOfUser(d, u), DeleteUser(d, u))
    BY <1>1, DeleteUserEffect
  <1>3. MayWrite(d, u, None)
    BY <1>1, ProtectDeleteProtects
  <1> QED
    BY <1>1, <1>2, <1>3, UserWriteKeeps

\* A password or a proof of the address takes nobody's role.
LEMMA VerifyKeeps ==
    ASSUME NEW d, Sound(d), NEW u \in Present(d.user), NEW new \in UserRows, NEW e,
           UserWritten(d, u, new, SessionsOfUser(d, u), e),
           new.org = d.user[u].org, new.role = d.user[u].role,
           new.operator = d.user[u].operator, new.active = d.user[u].active,
           d.user[u].verified => new.verified
    PROVE  Kept(d, e)
  <1>1. d \in Databases /\ u \in Users /\ new.org \in Present(d.org)
    BY Columns DEF Sound, References
  <1>2. MayWrite(d, u, new)
    BY RowsAreNotNone DEF MayWrite, Accessible
  <1> QED
    BY <1>1, <1>2, UserWriteKeeps
\* Whoever acts is an account that exists, in an organization that exists, and holds the
\* authority the session was opened with.
LEMMA PrincipalExists ==
    ASSUME NEW d, Sound(d), NEW p, UserPrincipal(d, p)
    PROVE  /\ p \in Present(d.cred) /\ p \in Credentials /\ d.cred[p].kind # "machine"
           /\ d.cred[p].user \in Present(d.user) /\ d.cred[p].user \in Users
           /\ Actor(d, p) \in UserRows /\ Actor(d, p).org \in Present(d.org)
           /\ d.cred[p].holder = Actor(d, p) /\ Actor(d, p) = d.user[d.cred[p].user]
  <1>1. d \in Databases
    BY DEF Sound
  <1>2. /\ p \in Present(d.cred) /\ p \in Credentials /\ d.cred[p].kind # "machine"
    BY <1>1, Columns DEF UserPrincipal, BrowserPrincipal, BearerPrincipal, Holds
  <1>3. d.cred[p].user \in Present(d.user) /\ d.cred[p].holder = d.user[d.cred[p].user]
    BY <1>2 DEF Sound, References, CurrentAuthority
  <1>4. Actor(d, p) \in UserRows /\ Actor(d, p).org \in Present(d.org) /\ d.cred[p].user \in Users
    BY <1>1, <1>3, Columns DEF Actor, Sound, References
  <1> QED
    BY <1>2, <1>3, <1>4 DEF Actor

LEMMA ServerUsersKeep ==
    ASSUME NEW d, Sound(d), NEW p, NEW e, ServerUsers(d, p, e)
    PROVE  Kept(d, e)
  <1>1. d \in Databases /\ Mint(d) \in Nat
    BY Columns DEF Sound
  <1>2. CASE ServerUsersCreate(d, e)
    <2>1. PICK u \in Vacant(d.user), o \in Present(d.org), role \in Roles, operator \in BOOLEAN :
             e = CreateUser(d, u, [org |-> o, role |-> role, operator |-> operator,
                                   active |-> TRUE, verified |-> FALSE, hash |-> Mint(d)])
      BY <1>2 DEF ServerUsersCreate
    <2>2. [org |-> o, role |-> role, operator |-> operator, active |-> TRUE, verified |-> FALSE,
           hash |-> Mint(d)] \in UserRows
      BY <1>1, Columns DEF UserRows
    <2> QED
      BY <2>1, <2>2, CreateUserKeeps
  <1>3. CASE ServerUsersUpdate(d, e)
    <2>1. PICK u \in Present(d.user), o \in Present(d.org), role \in Roles,
               operator \in BOOLEAN, active \in BOOLEAN, verified \in BOOLEAN :
             LET new == [org |-> o, role |-> role, operator |-> operator, active |-> active,
                         verified |-> verified, hash |-> d.user[u].hash]
             IN  ProtectUpdate(d, u, new) /\ e = UpdateUser(d, u, new)
      BY <1>3 DEF ServerUsersUpdate
    <2> DEFINE new == [org |-> o, role |-> role, operator |-> operator, active |-> active,
                       verified |-> verified, hash |-> d.user[u].hash]
    <2>2. d.user[u].hash \in Nat /\ o \in Organizations
      BY <1>1, Columns, UserColumns
    <2>3. new \in UserRows /\ new.org \in Present(d.org) /\ new.hash = d.user[u].hash
      BY <2>2 DEF UserRows
    <2>4. ProtectUpdate(d, u, new) /\ e = UpdateUser(d, u, new)
      BY <2>1
    <2> HIDE DEF new
    <2> QED
      BY <2>3, <2>4, UpdateUserKeeps
  <1>4. CASE ServerUsersDelete(d, e)
    BY <1>4, DeleteUserKeeps DEF ServerUsersDelete
  <1> QED
    BY <1>2, <1>3, <1>4 DEF ServerUsers

LEMMA OrganizationUsersKeep ==
    ASSUME NEW d, Sound(d), NEW p, UserPrincipal(d, p), NEW e, OrganizationUsers(d, p, e)
    PROVE  Kept(d, e)
  <1>1. d \in Databases /\ Mint(d) \in Nat /\ Actor(d, p).org \in Present(d.org)
    BY Columns, PrincipalExists DEF Sound
  <1>2. CASE OrganizationUsersCreate(d, p, e)
    <2>1. PICK u \in Vacant(d.user), role \in Roles, active \in BOOLEAN :
             e = CreateUser(d, u, [org |-> Actor(d, p).org, role |-> role, operator |-> FALSE,
                                   active |-> active, verified |-> FALSE, hash |-> Mint(d)])
      BY <1>2 DEF OrganizationUsersCreate
    <2>2. [org |-> Actor(d, p).org, role |-> role, operator |-> FALSE, active |-> active,
           verified |-> FALSE, hash |-> Mint(d)] \in UserRows
      BY <1>1, Columns DEF UserRows
    <2> QED
      BY <1>1, <2>1, <2>2, CreateUserKeeps
  <1>3. CASE OrganizationUsersUpdate(d, p, e)
    <2>1. PICK u \in OrganizationTargets(d, p), role \in Roles, active \in BOOLEAN :
             LET new == [d.user[u] EXCEPT !.role = role, !.active = active]
             IN  ProtectUpdate(d, u, new) /\ e = UpdateUser(d, u, new)
      BY <1>3 DEF OrganizationUsersUpdate
    <2> DEFINE new == [d.user[u] EXCEPT !.role = role, !.active = active]
    <2>2. u \in Present(d.user) /\ d.user[u] \in UserRows /\ d.user[u].org \in Present(d.org)
      BY <1>1, Columns DEF OrganizationTargets
    <2>3. new \in UserRows /\ new.org = d.user[u].org /\ new.hash = d.user[u].hash
      BY <2>2 DEF UserRows
    <2>4. ProtectUpdate(d, u, new) /\ e = UpdateUser(d, u, new)
      BY <2>1
    <2> HIDE DEF new
    <2> QED
      BY <2>2, <2>3, <2>4, UpdateUserKeeps
  <1>4. CASE OrganizationUsersDelete(d, p, e)
    BY <1>4, DeleteUserKeeps DEF OrganizationUsersDelete, OrganizationTargets
  <1> QED
    BY <1>2, <1>3, <1>4 DEF OrganizationUsers

LEMMA OrganizationsKeep ==
    ASSUME NEW d, Sound(d), NEW p, UserPrincipal(d, p), NEW e,
           ServerOrganizations(d, p, e) \/ OrganizationMetadata(d, p, e)
    PROVE  Kept(d, e)
  <1>1. Actor(d, p).org \in Organizations
    BY PrincipalExists, Columns DEF Sound
  <1> QED
    BY <1>1, OrganizationWriteKeeps DEF ServerOrganizations, OrganizationMetadata

LEMMA SelfDeleteKeeps ==
    ASSUME NEW d, Sound(d), NEW p, UserPrincipal(d, p), NEW e, SelfDelete(d, p, e)
    PROVE  Kept(d, e)
  BY PrincipalExists, DeleteUserKeeps DEF SelfDelete

\* A client whose new row is consistent, and whose tokens end or still fit.
LEMMA ClientWriteKeeps ==
    ASSUME NEW d, Sound(d), NEW c \in Clients, NEW new, NEW ended, NEW e,
           ClientWritten(d, c, new, ended, e),
           new = None \/ ConsistentRow(d, new),
           \A k \in SessionsOfClient(d, c) : k \in ended \/ (new # None /\ Fits(new, d.cred[k]))
    PROVE  Kept(d, e)
  BY ClientWritesAreSound, SameUsersRemain DEF Kept, ClientWritten

LEMMA NoSessionOfVacantClient ==
    ASSUME NEW d, Sound(d), NEW c \in Vacant(d.client)
    PROVE  SessionsOfClient(d, c) = {} /\ c \in Clients
  <1>1. c \in Clients /\ d.client[c] = None /\ d \in Databases /\ c # None
    BY Columns, IdentityDatabaseAssumption DEF Sound
  <1>2. \A k \in Present(d.cred) : d.cred[k].client # c
    BY <1>1, Columns, CredentialColumns DEF Sound, References
  <1> QED
    BY <1>1, <1>2 DEF SessionsOfClient

LEMMA CreateClientKeeps ==
    ASSUME NEW d, Sound(d), NEW c \in Vacant(d.client), NEW row, ConsistentRow(d, row)
    PROVE  Kept(d, CreateClient(d, c, row))
  <1>1. d \in Databases /\ c \in Clients /\ SessionsOfClient(d, c) = {} /\ row \in ClientRows
    BY NoSessionOfVacantClient DEF Sound, ConsistentRow
  <1>2. ClientWritten(d, c, row, {}, CreateClient(d, c, row))
    BY <1>1, MintingClientEffect DEF CreateClient
  <1> QED
    BY <1>1, <1>2, ClientWriteKeeps

\* A row that exists is consistent, and fits the tokens of its client.
LEMMA ExistingClient ==
    ASSUME NEW d, Sound(d), NEW c \in Present(d.client)
    PROVE  /\ c \in Clients /\ ConsistentRow(d, d.client[c])
           /\ \A k \in SessionsOfClient(d, c) :
                  /\ k \in Present(d.cred) /\ d.cred[k] \in CredentialRows
                  /\ d.cred[k].kind # "browser" /\ Fits(d.client[c], d.cred[k])
  <1>1. d \in Databases /\ c \in Clients /\ d.client[c] \in ClientRows /\ c # None
    BY Columns, IdentityDatabaseAssumption DEF Sound
  <1>2. ConsistentRow(d, d.client[c])
    BY <1>1 DEF Sound, References, ConsistentClients, ConsistentRow
  <1>3. ASSUME NEW k \in SessionsOfClient(d, c)
        PROVE  /\ k \in Present(d.cred) /\ d.cred[k] \in CredentialRows
               /\ d.cred[k].kind # "browser" /\ Fits(d.client[c], d.cred[k])
    <2>1. k \in Present(d.cred) /\ d.cred[k] \in CredentialRows /\ d.cred[k].client = c
      BY <1>1, Columns DEF SessionsOfClient
    <2>2. d.cred[k].kind # "browser"
      BY <1>1, <2>1, CredentialColumns
    <2> QED
      BY <2>1, <2>2, WithinIsFits DEF Sound, TokensWithinClients
  <1> QED
    BY <1>1, <1>2, <1>3

\* A replacement ends the tokens of the client, or the row still fits them.
LEMMA ReplaceClientKeeps ==
    ASSUME NEW d, Sound(d), NEW c \in Present(d.client), NEW new, ConsistentRow(d, new),
           NEW narrowed \in BOOLEAN,
           narrowed \/ \A k \in SessionsOfClient(d, c) : Fits(new, d.cred[k])
    PROVE  Kept(d, ReplaceClientRow(d, c, new, narrowed))
  <1>1. d \in Databases /\ c \in Clients /\ new \in ClientRows /\ new # None
    BY ExistingClient, RowsAreNotNone DEF Sound, ConsistentRow
  <1>2. ClientWritten(d, c, new, IF narrowed THEN SessionsOfClient(d, c) ELSE {},
                      ReplaceClientRow(d, c, new, narrowed))
    BY <1>1, ReplaceClientEffect
  <1> QED
    BY <1>1, <1>2, ClientWriteKeeps

LEMMA ClientCreateKeeps ==
    ASSUME NEW d, Sound(d), NEW e, ClientCreate(d, e) \/ ProvisionMachineClient(d, e)
    PROVE  Kept(d, e)
  <1>1. d \in Databases /\ Mint(d) \in Nat /\ Present(d.org) \subseteq Organizations
    BY Columns DEF Sound
  <1>2. CASE ClientCreate(d, e)
    <2>1. PICK c \in Vacant(d.client), confidential \in BOOLEAN, active \in BOOLEAN,
               grants \in SUBSET GrantTypes, scopes \in ScopeSets,
               mode \in UserAccessModes, assigned \in SUBSET Present(d.org) :
             /\ ValidClient(confidential, grants)
             /\ OrganizationAssignmentCountIsValid(mode, assigned)
             /\ e = CreateClient(d, c,
                    [confidential |-> confidential, active |-> active, grants |-> grants,
                     scopes |-> scopes, secret |-> IF confidential THEN Mint(d) ELSE 0,
                     userAccess |-> mode, userOrgs |-> assigned,
                     machineAccess |-> "none", machineOrgs |-> {}])
      BY <1>2 DEF ClientCreate
    <2> DEFINE row == [confidential |-> confidential, active |-> active, grants |-> grants,
                       scopes |-> scopes, secret |-> IF confidential THEN Mint(d) ELSE 0,
                       userAccess |-> mode, userOrgs |-> assigned,
                       machineAccess |-> "none", machineOrgs |-> {}]
    <2>2. row \in ClientRows
      BY <1>1 DEF ClientRows, MachineAccessModes
    <2>3. /\ row.userAccess = mode /\ row.userOrgs = assigned
          /\ row.machineAccess = "none" /\ row.machineOrgs = {}
          /\ row.confidential = confidential /\ row.grants = grants
      OBVIOUS
    <2>4. e = CreateClient(d, c, row)
      BY <2>1
    <2> HIDE DEF row
    <2>5. OrganizationAssignmentCountIsValid(row.machineAccess, row.machineOrgs)
      BY <2>3 DEF OrganizationAssignmentCountIsValid
    <2>6. ConsistentRow(d, row)
      BY <2>1, <2>2, <2>3, <2>5 DEF ConsistentRow
    <2> QED
      BY <2>4, <2>6, CreateClientKeeps
  <1>3. CASE ProvisionMachineClient(d, e)
    <2>1. PICK c \in Vacant(d.client), scopes \in ScopeSets, mode \in MachineAccessModes,
               assigned \in SUBSET Present(d.org) :
             /\ OrganizationAssignmentCountIsValid(mode, assigned)
             /\ e = CreateClient(d, c,
                    [confidential |-> TRUE, active |-> TRUE, grants |-> {"client_credentials"},
                     scopes |-> scopes, secret |-> Mint(d),
                     userAccess |-> "unrestricted", userOrgs |-> {},
                     machineAccess |-> mode, machineOrgs |-> assigned])
      BY <1>3 DEF ProvisionMachineClient
    <2> DEFINE row == [confidential |-> TRUE, active |-> TRUE, grants |-> {"client_credentials"},
                       scopes |-> scopes, secret |-> Mint(d),
                       userAccess |-> "unrestricted", userOrgs |-> {},
                       machineAccess |-> mode, machineOrgs |-> assigned]
    <2>2. row \in ClientRows
      BY <1>1 DEF ClientRows, UserAccessModes, GrantTypes
    <2>3. /\ row.userAccess = "unrestricted" /\ row.userOrgs = {}
          /\ row.machineAccess = mode /\ row.machineOrgs = assigned
          /\ row.confidential = TRUE /\ row.grants = {"client_credentials"}
      OBVIOUS
    <2>4. e = CreateClient(d, c, row)
      BY <2>1
    <2> HIDE DEF row
    <2>5. /\ OrganizationAssignmentCountIsValid(row.userAccess, row.userOrgs)
          /\ ValidClient(row.confidential, row.grants)
      BY <2>3 DEF OrganizationAssignmentCountIsValid, ValidClient
    <2>6. ConsistentRow(d, row)
      BY <2>1, <2>2, <2>3, <2>5 DEF ConsistentRow
    <2> QED
      BY <2>4, <2>6, CreateClientKeeps
  <1> QED
    BY <1>2, <1>3

LEMMA ClientReplaceKeeps ==
    ASSUME NEW d, Sound(d), NEW e, ClientReplace(d, e)
    PROVE  Kept(d, e)
  <1>1. PICK c \in Present(d.client), active \in BOOLEAN, grants \in SUBSET GrantTypes,
             scopes \in ScopeSets :
           LET old == d.client[c]
               new == [old EXCEPT !.active = active, !.grants = grants, !.scopes = scopes]
           IN  /\ ValidClient(old.confidential, grants)
               /\ old.machineAccess # "none" => "client_credentials" \in grants
               /\ e = ReplaceClientRow(d, c, new, CapabilitiesNarrowed(old, new))
    BY DEF ClientReplace
  <1> DEFINE old == d.client[c]
             new == [old EXCEPT !.active = active, !.grants = grants, !.scopes = scopes]
  <1>2. ConsistentRow(d, old) /\ old \in ClientRows
    BY ExistingClient DEF ConsistentRow
  <1>3. new \in ClientRows
    BY <1>2 DEF ClientRows
  <1>4. /\ new.active = active /\ new.grants = grants /\ new.scopes = scopes
        /\ new.confidential = old.confidential /\ new.userAccess = old.userAccess
        /\ new.userOrgs = old.userOrgs /\ new.machineAccess = old.machineAccess
        /\ new.machineOrgs = old.machineOrgs
    BY <1>2 DEF ClientRows
  <1>5. /\ ValidClient(old.confidential, grants)
        /\ old.machineAccess # "none" => "client_credentials" \in grants
        /\ e = ReplaceClientRow(d, c, new, CapabilitiesNarrowed(old, new))
    BY <1>1
  <1> HIDE DEF new
  <1>6. ConsistentRow(d, new)
    BY <1>2, <1>3, <1>4, <1>5 DEF ConsistentRow
  <1>7. ~CapabilitiesNarrowed(old, new) => \A k \in SessionsOfClient(d, c) : Fits(new, d.cred[k])
    BY <1>4, ExistingClient DEF CapabilitiesNarrowed, Fits, ClientAllowsUserOrganization
  <1>8. CapabilitiesNarrowed(old, new) \in BOOLEAN
    BY DEF CapabilitiesNarrowed
  <1> QED
    BY <1>5, <1>6, <1>7, <1>8, ReplaceClientKeeps

LEMMA ClientUserOrganizationsKeep ==
    ASSUME NEW d, Sound(d), NEW e, ClientUserOrganizations(d, e)
    PROVE  Kept(d, e)
  <1>1. PICK c \in Present(d.client), mode \in UserAccessModes,
             assigned \in SUBSET Present(d.org) :
           LET old == d.client[c]
               new == [old EXCEPT !.userAccess = mode, !.userOrgs = assigned]
           IN  /\ OrganizationAssignmentCountIsValid(mode, assigned)
               /\ e = ReplaceClientRow(d, c, new, UserPolicyNarrowed(old, new))
    BY DEF ClientUserOrganizations
  <1> DEFINE old == d.client[c]
             new == [old EXCEPT !.userAccess = mode, !.userOrgs = assigned]
  <1>2. ConsistentRow(d, old) /\ old \in ClientRows /\ assigned \subseteq Organizations
    BY ExistingClient, Columns DEF ConsistentRow, Sound
  <1>3. new \in ClientRows
    BY <1>2 DEF ClientRows
  <1>4. /\ new.active = old.active /\ new.grants = old.grants /\ new.scopes = old.scopes
        /\ new.confidential = old.confidential /\ new.userAccess = mode
        /\ new.userOrgs = assigned /\ new.machineAccess = old.machineAccess
        /\ new.machineOrgs = old.machineOrgs
    BY <1>2 DEF ClientRows
  <1>5. /\ OrganizationAssignmentCountIsValid(mode, assigned)
        /\ e = ReplaceClientRow(d, c, new, UserPolicyNarrowed(old, new))
    BY <1>1
  <1> HIDE DEF new
  <1>6. ConsistentRow(d, new)
    BY <1>2, <1>3, <1>4, <1>5 DEF ConsistentRow
  <1>7. ASSUME ~UserPolicyNarrowed(old, new), NEW k \in SessionsOfClient(d, c)
        PROVE  Fits(new, d.cred[k])
    <2>1. Fits(old, d.cred[k])
      BY ExistingClient
    <2>2. ASSUME NEW o, ClientAllowsUserOrganization(old, o)
          PROVE  ClientAllowsUserOrganization(new, o)
      BY <1>4, <1>5, <1>7, <2>2 DEF ClientAllowsUserOrganization, UserPolicyNarrowed
    <2> QED
      BY <1>4, <2>1, <2>2 DEF Fits
  <1>8. UserPolicyNarrowed(old, new) \in BOOLEAN
    BY DEF UserPolicyNarrowed
  <1> QED
    BY <1>5, <1>6, <1>7, <1>8, ReplaceClientKeeps

LEMMA ClientMachineOrganizationsKeep ==
    ASSUME NEW d, Sound(d), NEW e, ClientMachineOrganizations(d, e)
    PROVE  Kept(d, e)
  <1>1. PICK c \in Present(d.client), mode \in MachineAccessModes,
             assigned \in SUBSET Present(d.org) :
           LET old == d.client[c]
               new == [old EXCEPT !.machineAccess = mode, !.machineOrgs = assigned]
           IN  /\ mode = "none" \/ "client_credentials" \in old.grants
               /\ OrganizationAssignmentCountIsValid(mode, assigned)
               /\ e = ReplaceClientRow(d, c, new, MachinePolicyNarrowed(old, new))
    BY DEF ClientMachineOrganizations
  <1> DEFINE old == d.client[c]
             new == [old EXCEPT !.machineAccess = mode, !.machineOrgs = assigned]
  <1>2. ConsistentRow(d, old) /\ old \in ClientRows /\ assigned \subseteq Organizations
    BY ExistingClient, Columns DEF ConsistentRow, Sound
  <1>3. new \in ClientRows
    BY <1>2 DEF ClientRows
  <1>4. /\ new.active = old.active /\ new.grants = old.grants /\ new.scopes = old.scopes
        /\ new.confidential = old.confidential /\ new.userAccess = old.userAccess
        /\ new.userOrgs = old.userOrgs /\ new.machineAccess = mode
        /\ new.machineOrgs = assigned
    BY <1>2 DEF ClientRows
  <1>5. /\ mode = "none" \/ "client_credentials" \in old.grants
        /\ OrganizationAssignmentCountIsValid(mode, assigned)
        /\ e = ReplaceClientRow(d, c, new, MachinePolicyNarrowed(old, new))
    BY <1>1
  <1> HIDE DEF new
  <1>6. ConsistentRow(d, new)
    BY <1>2, <1>3, <1>4, <1>5 DEF ConsistentRow
  <1>7. \A k \in SessionsOfClient(d, c) : Fits(new, d.cred[k])
    BY <1>4, ExistingClient DEF Fits, ClientAllowsUserOrganization
  <1>8. MachinePolicyNarrowed(old, new) \in BOOLEAN
    BY DEF MachinePolicyNarrowed
  <1> QED
    BY <1>5, <1>6, <1>7, <1>8, ReplaceClientKeeps

LEMMA ClientManagementKeeps ==
    ASSUME NEW d, Sound(d), NEW p, NEW e,
           ClientRegistry(d, p, e) \/ ClientOrganizations(d, p, e)
    PROVE  Kept(d, e)
  <1>1. CASE ClientDelete(d, e)
    <2>1. PICK c \in Present(d.client) : e = DeleteClient(d, c)
      BY <1>1 DEF ClientDelete
    <2>2. c \in Clients /\ d \in Databases
      BY Columns DEF Sound
    <2>3. ClientWritten(d, c, None, SessionsOfClient(d, c), e)
      BY <2>1, <2>2, RevokeAfterClientWrite DEF DeleteClient
    <2> QED
      BY <2>2, <2>3, ClientWriteKeeps
  <1> QED
    BY <1>1, ClientCreateKeeps, ClientReplaceKeeps, ClientUserOrganizationsKeep,
       ClientMachineOrganizationsKeep DEF ClientRegistry, ClientOrganizations
\* A new organization with its first user: CreateUser in a database that has it.
LEMMA FoundingKeeps ==
    ASSUME NEW d, Sound(d), NEW u \in Vacant(d.user), NEW o \in Vacant(d.org),
           NEW name \in Names, NEW row \in UserRows, row.org = o
    PROVE  Kept(d, [CreateUser(d, u, row) EXCEPT !.org = [d.org EXCEPT ![o] = name]])
  <1> DEFINE f == CreateUser(d, u, row)
             e == [f EXCEPT !.org = [d.org EXCEPT ![o] = name]]
  <1>1. d \in Databases /\ u \in Users /\ SessionsOfUser(d, u) = {} /\ d.user[u] = None
        /\ o \in Organizations
    BY NoSessionOfVacant, Columns DEF Sound
  <1>2. UserWritten(d, u, row, {}, f)
    BY <1>1, CreateUserEffect
  <1> HIDE DEF f
  <1>3. f \in Databases /\ f.org = d.org
    BY <1>2 DEF UserWritten
  <1>4. OrganizationWritten(f, o, name, e)
    BY <1>1, <1>3, OrganizationEffect
  <1> HIDE DEF e
  <1>5. /\ e \in Databases /\ e.client = d.client
        /\ \A x \in Users : e.user[x] = IF x = u THEN row ELSE d.user[x]
        /\ \A x \in Organizations : e.org[x] = IF x = o THEN name ELSE d.org[x]
        /\ \A k \in Credentials : e.cred[k] = d.cred[k]
    BY <1>1, <1>2, <1>3, <1>4, Columns DEF OrganizationWritten, UserWritten
  <1>6. name # None
    BY IdentityDatabaseAssumption
  <1>7. \A x \in Users : e.user[x] # None => e.org[e.user[x].org] # None
    BY <1>1, <1>5, <1>6, Columns DEF Sound, References
  <1>8. ASSUME NEW k \in Credentials, e.cred[k] # None, e.cred[k].kind # "machine"
        PROVE  e.user[e.cred[k].user] = d.user[e.cred[k].user]
    <2>1. k \in Present(d.cred) /\ e.cred[k] = d.cred[k]
      BY <1>1, <1>5, <1>8, Columns
    <2>2. d.cred[k].user \in Users /\ d.cred[k].user # u
      BY <1>1, <1>8, <2>1, Columns DEF Sound, References
    <2> QED
      BY <1>5, <2>1, <2>2
  <1>9. Sound(e)
    BY <1>5, <1>6, <1>7, <1>8, UserWritesAreSound
  <1>10. MayWrite(d, u, row)
    BY <1>1 DEF MayWrite
  <1>11. Remain(d, f)
    BY <1>1, <1>2, <1>10, WrittenRemain
  <1>12. e.user = f.user
    BY <1>4 DEF OrganizationWritten
  <1>13. Remain(d, e)
    BY <1>11, <1>12 DEF Remain, AccessibleOperators, AccessibleAdministrators
  <1> QED
    BY <1>9, <1>13 DEF Kept, e, f

LEMMA SetPasswordKeeps ==
    ASSUME NEW d, Sound(d), NEW u \in Present(d.user), NEW verified \in BOOLEAN,
           d.user[u].verified => verified
    PROVE  Kept(d, SetPassword(d, u, verified))
  <1> DEFINE new == [d.user[u] EXCEPT !.hash = Mint(d), !.verified = verified]
  <1>1. d \in Databases /\ d.user[u] \in UserRows
    BY Columns DEF Sound
  <1>2. /\ new \in UserRows
        /\ UserWritten(d, u, new, SessionsOfUser(d, u), SetPassword(d, u, verified))
    BY <1>1, SetPasswordEffect
  <1>3. /\ new.org = d.user[u].org /\ new.role = d.user[u].role
        /\ new.operator = d.user[u].operator /\ new.active = d.user[u].active
        /\ new.verified = verified
    BY <1>1 DEF UserRows
  <1> HIDE DEF new
  <1> QED
    BY <1>2, <1>3, VerifyKeeps

LEMMA PublicKeeps ==
    ASSUME NEW d, Sound(d), NEW e, PublicRequest(d, e)
    PROVE  Kept(d, e)
  <1>1. d \in Databases /\ Mint(d) \in Nat
    BY Columns DEF Sound
  <1>2. CASE BootstrapOperatorUser(d, e)
    <2>1. PICK u \in Users, o \in Vacant(d.org), name \in Names :
             e = [CreateUser(d, u, [org |-> o, role |-> "admin", operator |-> TRUE,
                                    active |-> TRUE, verified |-> TRUE, hash |-> Mint(d)])
                  EXCEPT !.org = [d.org EXCEPT ![o] = name]]
      BY <1>2 DEF BootstrapOperatorUser
    <2> DEFINE row == [org |-> o, role |-> "admin", operator |-> TRUE, active |-> TRUE,
                       verified |-> TRUE, hash |-> Mint(d)]
    <2>2. u \in Vacant(d.user)
      BY <1>1, <1>2, Columns DEF BootstrapOperatorUser
    <2>3. row \in UserRows /\ row.org = o
      BY <1>1, Columns DEF UserRows, Roles
    <2>4. e = [CreateUser(d, u, row) EXCEPT !.org = [d.org EXCEPT ![o] = name]]
      BY <2>1
    <2> HIDE DEF row
    <2> QED
      BY <2>2, <2>3, <2>4, FoundingKeeps
  <1>3. CASE Register(d, e)
    <2>1. PICK u \in Vacant(d.user), o \in Vacant(d.org), name \in Names :
             e = [CreateUser(d, u, [org |-> o, role |-> "admin", operator |-> FALSE,
                                    active |-> TRUE, verified |-> FALSE, hash |-> Mint(d)])
                  EXCEPT !.org = [d.org EXCEPT ![o] = name]]
      BY <1>3 DEF Register
    <2> DEFINE row == [org |-> o, role |-> "admin", operator |-> FALSE, active |-> TRUE,
                       verified |-> FALSE, hash |-> Mint(d)]
    <2>2. row \in UserRows /\ row.org = o
      BY <1>1, Columns DEF UserRows, Roles
    <2>3. e = [CreateUser(d, u, row) EXCEPT !.org = [d.org EXCEPT ![o] = name]]
      BY <2>1
    <2> HIDE DEF row
    <2> QED
      BY <2>2, <2>3, FoundingKeeps
  <1>4. CASE LinkRoutes(d, e)
    <2>1. PICK u \in Present(d.user) :
             \/ e = SetPassword(d, u, TRUE)
             \/ e = RevokeUserSecuritySessions(
                        [d EXCEPT !.user =
                            [d.user EXCEPT ![u] = [d.user[u] EXCEPT !.verified = TRUE]]],
                        u)
      BY <1>4 DEF LinkRoutes, ConfirmEmail, SetPasswordByLink
    <2>2. u \in Users /\ d.user[u] \in UserRows
      BY <1>1, Columns
    <2>3. CASE e = SetPassword(d, u, TRUE)
      BY <2>3, SetPasswordKeeps
    <2>4. CASE e # SetPassword(d, u, TRUE)
      <3> DEFINE new == [d.user[u] EXCEPT !.verified = TRUE]
      <3>1. /\ new \in UserRows /\ new.org = d.user[u].org /\ new.role = d.user[u].role
            /\ new.operator = d.user[u].operator /\ new.active = d.user[u].active
            /\ new.verified = TRUE
        BY <2>2 DEF UserRows
      <3>2. e = RevokeUserSecuritySessions([d EXCEPT !.user = [d.user EXCEPT ![u] = new]], u)
        BY <2>1, <2>4
      <3> HIDE DEF new
      <3>3. UserWritten(d, u, new, SessionsOfUser(d, u), e)
        BY <1>1, <2>2, <3>1, <3>2, UserRowOnlyEffect, RevokeAfterWrite
      <3> QED
        BY <3>1, <3>3, VerifyKeeps
    <2> QED
      BY <2>3, <2>4
  <1> QED
    BY <1>2, <1>3, <1>4, ClientCreateKeeps DEF PublicRequest, RegistrationRoutes

\* Every guard of an entry point but the machine clients' asks for a user.
LEMMA EntryPointsAskForUser ==
    ASSUME NEW d, NEW p, NEW permission,
           \/ RequireOperatorPermission(d, p, permission)
           \/ RequireOperatorForm(d, p)
           \/ RequireOrganizationAdminPermission(d, p, permission)
           \/ RequireOrganizationAdminForm(d, p)
           \/ BrowserPrincipal(d, p)
           \/ OperatorMayEndSessions(d, p)
    PROVE  UserPrincipal(d, p)
  BY DEF RequireOperatorPermission, RequireOperatorForm, RequireOrganizationAdminPermission,
     RequireOrganizationAdminForm, RequirePermission, UserPrincipal, OperatorMayEndSessions

\* A request either ends sessions or calls a service as a user, or acts for nobody.
LEMMA OperatorRequests ==
    ASSUME NEW d, NEW p, NEW e, OperatorRequest(d, p, e)
    PROVE  /\ UserPrincipal(d, p) /\ Actor(d, p).operator
           /\ \/ \E ended : e = EndSessions(d, ended)
              \/ ServerOrganizations(d, p, e)
              \/ ClientRegistry(d, p, e) \/ ClientOrganizations(d, p, e)
              \/ ServerUsers(d, p, e)
  <1>1. CASE ServerOrganizationsRoutes(d, p, e)
    BY <1>1, EntryPointsAskForUser DEF ServerOrganizationsRoutes, ServerOrganizationsApi,
       OperatorOrganizationsPages, ServerOrganizations
  <1>2. CASE ServerClientsRoutes(d, p, e)
    BY <1>2, EntryPointsAskForUser DEF ServerClientsRoutes, ServerClientsApi,
       OperatorClientsPages, ClientRegistry
  <1>3. CASE ServerUsersRoutes(d, p, e)
    BY <1>3, EntryPointsAskForUser DEF ServerUsersRoutes, ServerUsersApi, OperatorUsersPages,
       ServerUsers, ServerUsersRequireActor
  <1>4. CASE ServerBrowserSessionsApi(d, p, e) \/ OperatorSessionsPages(d, p, e)
    BY <1>4, EntryPointsAskForUser, SessionActionsEnd DEF ServerBrowserSessionsApi,
       OperatorSessionsPages, RequireOperatorPermission, RequireOperatorForm
  <1>5. CASE OperatorUserSessionsPages(d, p, e)
    BY <1>5, EntryPointsAskForUser, SessionActionsEnd DEF OperatorUserSessionsPages,
       RequireOperatorForm
  <1>6. CASE OperatorOrganizationSessionsPages(d, p, e)
    BY <1>6, EntryPointsAskForUser, SessionActionsEnd DEF OperatorOrganizationSessionsPages,
       RequireOperatorForm
  <1>7. CASE ClientOrganizationsRoutes(d, p, e)
    BY <1>7, EntryPointsAskForUser DEF ClientOrganizationsRoutes, ClientOrganizationsApi,
       ClientOrganizationsPages, ClientOrganizations
  <1> QED
    BY <1>1, <1>2, <1>3, <1>4, <1>5, <1>6, <1>7 DEF OperatorRequest

LEMMA OrganizationRequests ==
    ASSUME NEW d, NEW p, NEW e, OrganizationRequest(d, p, e)
    PROVE  /\ UserPrincipal(d, p) /\ Actor(d, p).role = "admin"
           /\ \/ OrganizationOAuth2Sessions(d, p, e)
              \/ \E u \in OrganizationTargets(d, p) : UserSessionActions(d, u, e)
              \/ OrganizationSessionActions(d, Actor(d, p).org, e)
              \/ OrganizationMetadata(d, p, e)
              \/ OrganizationUsers(d, p, e)
  <1>1. CASE OrganizationUsersRoutes(d, p, e)
    BY <1>1, EntryPointsAskForUser DEF OrganizationUsersRoutes, OrganizationUsersApi,
       OrganizationUsersPages, OrganizationUsers, OrganizationUsersRequireActor
  <1>2. CASE OrganizationMetadataRoutes(d, p, e)
    BY <1>2, EntryPointsAskForUser DEF OrganizationMetadataRoutes, OrganizationMetadataApi,
       OrganizationMetadataPages, OrganizationMetadata
  <1>3. CASE OrganizationOAuth2SessionsRoutes(d, p, e)
    BY <1>3, EntryPointsAskForUser DEF OrganizationOAuth2SessionsRoutes,
       OrganizationOAuth2SessionsApi, OrganizationOAuth2SessionsPages, OrganizationOAuth2Sessions
  <1>4. CASE OrganizationUserSessionsPages(d, p, e)
    BY <1>4, EntryPointsAskForUser DEF OrganizationUserSessionsPages, RequireOrganizationAdminForm
  <1>5. CASE OrganizationSecuritySessionsPages(d, p, e)
    BY <1>5, EntryPointsAskForUser DEF OrganizationSecuritySessionsPages,
       RequireOrganizationAdminForm
  <1> QED
    BY <1>1, <1>2, <1>3, <1>4, <1>5 DEF OrganizationRequest

\* Of their own accord users delete their account or end some of its sessions.
LEMMA OwnRequests ==
    ASSUME NEW d, Sound(d), NEW p, NEW e, OwnRequest(d, p, e)
    PROVE  /\ UserPrincipal(d, p)
           /\ \/ SelfDelete(d, p, e)
              \/ \E ended \in SUBSET SessionsOfUser(d, d.cred[p].user) : e = EndSessions(d, ended)
  <1>1. CASE MeApi(d, p, e)
    BY <1>1, EntryPointsAskForUser DEF MeApi
  <1>2. CASE MeSessionsApi(d, p, e)
    <2>1. PICK k \in SessionsOfUser(d, d.cred[p].user) : e = EndSessions(d, {k})
      BY <1>2 DEF MeSessionsApi, OwnSessions
    <2>2. {k} \in SUBSET SessionsOfUser(d, d.cred[p].user)
      BY <2>1
    <2> QED
      BY <1>2, <2>1, <2>2, EntryPointsAskForUser DEF MeSessionsApi
  <1>3. CASE LogoutApi(d, p, e)
    <2> DEFINE all == SessionsOfUser(d, d.cred[p].user) \cap BrowserSessions(d)
    <2>1. p \in Present(d.cred) /\ d.cred[p].kind = "browser"
      BY <1>3 DEF LogoutApi, Holds
    <2>2. UserPrincipal(d, p)
      BY <2>1 DEF Sound, References, CurrentAuthority, UserPrincipal, BrowserPrincipal, Holds,
         Actor, Present
    <2>3. p \in all
      BY <2>1 DEF SessionsOfUser, BrowserSessions
    <2>4. PICK ended \in {{p}, all \ {p}, all} : e = EndSessions(d, ended)
      BY <1>3 DEF LogoutApi, Logout
    <2>5. ended \in SUBSET SessionsOfUser(d, d.cred[p].user)
      BY <2>3, <2>4
    <2> QED
      BY <2>2, <2>4, <2>5
  <1> QED
    BY <1>1, <1>2, <1>3 DEF OwnRequest

\* A database that is sound stays so, and keeps its administrators.
LEMMA RequestKeeps ==
    ASSUME NEW d, Sound(d), NEW p, NEW e, Request(d, p, e)
    PROVE  Kept(d, e)
  <1>1. CASE OperatorRequest(d, p, e)
    BY <1>1, OperatorRequests, EndingKeeps, OrganizationsKeep, ClientManagementKeeps,
       ServerUsersKeep
  <1>2. CASE OrganizationRequest(d, p, e)
    <2>1. OrganizationOAuth2Sessions(d, p, e) => \E ended : e = EndSessions(d, ended)
      BY DEF OrganizationOAuth2Sessions
    <2> QED
      BY <1>2, <2>1, OrganizationRequests, SessionActionsEnd, EndingKeeps, OrganizationsKeep,
         OrganizationUsersKeep
  <1>3. CASE OwnRequest(d, p, e)
    <2>1. SelfDelete(d, p, e) \/ \E ended : e = EndSessions(d, ended)
      BY <1>3, OwnRequests
    <2> QED
      BY <1>3, <2>1, OwnRequests, SelfDeleteKeeps, EndingKeeps
  <1>4. CASE OrganizationSecuritySessionsApi(d, p, e)
    BY <1>4, EndingKeeps DEF OrganizationSecuritySessionsApi, RevokeOrganizationSecuritySessions
  <1>5. CASE PublicRequest(d, e)
    BY <1>5, PublicKeeps
  <1> QED
    BY <1>1, <1>2, <1>3, <1>4, <1>5 DEF Request

LEMMA OpenedKeeps ==
    ASSUME NEW d, Sound(d), NEW k \in Vacant(d.cred), NEW row \in CredentialRows,
           row.kind # "machine" =>
               /\ row.user \in Present(d.user) /\ row.holder = d.user[row.user]
               /\ Accessible(row.holder),
           row.kind # "browser" =>
               row.client \in Present(d.client) /\ Fits(d.client[row.client], row)
    PROVE  Kept(d, OpenSession(d, k, row))
  <1>1. d \in Databases /\ k \in Credentials
    BY Columns DEF Sound
  <1>2. Opened(d, k, row, OpenSession(d, k, row))
    BY <1>1, OpenSessionEffect
  <1> QED
    BY <1>1, <1>2, OpenedIsSound, SameUsersRemain DEF Kept, Opened

LEMMA CompletionKeeps ==
    ASSUME NEW d, Sound(d), NEW m \in Memos, NEW e, Completion(d, m, e)
    PROVE  Kept(d, e)
  <1>1. d \in Databases /\ Mint(d) \in Nat
    BY Columns DEF Sound
  <1>2. CASE m.task = "password" /\ ChangePasswordAutonomously(d, m, e)
    <2>1. m.row \in Present(d.user) /\ d.user[m.row] \in UserRows
      BY <1>1, <1>2, Columns DEF ChangePasswordAutonomously, Memos
    <2> QED
      BY <1>2, <2>1, SetPasswordKeeps, UserColumns DEF ChangePasswordAutonomously
  <1>3. CASE m.task = "rotation" /\ RotateClientSecretAutonomously(d, m, e)
    <2>1. m.row \in Present(d.client) /\ d.client[m.row] \in ClientRows
      BY <1>1, <1>3, Columns DEF RotateClientSecretAutonomously, Memos
    <2> DEFINE old == d.client[m.row]
               new == [old EXCEPT !.secret = Mint(d)]
    <2>2. /\ new \in ClientRows
          /\ new.active = old.active /\ new.grants = old.grants /\ new.scopes = old.scopes
          /\ new.confidential = old.confidential /\ new.userAccess = old.userAccess
          /\ new.userOrgs = old.userOrgs /\ new.machineAccess = old.machineAccess
          /\ new.machineOrgs = old.machineOrgs
      BY <1>1, <2>1 DEF ClientRows
    <2>3. e = [UpdateClient(d, m.row, new) EXCEPT !.minted = Mint(d)]
      BY <1>3 DEF RotateClientSecretAutonomously
    <2> HIDE DEF new
    <2>4. m.row \in Clients /\ ConsistentRow(d, old)
      BY <2>1, ExistingClient
    <2>5. ClientWritten(d, m.row, new, {}, e)
      BY <1>1, <2>2, <2>3, <2>4, MintingClientEffect
    <2>6. ConsistentRow(d, new)
      BY <2>2, <2>4 DEF ConsistentRow
    <2>7. \A k \in SessionsOfClient(d, m.row) : new # None /\ Fits(new, d.cred[k])
      BY <2>1, <2>2, ExistingClient, RowsAreNotNone DEF Fits, ClientAllowsUserOrganization
    <2> QED
      BY <2>4, <2>5, <2>6, <2>7, ClientWriteKeeps
  <1>4. CASE m.task = "login" /\ Login(d, m, e)
    <2>1. m.row \in Present(d.user) /\ m.row \in Users /\ d.user[m.row] \in UserRows
      BY <1>1, <1>4, Columns DEF Login, Memos
    <2>2. PICK k \in Vacant(d.cred), over \in Overflow(d, m.row) :
             e = OpenSession(EndSessions(d, over), k,
                             [kind |-> "browser", user |-> m.row, client |-> None,
                              scopes |-> {}, holder |-> d.user[m.row]])
      BY <1>4 DEF Login
    <2> DEFINE row == [kind |-> "browser", user |-> m.row, client |-> None, scopes |-> {},
                       holder |-> d.user[m.row]]
    <2>3. /\ row \in CredentialRows /\ row.kind = "browser"
          /\ row.user = m.row /\ row.holder = d.user[m.row]
      BY <2>1 DEF CredentialRows
    <2> DEFINE f == EndSessions(d, over)
    <2>4. e = OpenSession(f, k, row)
      BY <2>2
    <2>5. Accessible(d.user[m.row])
      BY <1>4 DEF Login
    <2> HIDE DEF row
    <2>6. Kept(d, f) /\ Ends(d, over, f)
      BY <1>1, EndingKeeps, EndSessionsEffect
    <2> HIDE DEF f
    <2>7. Sound(f) /\ f \in Databases /\ f.user = d.user /\ k \in Vacant(f.cred)
      BY <1>1, <2>2, <2>6, Columns DEF Kept, Ends
    <2>8. Kept(f, e)
      BY <2>1, <2>3, <2>4, <2>5, <2>7, OpenedKeeps
    <2> QED
      BY <2>6, <2>8 DEF Kept, Remain
  <1>5. CASE m.task = "token" /\ IssueUserToken(d, m, e)
    <2>1. /\ m.row \in Present(d.client) /\ m.row \in Clients /\ d.client[m.row].active
          /\ "authorization_code" \in d.client[m.row].grants /\ d.client[m.row] \in ClientRows
      BY <1>1, <1>5, Columns DEF IssueUserToken, LockAndReloadTokenClient, ActiveClient, Memos
    <2>2. PICK k \in Vacant(d.cred), u \in Present(d.user),
               scopes \in SUBSET d.client[m.row].scopes :
             /\ Accessible(d.user[u])
             /\ ClientAllowsUserOrganization(d.client[m.row], d.user[u].org)
             /\ e = OpenSession(d, k, [kind |-> "user", user |-> u, client |-> m.row,
                                       scopes |-> scopes, holder |-> d.user[u]])
      BY <1>5 DEF IssueUserToken
    <2> DEFINE row == [kind |-> "user", user |-> u, client |-> m.row, scopes |-> scopes,
                       holder |-> d.user[u]]
    <2>3. u \in Users /\ d.user[u] \in UserRows /\ scopes \subseteq Permissions
      BY <1>1, <2>1, Columns, ClientColumns, IdentityDatabaseAssumption
    <2>4. /\ row \in CredentialRows /\ row.kind = "user" /\ row.client = m.row
          /\ row.user = u /\ row.holder = d.user[u] /\ row.scopes = scopes
      BY <2>1, <2>3 DEF CredentialRows
    <2>5. e = OpenSession(d, k, row)
      BY <2>2
    <2> HIDE DEF row
    <2>6. Fits(d.client[row.client], row)
      BY <2>1, <2>2, <2>4 DEF Fits
    <2> QED
      BY <2>1, <2>2, <2>4, <2>5, <2>6, OpenedKeeps
  <1>6. CASE m.task = "token" /\ HandleClientCredentialsGrant(d, m, e)
    <2>1. /\ m.row \in Present(d.client) /\ m.row \in Clients /\ d.client[m.row].active
          /\ d.client[m.row].confidential /\ "client_credentials" \in d.client[m.row].grants
          /\ d.client[m.row] \in ClientRows
      BY <1>1, <1>6, Columns DEF HandleClientCredentialsGrant, LockAndReloadTokenClient,
         ActiveClient, Memos
    <2>2. PICK k \in Vacant(d.cred), scopes \in SUBSET d.client[m.row].scopes :
             e = OpenSession(d, k, [kind |-> "machine", user |-> None, client |-> m.row,
                                    scopes |-> scopes, holder |-> None])
      BY <1>6 DEF HandleClientCredentialsGrant
    <2> DEFINE row == [kind |-> "machine", user |-> None, client |-> m.row, scopes |-> scopes,
                       holder |-> None]
    <2>3. scopes \subseteq Permissions
      BY <1>1, <2>1, ClientColumns, IdentityDatabaseAssumption
    <2>4. /\ row \in CredentialRows /\ row.kind = "machine" /\ row.client = m.row
          /\ row.scopes = scopes
      BY <2>1, <2>3 DEF CredentialRows
    <2>5. e = OpenSession(d, k, row)
      BY <2>2
    <2> HIDE DEF row
    <2>6. Fits(d.client[row.client], row)
      BY <2>1, <2>2, <2>4 DEF Fits
    <2> QED
      BY <2>1, <2>2, <2>4, <2>5, <2>6, OpenedKeeps
  <1>7. CASE RevokeToken(d, m, e)
    BY <1>7, EndingKeeps DEF RevokeToken
  <1> QED
    BY <1>2, <1>3, <1>4, <1>5, <1>6, <1>7 DEF Completion
-----------------------------------------------------------------------------
(* How far a request reaches.                                              *)

\* The sessions of u are of whoever u is now.
LEMMA SessionsAreOfTheAccount ==
    ASSUME NEW d, Sound(d), NEW u \in Users, NEW k \in SessionsOfUser(d, u)
    PROVE  /\ k \in Present(d.cred) /\ k \in Credentials /\ d.cred[k].kind # "machine"
           /\ d.cred[k].holder = d.user[u] /\ d.user[u] # None
  <1>1. d \in Databases /\ k \in Present(d.cred) /\ d.cred[k].user = u /\ u # None
    BY IdentityDatabaseAssumption DEF Sound, SessionsOfUser
  <1>2. k \in Credentials /\ d.cred[k] \in CredentialRows
    BY <1>1, Columns
  <1>3. d.cred[k].kind # "machine"
    BY <1>1, <1>2, CredentialColumns
  <1> QED
    BY <1>1, <1>2, <1>3, Columns DEF Sound, References, CurrentAuthority

\* ... and those of an organization of members of it.
LEMMA SessionsAreOfTheOrganization ==
    ASSUME NEW d, Sound(d), NEW o,
           NEW k \in BrowserSessionsOfOrganization(d, o) \cup OAuth2SessionsOfOrganization(d, o)
    PROVE  k \in Present(d.cred) /\ d.cred[k].kind # "machine" /\ d.cred[k].holder.org = o
  <1>1. CASE k \in OAuth2SessionsOfOrganization(d, o)
    BY <1>1 DEF OAuth2SessionsOfOrganization, OAuth2Sessions
  <1>2. CASE k \in BrowserSessionsOfOrganization(d, o)
    <2>1. /\ k \in Present(d.cred) /\ d.cred[k].kind = "browser" /\ Actor(d, k).org = o
      BY <1>2 DEF BrowserSessionsOfOrganization, BrowserSessions
    <2>2. d.cred[k].holder = Actor(d, k)
      BY <2>1 DEF Sound, CurrentAuthority, Actor
    <2> QED
      BY <2>1, <2>2
  <1> QED
    BY <1>1, <1>2

\* What ending sessions leaves alone; ending those of members of o spares the others.
LEMMA EndingLeaves ==
    ASSUME NEW d, Sound(d), NEW ended
    PROVE  /\ EndSessions(d, ended).user = d.user /\ EndSessions(d, ended).org = d.org
           /\ EndSessions(d, ended).client = d.client
           /\ \A k \in Present(d.cred) : k \notin ended => EndSessions(d, ended).cred[k] = d.cred[k]
  <1>1. d \in Databases /\ Ends(d, ended, EndSessions(d, ended))
    BY EndSessionsEffect DEF Sound
  <1> QED
    BY <1>1, Columns DEF Ends

LEMMA EndingSpares ==
    ASSUME NEW d, Sound(d), NEW o, NEW ended,
           \A k \in ended : d.cred[k].kind # "machine" /\ d.cred[k].holder.org = o
    PROVE  SparesOthers(d, o, EndSessions(d, ended))
  BY EndingLeaves DEF SparesOthers

\* What writing the row of u leaves alone; writing a member of o who is no operator
\* afterwards spares the others.
LEMMA WritingLeaves ==
    ASSUME NEW d, Sound(d), NEW u \in Users, NEW new, NEW ended, NEW e,
           UserWritten(d, u, new, ended, e), ended \subseteq SessionsOfUser(d, u)
    PROVE  /\ e.org = d.org /\ e.client = d.client
           /\ \A x \in Users : e.user[x] = IF x = u THEN new ELSE d.user[x]
           /\ \A k \in Present(d.cred) : k \notin ended => e.cred[k] = d.cred[k]
           /\ \A k \in Present(d.cred) : d.cred[k].user # u => e.cred[k] = d.cred[k]
  <1>1. d \in Databases /\ \A k \in ended : d.cred[k].user = u
    BY DEF Sound, SessionsOfUser
  <1> QED
    BY <1>1, Columns DEF UserWritten

LEMMA WritingSpares ==
    ASSUME NEW d, Sound(d), NEW o, NEW u \in Users, NEW new, NEW ended, NEW e,
           UserWritten(d, u, new, ended, e), ended \subseteq SessionsOfUser(d, u),
           d.user[u] = None \/ d.user[u].org = o,
           new = None \/ (new.org = o /\ ~new.operator)
    PROVE  SparesOthers(d, o, e)
  <1>1. \A k \in ended : d.cred[k].kind # "machine" /\ d.cred[k].holder.org = o
    BY SessionsAreOfTheAccount
  <1> QED
    BY <1>1, WritingLeaves DEF SparesOthers

LEMMA OrganizationUsersReach ==
    ASSUME NEW d, Sound(d), NEW p, UserPrincipal(d, p), NEW e, OrganizationUsers(d, p, e)
    PROVE  /\ SparesOthers(d, Actor(d, p).org, e)
           /\ \A x \in Users : e.user[x] = d.user[x] \/ d.user[x] = None \/ ~d.user[x].operator
  <1> DEFINE o == Actor(d, p).org
  <1>1. d \in Databases /\ Mint(d) \in Nat /\ o \in Organizations
    BY PrincipalExists, Columns DEF Sound
  <1>2. CASE OrganizationUsersCreate(d, p, e)
    <2>1. PICK u \in Vacant(d.user), role \in Roles, active \in BOOLEAN :
             e = CreateUser(d, u, [org |-> o, role |-> role, operator |-> FALSE,
                                   active |-> active, verified |-> FALSE, hash |-> Mint(d)])
      BY <1>2 DEF OrganizationUsersCreate
    <2> DEFINE row == [org |-> o, role |-> role, operator |-> FALSE, active |-> active,
                       verified |-> FALSE, hash |-> Mint(d)]
    <2>2. row \in UserRows /\ row.org = o /\ ~row.operator
      BY <1>1 DEF UserRows
    <2>3. u \in Users /\ d.user[u] = None
      BY <1>1, Columns
    <2>4. e = CreateUser(d, u, row)
      BY <2>1
    <2> HIDE DEF row, o
    <2>5. UserWritten(d, u, row, {}, e)
      BY <1>1, <2>2, <2>3, <2>4, CreateUserEffect
    <2>6. SparesOthers(d, o, e)
      BY <2>2, <2>3, <2>5, WritingSpares
    <2>7. \A x \in Users : x # u => e.user[x] = d.user[x]
      BY <2>3, <2>5, WritingLeaves
    <2> QED
      BY <2>3, <2>6, <2>7 DEF o
  <1>3. CASE OrganizationUsersUpdate(d, p, e)
    <2>1. PICK u \in OrganizationTargets(d, p), role \in Roles, active \in BOOLEAN :
             e = UpdateUser(d, u, [d.user[u] EXCEPT !.role = role, !.active = active])
      BY <1>3 DEF OrganizationUsersUpdate
    <2> DEFINE new == [d.user[u] EXCEPT !.role = role, !.active = active]
               ended == IF RevokesSessions(d.user[u], new) THEN SessionsOfUser(d, u) ELSE {}
    <2>2. /\ u \in Present(d.user) /\ u \in Users /\ d.user[u] \in UserRows
          /\ d.user[u].org = o /\ ~d.user[u].operator
      BY <1>1, Columns DEF OrganizationTargets
    <2>3. new \in UserRows /\ new.org = o /\ ~new.operator
      BY <2>2 DEF UserRows
    <2>4. e = UpdateUser(d, u, new)
      BY <2>1
    <2> HIDE DEF new, o
    <2>5. UserWritten(d, u, new, ended, e)
      BY <1>1, <2>2, <2>3, <2>4, UpdateUserEffect
    <2>6. ended \subseteq SessionsOfUser(d, u)
      OBVIOUS
    <2> HIDE DEF ended
    <2>7. SparesOthers(d, o, e)
      BY <2>2, <2>3, <2>5, <2>6, WritingSpares
    <2>8. \A x \in Users : x # u => e.user[x] = d.user[x]
      BY <2>2, <2>5, <2>6, WritingLeaves
    <2> QED
      BY <2>2, <2>7, <2>8 DEF o
  <1>4. CASE OrganizationUsersDelete(d, p, e)
    <2>1. PICK u \in OrganizationTargets(d, p) : e = DeleteUser(d, u)
      BY <1>4 DEF OrganizationUsersDelete
    <2>2. u \in Users /\ d.user[u].org = o /\ ~d.user[u].operator
      BY <1>1, Columns DEF OrganizationTargets
    <2>3. UserWritten(d, u, None, SessionsOfUser(d, u), e)
      BY <1>1, <2>1, <2>2, DeleteUserEffect
    <2> HIDE DEF o
    <2>4. SparesOthers(d, o, e)
      BY <2>2, <2>3, WritingSpares
    <2>5. \A x \in Users : x # u => e.user[x] = d.user[x]
      BY <2>2, <2>3, WritingLeaves
    <2> QED
      BY <2>2, <2>4, <2>5 DEF o
  <1> QED
    BY <1>2, <1>3, <1>4 DEF OrganizationUsers

\* Sessions an administrator may end.
LEMMA OrganizationEndsReach ==
    ASSUME NEW d, Sound(d), NEW p, UserPrincipal(d, p), NEW e,
           \/ OrganizationOAuth2Sessions(d, p, e)
           \/ \E u \in OrganizationTargets(d, p) : UserSessionActions(d, u, e)
           \/ OrganizationSessionActions(d, Actor(d, p).org, e)
    PROVE  SparesOthers(d, Actor(d, p).org, e) /\ e.user = d.user
  <1> DEFINE o == Actor(d, p).org
             Own == BrowserSessionsOfOrganization(d, o) \cup OAuth2SessionsOfOrganization(d, o)
  <1>1. CASE OrganizationOAuth2Sessions(d, p, e)
    <2>1. \E ended \in SUBSET Own : e = EndSessions(d, ended)
      BY <1>1 DEF OrganizationOAuth2Sessions
    <2> HIDE DEF o
    <2> QED
      BY <2>1, SessionsAreOfTheOrganization, EndingSpares, EndingLeaves DEF o
  <1>2. CASE OrganizationSessionActions(d, o, e)
    <2>1. \E ended \in SUBSET Own : e = EndSessions(d, ended)
      BY <1>2 DEF OrganizationSessionActions, DeleteOrganizationSessions,
         ClearOrganizationOAuth2Sessions, RevokeOrganizationSecuritySessions
    <2> HIDE DEF o
    <2> QED
      BY <2>1, SessionsAreOfTheOrganization, EndingSpares, EndingLeaves DEF o
  <1>3. CASE \E u \in OrganizationTargets(d, p) : UserSessionActions(d, u, e)
    <2>1. PICK u \in OrganizationTargets(d, p) : UserSessionActions(d, u, e)
      BY <1>3
    <2>2. \E ended \in SUBSET SessionsOfUser(d, u) : e = EndSessions(d, ended)
      BY <2>1 DEF UserSessionActions, DeleteUserSessions, ClearUserOAuth2Sessions,
         RevokeUserSecuritySessions
    <2>3. d \in Databases
      BY DEF Sound
    <2>4. u \in Users /\ d.user[u].org = o
      BY <2>3, Columns DEF OrganizationTargets
    <2> HIDE DEF o
    <2>5. PICK ended \in SUBSET SessionsOfUser(d, u) : e = EndSessions(d, ended)
      BY <2>2
    <2>6. \A k \in ended : d.cred[k].kind # "machine" /\ d.cred[k].holder.org = o
      BY <2>4, SessionsAreOfTheAccount
    <2>7. SparesOthers(d, o, e) /\ e.user = d.user
      BY <2>5, <2>6, EndingSpares, EndingLeaves
    <2> QED
      BY <2>7 DEF o
  <1> QED
    BY <1>1, <1>2, <1>3

LEMMA OrganizationRequestReach ==
    ASSUME NEW d, Sound(d), NEW p, NEW e, OrganizationRequest(d, p, e)
    PROVE  WithinReach(d, p, e)
  <1> DEFINE o == Actor(d, p).org
  <1>1. /\ UserPrincipal(d, p) /\ Actor(d, p).role = "admin"
        /\ d.cred[p].kind # "machine" /\ Actor(d, p) = d.user[d.cred[p].user]
    BY OrganizationRequests, PrincipalExists
  <1>2. /\ SparesOthers(d, o, e)
        /\ \A x \in Users : e.user[x] = d.user[x] \/ d.user[x] = None \/ ~d.user[x].operator
    <2>1. CASE OrganizationUsers(d, p, e)
      BY <1>1, <2>1, OrganizationUsersReach
    <2>2. CASE OrganizationMetadata(d, p, e)
      <3>1. PICK name \in Names : e = [d EXCEPT !.org = [d.org EXCEPT ![o] = name]]
        BY <2>2 DEF OrganizationMetadata
      <3>2. d \in Databases /\ o \in Organizations
        BY <1>1, PrincipalExists, Columns DEF Sound
      <3> HIDE DEF o
      <3>3. OrganizationWritten(d, o, name, e)
        BY <3>1, <3>2, OrganizationEffect
      <3> QED
        BY <3>2, <3>3, Columns DEF SparesOthers, OrganizationWritten
    <2>3. CASE ~OrganizationUsers(d, p, e) /\ ~OrganizationMetadata(d, p, e)
      BY <1>1, <2>3, OrganizationRequests, OrganizationEndsReach
    <2> QED
      BY <2>1, <2>2, <2>3
  <1> QED
    BY <1>1, <1>2 DEF WithinReach

LEMMA OwnRequestReach ==
    ASSUME NEW d, Sound(d), NEW p, NEW e, OwnRequest(d, p, e)
    PROVE  WithinReach(d, p, e)
  <1> DEFINE self == d.cred[p].user
             o == d.user[self].org
  <1>1. /\ UserPrincipal(d, p) /\ d.cred[p].kind # "machine" /\ self \in Users
        /\ self \in Present(d.user) /\ d \in Databases
        /\ d.user[self].operator \in BOOLEAN
    BY OwnRequests, PrincipalExists, UserColumns DEF Sound
  <1>2. /\ SparesOthers(d, o, e) /\ e.org = d.org
        /\ \A x \in Users : x # self => e.user[x] = d.user[x]
        /\ \A k \in Present(d.cred) : d.cred[k].user # self => e.cred[k] = d.cred[k]
    <2>1. CASE SelfDelete(d, p, e)
      <3>1. e = DeleteUser(d, self)
        BY <2>1 DEF SelfDelete
      <3> HIDE DEF self
      <3>2. UserWritten(d, self, None, SessionsOfUser(d, self), e)
        BY <1>1, <3>1, DeleteUserEffect
      <3>3. SparesOthers(d, o, e)
        BY <1>1, <3>2, WritingSpares
      <3>4. /\ e.org = d.org
            /\ \A x \in Users : x # self => e.user[x] = d.user[x]
            /\ \A k \in Present(d.cred) : d.cred[k].user # self => e.cred[k] = d.cred[k]
        BY <1>1, <3>2, WritingLeaves
      <3> QED
        BY <3>3, <3>4
    <2>2. CASE \E ended \in SUBSET SessionsOfUser(d, self) : e = EndSessions(d, ended)
      <3> HIDE DEF self
      <3>1. PICK ended \in SUBSET SessionsOfUser(d, self) : e = EndSessions(d, ended)
        BY <2>2
      <3>2. \A k \in ended :
               d.cred[k].kind # "machine" /\ d.cred[k].holder.org = o /\ d.cred[k].user = self
        BY <1>1, SessionsAreOfTheAccount DEF SessionsOfUser
      <3> HIDE DEF o
      <3>3. SparesOthers(d, o, e)
        BY <3>1, <3>2, EndingSpares
      <3>4. /\ e.user = d.user /\ e.org = d.org
            /\ \A j \in Present(d.cred) : j \notin ended => e.cred[j] = d.cred[j]
        BY <3>1, EndingLeaves
      <3> QED
        BY <3>2, <3>3, <3>4
    <2> QED
      BY <2>1, <2>2, OwnRequests
  <1> QED
    BY <1>1, <1>2 DEF WithinReach

LEMMA SecuritySessionsReach ==
    ASSUME NEW d, Sound(d), NEW p, NEW e, OrganizationSecuritySessionsApi(d, p, e)
    PROVE  p \in Present(d.cred) /\ WithinReach(d, p, e)
  <1>1. PICK o \in Organizations :
           MayEndOrganizationSessions(d, p, o) /\ e = RevokeOrganizationSecuritySessions(d, o)
    BY DEF OrganizationSecuritySessionsApi
  <1>2. CASE OperatorMayEndSessions(d, p)
    BY <1>2, PrincipalExists DEF OperatorMayEndSessions, WithinReach
  <1>3. CASE ~OperatorMayEndSessions(d, p)
    <2>1. /\ p \in Present(d.cred) /\ d.cred[p].kind = "machine"
          /\ MachineClientMayAccess(d, d.cred[p].client, o)
      BY <1>1, <1>3 DEF MayEndOrganizationSessions, MachinePrincipal, Holds
    <2> DEFINE ended ==
                 BrowserSessionsOfOrganization(d, o) \cup OAuth2SessionsOfOrganization(d, o)
    <2>2. \A k \in ended : d.cred[k].kind # "machine" /\ d.cred[k].holder.org = o
      BY SessionsAreOfTheOrganization
    <2>3. e = EndSessions(d, ended)
      BY <1>1 DEF RevokeOrganizationSecuritySessions
    <2> HIDE DEF ended
    <2>4. /\ e.user = d.user /\ e.org = d.org /\ e.client = d.client
          /\ \A k \in Present(d.cred) : k \notin ended => e.cred[k] = d.cred[k]
      BY <2>3, EndingLeaves
    <2> QED
      BY <2>1, <2>2, <2>4 DEF WithinReach
  <1> QED
    BY <1>2, <1>3

\* Whoever is served is nobody or holds a credential, and is not served beyond its reach.
LEMMA RequestReach ==
    ASSUME NEW d, Sound(d), NEW p, NEW e, Request(d, p, e)
    PROVE  p = None \/ (p \in Present(d.cred) /\ WithinReach(d, p, e))
  <1>1. CASE OperatorRequest(d, p, e)
    BY <1>1, OperatorRequests, PrincipalExists DEF WithinReach
  <1>2. CASE OrganizationRequest(d, p, e)
    BY <1>2, OrganizationRequests, PrincipalExists, OrganizationRequestReach
  <1>3. CASE OwnRequest(d, p, e)
    BY <1>3, OwnRequests, PrincipalExists, OwnRequestReach
  <1>4. CASE OrganizationSecuritySessionsApi(d, p, e)
    BY <1>4, SecuritySessionsReach
  <1> QED
    BY <1>1, <1>2, <1>3, <1>4 DEF Request
-----------------------------------------------------------------------------
(* What the routes and introspection accept, and what they show.           *)

\* The client of a token is there, and of the kind the token asks for.
LEMMA TokenClient ==
    ASSUME NEW d, Sound(d), NEW k \in Present(d.cred), d.cred[k].kind # "browser"
    PROVE  /\ ActiveClient(d, d.cred[k].client)
           /\ k \in SessionsOfClient(d, d.cred[k].client)
  <1>1. d.cred[k].client \in Present(d.client) /\ d.client[d.cred[k].client].active
    BY DEF Sound, References, TokensWithinClients, WithinClient
  <1> QED
    BY <1>1 DEF ActiveClient, SessionsOfClient, Present

\* Of a session that is left, both authentications approve.
LEMMA SoundSessionsAuthenticate ==
    ASSUME NEW d, Sound(d)
    PROVE  SessionsAuthenticate(d)
  <1> SUFFICES ASSUME NEW k \in Present(d.cred)
               PROVE  /\ IF d.cred[k].kind = "machine"
                         THEN MachinePrincipal(d, k) ELSE UserPrincipal(d, k)
                      /\ d.cred[k].kind # "browser" /\ d.client[d.cred[k].client].confidential
                             => k \in Introspected(d, d.cred[k].client)
    BY DEF SessionsAuthenticate
  <1>1. d \in Databases
    BY DEF Sound
  <1>2. d.cred[k].kind \in {"browser", "user", "machine"}
    BY <1>1, Columns, CredentialColumns
  <1>3. d.cred[k].kind # "machine" =>
           /\ Actor(d, k) # None /\ Accessible(Actor(d, k))
           /\ EligibleIdentity(d, k)
    BY DEF Sound, References, CurrentAuthority, Actor, EligibleIdentity, Present
  <1> QED
    BY <1>2, <1>3, TokenClient DEF MachinePrincipal, UserPrincipal, BrowserPrincipal,
       BearerPrincipal, Holds, Introspected

\* What p is shown, it may know.
LEMMA ViewsStayInSight ==
    ASSUME NEW d, Sound(d), NEW p \in Present(d.cred)
    PROVE  WithinSight(d, p)
  <1>1. d \in Databases /\ p \in Credentials
    BY Columns DEF Sound
  <1>2. CASE ~UserPrincipal(d, p)
    <2>1. /\ \A permission : /\ ~RequireOperatorPermission(d, p, permission)
                             /\ ~RequireOrganizationAdminPermission(d, p, permission)
                             /\ ~RequirePermission(d, p, permission)
          /\ ~RequireOperatorForm(d, p) /\ ~RequireOrganizationAdminForm(d, p)
          /\ ~BrowserPrincipal(d, p) /\ ~BearerPrincipal(d, p)
      BY <1>2, EntryPointsAskForUser DEF RequirePermission, UserPrincipal
    <2>5. OAuth2SessionsShown(d, p) = {} /\ SessionsShown(d, p) = {}
      BY <2>1 DEF OAuth2SessionsShown, SessionsShown, Answer,
         OrganizationOAuth2SessionsApiView, OrganizationOAuth2SessionsPage,
         MeOAuth2SessionsView, MeSessionsView
    <2>2. AccountsShown(d, p) = {}
      BY <2>1, <2>5 DEF AccountsShown, Answer, ServerUsersApiViews, OperatorUsersPageViews,
         OrganizationUsersApiViews, OrganizationUsersPageViews,
         OrganizationUserSessionsPageViews, MeView, AccountPage, UserInfo
    <2>3. OrganizationsShown(d, p) = {}
      BY <2>1, <2>2, <2>5 DEF OrganizationsShown, Answer, ServerOrganizationsApiViews,
         OperatorOrganizationsPageViews, OrganizationMetadataApiView, OrganizationSettingsPage,
         ClientUserOrganizationsApiView, ClientMachineOrganizationsApiView,
         OperatorClientDetailPage
    <2>4. ClientsShown(d, p) = {}
      BY <2>1, <2>5 DEF ClientsShown, Answer, ServerClientsApiViews,
         OperatorClientsPageViews, ConsentPage, AuthorizationInteractionView,
         DeviceInteractionView
    <2> QED
      BY <2>2, <2>3, <2>4, <2>5 DEF WithinSight
  <1>3. CASE UserPrincipal(d, p)
    <2> DEFINE self == d.cred[p].user
               row == d.user[self]
               accounts == AccountsInSight(d, p)
    <2>1. /\ d.cred[p].kind # "machine" /\ self \in Users /\ self \in Present(d.user)
          /\ Actor(d, p) = row
      BY <1>3, PrincipalExists
    <2>2. accounts = {u \in Present(d.user) :
                         row.operator \/ u = self \/ (row.role = "admin" /\ d.user[u].org = row.org)}
      BY <2>1 DEF AccountsInSight
    <2>3. self \in accounts
      BY <2>1, <2>2
    <2>4. /\ ServerUsersRead(d, p) \subseteq accounts
          /\ OrganizationUsersRead(d, p) \subseteq accounts
          /\ OrganizationSessionTarget(d, p) \subseteq accounts
          /\ UserSelfRead(d, p) \subseteq accounts
      BY <2>1, <2>2 DEF ServerUsersRead, ServerUsersRequireActor, OrganizationUsersRead,
         OrganizationUsersRequireActor, OrganizationMembers, OrganizationSessionTarget,
         OrganizationTargets, UserSelfRead
    \* What a session in one of the lists names is in sight.
    <2>5. ASSUME NEW k \in OAuth2SessionsShown(d, p)
          PROVE  /\ k \in Present(d.cred) /\ d.cred[k].kind = "user"
                 /\ d.cred[k].user \in accounts /\ k \in SessionsOfUser(d, d.cred[k].user)
                 /\ d.cred[k].holder.org = row.org
                 /\ d.cred[k].client \in ClientsInSight(d, p)
      <3>1. \/ k \in OrganizationOAuth2SessionsRead(d, p)
            \/ k \in UserOAuth2SessionsRead(d, p)
        BY <2>5 DEF OAuth2SessionsShown, Answer, OrganizationOAuth2SessionsApiView,
           OrganizationOAuth2SessionsPage, MeOAuth2SessionsView
      <3>2. /\ k \in Present(d.cred) /\ d.cred[k].kind = "user"
            /\ d.cred[k].holder.org = row.org
            /\ row.role = "admin" \/ d.cred[k].user = self
        BY <2>1, <3>1 DEF OrganizationOAuth2SessionsRead, UserOAuth2SessionsRead,
           SessionsOfUser, OAuth2SessionsOfOrganization, OAuth2Sessions
      <3>3. /\ d.cred[k].user \in Present(d.user)
            /\ d.user[d.cred[k].user] = d.cred[k].holder
        BY <3>2 DEF Sound, References, CurrentAuthority
      <3>4. d.cred[k].user \in accounts /\ k \in SessionsOfUser(d, d.cred[k].user)
        BY <2>1, <2>2, <3>2, <3>3 DEF SessionsOfUser
      <3>5. /\ d.cred[k].client \in Present(d.client) /\ d.client[d.cred[k].client].active
            /\ ClientAllowsUserOrganization(d.client[d.cred[k].client], row.org)
        BY <3>2 DEF Sound, References, TokensWithinClients, WithinClient
      <3>6. d.cred[k].client \in ClientsInSight(d, p)
        BY <2>1, <3>5 DEF ClientsInSight
      <3> QED
        BY <3>2, <3>4, <3>6
    <2>6. AccountsShown(d, p) \subseteq accounts
      <3> HIDE DEF accounts, self, row
      <3> QED
        BY <2>4, <2>5 DEF AccountsShown, Answer, ServerUsersApiViews, OperatorUsersPageViews,
           OrganizationUsersApiViews, OrganizationUsersPageViews,
           OrganizationUserSessionsPageViews, MeView, AccountPage, UserInfo
    <2>7. row.operator \/ OrganizationsShown(d, p) \subseteq {d.user[u].org : u \in accounts}
      <3> SUFFICES ASSUME ~row.operator
                   PROVE  OrganizationsShown(d, p) \subseteq {d.user[u].org : u \in accounts}
        OBVIOUS
      <3>1. /\ ServerOrganizationsRead(d, p) = {} /\ ClientsRead(d, p) = {}
            /\ OrganizationMetadataRead(d, p) \subseteq {row.org}
        BY <2>1 DEF ServerOrganizationsRead, ClientsRead, OrganizationMetadataRead
      <3>2. ClientUserOrganizationsRead(d, p) = {} /\ ClientMachineOrganizationsRead(d, p) = {}
        BY <3>1 DEF ClientUserOrganizationsRead, ClientMachineOrganizationsRead
      <3>3. row.org \in {d.user[u].org : u \in accounts}
        BY <2>3
      <3>4. {d.cred[k].holder.org : k \in OAuth2SessionsShown(d, p)} \subseteq {row.org}
        BY <2>5
      <3> HIDE DEF accounts, self, row
      <3> QED
        BY <2>6, <3>1, <3>2, <3>3, <3>4 DEF OrganizationsShown, Answer,
           ServerOrganizationsApiViews, OperatorOrganizationsPageViews,
           OrganizationMetadataApiView, OrganizationSettingsPage,
           ClientUserOrganizationsApiView, ClientMachineOrganizationsApiView,
           OperatorClientDetailPage
    <2>8. ClientsShown(d, p) \subseteq ClientsInSight(d, p)
      <3>1. ClientsRead(d, p) \subseteq ClientsInSight(d, p)
        BY <2>1 DEF ClientsRead, ClientsInSight
      <3>2. /\ AuthorizationClientsRead(d, p) \subseteq ClientsInSight(d, p)
            /\ DeviceClientsRead(d, p) \subseteq ClientsInSight(d, p)
        BY <2>1 DEF AuthorizationClientsRead, DeviceClientsRead, InteractionClients,
           ClientsInSight
      <3>3. {d.cred[k].client : k \in OAuth2SessionsShown(d, p)} \subseteq ClientsInSight(d, p)
        BY <2>5
      <3> QED
        BY <3>1, <3>2, <3>3 DEF ClientsShown, Answer, ServerClientsApiViews,
           OperatorClientsPageViews, ConsentPage, AuthorizationInteractionView,
           DeviceInteractionView
    <2>9. SessionsShown(d, p) \subseteq UNION {SessionsOfUser(d, u) : u \in accounts}
      <3>1. ASSUME NEW k \in MeSessionsView(d, p)
            PROVE  k \in SessionsOfUser(d, self)
        BY <3>1 DEF MeSessionsView, Answer, UserBrowserSessionsRead
      <3> QED
        BY <2>3, <2>5, <3>1 DEF SessionsShown
    <2> QED
      BY <2>1, <2>6, <2>7, <2>8, <2>9 DEF WithinSight
  <1> QED
    BY <1>2, <1>3

-----------------------------------------------------------------------------
(* The inductive invariant.                                                *)

\* A request that writes holds the lock and sees the newest database; a snapshot is a
\* sound database, and one that is as old as the newest commit is the newest.
RequestInv(r) ==
    /\ req[r] \in InFlight
    /\ req[r].phase \in {"writing", "finishing"} => writer = r
    /\ req[r].phase \in {"reading", "writing"} =>
           /\ Sound(req[r].view)
           /\ req[r].seen = commits => req[r].view = db
           /\ req[r].seen <= commits
    /\ req[r].phase = "writing" => req[r].seen = commits
    /\ req[r].phase \in {"apart", "finishing"} => req[r].memo \in Memos

PlaneInv ==
    /\ Sound(db)
    /\ commits \in Nat
    /\ writer \in Requests \cup {None}
    /\ req \in [Requests -> InFlight]
    /\ \A r \in Requests : RequestInv(r)

LEMMA IdleIsInFlight ==
    /\ Idle \in InFlight /\ Idle.phase = "idle"
    /\ \A view \in Databases, seen \in Nat :
           LET q == [Idle EXCEPT !.phase = "reading", !.view = view, !.seen = seen]
           IN  q \in InFlight /\ q.phase = "reading" /\ q.view = view /\ q.seen = seen
    /\ \A m \in Memos :
           LET q == [Idle EXCEPT !.phase = "apart", !.memo = m]
           IN  q \in InFlight /\ q.phase = "apart" /\ q.memo = m
  BY DEF Idle, InFlight, Phases

\* What is set aside is a memo.
LEMMA DeparturesAreMemos ==
    ASSUME NEW d \in Databases, NEW p
    PROVE  Departures(d, p) \subseteq Memos
  <1>1. ASSUME BrowserPrincipal(d, p)
        PROVE  PasswordMemo(d, p) \in Memos
    <2>1. /\ p \in Credentials /\ d.cred[p] \in CredentialRows /\ d.cred[p].kind = "browser"
          /\ Actor(d, p) # None
      BY <1>1, Columns DEF BrowserPrincipal, Holds
    <2>2. d.cred[p].user \in Users
      BY <2>1, CredentialColumns
    <2>3. Actor(d, p).hash \in Nat
      BY <2>1, <2>2, Columns, UserColumns DEF Actor
    <2> QED
      BY <2>2, <2>3 DEF PasswordMemo, Memos
  <1>2. ASSUME NEW c \in Present(d.client)
        PROVE  RotationMemo(d, c) \in Memos /\ TokenMemo(d, c) \in Memos
    <2>1. c \in Clients /\ d.client[c].secret \in Nat
      BY Columns, ClientColumns
    <2> QED
      BY <2>1 DEF RotationMemo, TokenMemo, Memos
  <1>3. ASSUME NEW u \in Present(d.user)
        PROVE  LoginMemo(d, u) \in Memos
    <2>1. u \in Users /\ d.user[u].hash \in Nat
      BY Columns, UserColumns
    <2> QED
      BY <2>1 DEF LoginMemo, Memos
  <1> QED
    BY <1>1, <1>2, <1>3 DEF Departures

\* A commit leaves the others reading an older snapshot.
LEMMA CommitKeepsInv ==
    ASSUME PlaneInv, NEW r \in Requests, writer = r, Commit(r), Sound(db')
    PROVE  PlaneInv'
  <1>1. /\ commits' = commits + 1 /\ writer' = None /\ commits \in Nat
        /\ req' = [req EXCEPT ![r] = Idle]
    BY DEF Commit, PlaneInv
  <1>2. req' \in [Requests -> InFlight] /\ None \notin Requests
    BY <1>1, IdleIsInFlight, ControlPlaneAssumption DEF PlaneInv
  <1>3. ASSUME NEW q \in Requests
        PROVE  RequestInv(q)'
    <2>1. CASE q = r
      <3>1. req'[q] = Idle
        BY <1>1, <2>1 DEF PlaneInv
      <3> QED
        BY <3>1, IdleIsInFlight DEF RequestInv
    <2>2. CASE q # r
      <3>1. req'[q] = req[q] /\ RequestInv(q)
        BY <1>1, <2>2 DEF PlaneInv
      <3>2. req[q].phase \notin {"writing", "finishing"}
        BY <2>2, <3>1 DEF RequestInv
      <3>3. req[q].seen \in Nat
        BY DEF PlaneInv, InFlight
      <3> QED
        BY <1>1, <3>1, <3>2, <3>3 DEF RequestInv
    <2> QED
      BY <2>1, <2>2
  <1> QED
    BY <1>1, <1>2, <1>3 DEF PlaneInv

\* Any other step changes only the request that takes it, and perhaps its lock.
LEMMA QuietKeepsInv ==
    ASSUME PlaneInv, UNCHANGED <<db, commits>>, NEW r \in Requests, NEW row \in InFlight,
           req' = [req EXCEPT ![r] = row], writer' \in Requests \cup {None},
           \A q \in Requests : q # r /\ writer = q => writer' = q,
           row.phase \in {"writing", "finishing"} => writer' = r,
           row.phase \in {"reading", "writing"} =>
               /\ Sound(row.view)
               /\ row.seen = commits => row.view = db
               /\ row.seen <= commits,
           row.phase = "writing" => row.seen = commits,
           row.phase \in {"apart", "finishing"} => row.memo \in Memos
    PROVE  PlaneInv'
  <1>1. req' \in [Requests -> InFlight]
    BY DEF PlaneInv
  <1>2. ASSUME NEW q \in Requests
        PROVE  RequestInv(q)'
    <2>1. CASE q = r
      <3>1. req'[q] = row
        BY <2>1 DEF PlaneInv
      <3> QED
        BY <2>1, <3>1 DEF RequestInv
    <2>2. CASE q # r
      <3>1. req'[q] = req[q] /\ RequestInv(q)
        BY <2>2 DEF PlaneInv
      <3> QED
        BY <2>2, <3>1 DEF RequestInv
    <2> QED
      BY <2>1, <2>2
  <1> QED
    BY <1>1, <1>2 DEF PlaneInv

\* The database a request decides on when it writes is the committed one.
LEMMA WritersSeeTheNewest ==
    ASSUME PlaneInv, NEW r \in Requests, req[r].phase = "writing"
    PROVE  req[r].view = db /\ writer = r
  BY DEF PlaneInv, RequestInv

LEMMA InitInv == Init => PlaneInv
  <1> SUFFICES ASSUME Init PROVE PlaneInv
    OBVIOUS
  <1>1. req \in [Requests -> InFlight] /\ \A r \in Requests : RequestInv(r)
    BY IdleIsInFlight DEF Init, RequestInv
  <1> QED
    BY <1>1, ControlPlaneAssumption DEF Init, PlaneInv

\* Each step of a request keeps the invariant; one that commits also keeps administrators.
LEMMA StepInv ==
    ASSUME PlaneInv, [Next]_vars
    PROVE  PlaneInv' /\ (db' # db => Remain(db, db'))
  <1>1. CASE UNCHANGED vars
    <2>1. \A r \in Requests : RequestInv(r)'
      BY <1>1 DEF PlaneInv, RequestInv, vars
    <2> QED
      BY <1>1, <2>1 DEF PlaneInv, vars
  <1>2. ASSUME NEW r \in Requests, Begin(r)
        PROVE  PlaneInv' /\ db' = db
    <2> DEFINE row == [Idle EXCEPT !.phase = "reading", !.view = db, !.seen = commits]
    <2>1. Sound(db) /\ db \in Databases /\ commits \in Nat
      BY DEF PlaneInv, Sound
    <2>2. row \in InFlight /\ row.phase = "reading" /\ row.view = db /\ row.seen = commits
      BY <2>1 DEF Idle, InFlight, Phases
    <2>3. req' = [req EXCEPT ![r] = row] /\ UNCHANGED <<db, commits, writer>>
      BY <1>2 DEF Begin
    <2>4. writer' \in Requests \cup {None} /\ row.seen <= commits
      BY <2>1, <2>2, <2>3 DEF PlaneInv
    <2> HIDE DEF row
    <2> QED
      BY <2>1, <2>2, <2>3, <2>4, QuietKeepsInv
  <1>3. ASSUME NEW r \in Requests, TakeWriteLock(r)
        PROVE  PlaneInv' /\ db' = db
    <2>1. PICK p \in Credentials \cup {None} :
             req' = [req EXCEPT ![r] = [req[r] EXCEPT !.phase = "writing", !.who = p]]
      BY <1>3 DEF TakeWriteLock
    <2> DEFINE row == [req[r] EXCEPT !.phase = "writing", !.who = p]
    <2>2. /\ req[r] \in InFlight /\ req[r].phase = "reading" /\ req[r].seen = commits
          /\ writer = None /\ writer' = r /\ UNCHANGED <<db, commits>> /\ RequestInv(r)
          /\ None \notin Requests
      BY <1>3, ControlPlaneAssumption DEF TakeWriteLock, PlaneInv
    <2>3. /\ row \in InFlight /\ row.phase = "writing" /\ row.view = req[r].view
          /\ row.seen = req[r].seen
      BY <2>2 DEF InFlight, Phases
    <2>4. Sound(row.view) /\ row.view = db /\ row.seen <= commits
      BY <2>2, <2>3 DEF RequestInv
    <2>5. req' = [req EXCEPT ![r] = row]
      BY <2>1
    <2> HIDE DEF row
    <2> QED
      BY <2>2, <2>3, <2>4, <2>5, QuietKeepsInv
  <1>4. ASSUME NEW r \in Requests, Finish(r)
        PROVE  PlaneInv' /\ Remain(db, db')
    <2>1. req[r].view = db /\ writer = r
      BY <1>4, WritersSeeTheNewest DEF Finish
    <2>2. Kept(db, db')
      BY <1>4, <2>1, RequestKeeps DEF Finish, PlaneInv
    <2> QED
      BY <1>4, <2>1, <2>2, CommitKeepsInv DEF Finish, Kept
  <1>5. ASSUME NEW r \in Requests, StepApart(r)
        PROVE  PlaneInv' /\ db' = db
    <2>1. PICK p, m : /\ m \in Departures(req[r].view, p)
                      /\ req' = [req EXCEPT ![r] = [Idle EXCEPT !.phase = "apart", !.memo = m]]
      BY <1>5 DEF StepApart
    <2>2. req[r].phase \in {"reading", "writing"} /\ req[r].view \in Databases
      BY <1>5 DEF StepApart, PlaneInv, RequestInv, Sound
    <2>3. m \in Memos
      BY <2>1, <2>2, DeparturesAreMemos
    <2> DEFINE row == [Idle EXCEPT !.phase = "apart", !.memo = m]
    <2>4. row \in InFlight /\ row.phase = "apart" /\ row.memo = m
      BY <2>3, IdleIsInFlight
    <2>5. /\ req' = [req EXCEPT ![r] = row] /\ UNCHANGED <<db, commits>>
          /\ writer' = IF writer = r THEN None ELSE writer
      BY <1>5, <2>1 DEF StepApart
    <2> HIDE DEF row
    <2> QED
      BY <2>3, <2>4, <2>5, QuietKeepsInv DEF PlaneInv
  <1>6. ASSUME NEW r \in Requests, Return(r)
        PROVE  PlaneInv' /\ db' = db
    <2> DEFINE row == [req[r] EXCEPT !.phase = "finishing"]
    <2>1. /\ req[r] \in InFlight /\ req[r].memo \in Memos /\ None \notin Requests
          /\ writer = None /\ writer' = r /\ UNCHANGED <<db, commits>>
          /\ req' = [req EXCEPT ![r] = row]
      BY <1>6, ControlPlaneAssumption DEF Return, PlaneInv, RequestInv
    <2>2. row \in InFlight /\ row.phase = "finishing" /\ row.memo \in Memos
      BY <2>1 DEF InFlight, Phases
    <2> HIDE DEF row
    <2> QED
      BY <2>1, <2>2, QuietKeepsInv
  <1>7. ASSUME NEW r \in Requests, FinishApart(r)
        PROVE  PlaneInv' /\ Remain(db, db')
    <2>1. req[r].memo \in Memos /\ writer = r
      BY <1>7 DEF FinishApart, PlaneInv, RequestInv
    <2>2. Kept(db, db')
      BY <1>7, <2>1, CompletionKeeps DEF FinishApart, PlaneInv
    <2> QED
      BY <1>7, <2>1, <2>2, CommitKeepsInv DEF FinishApart, Kept
  <1>8. ASSUME NEW r \in Requests, Abandon(r)
        PROVE  PlaneInv' /\ db' = db
    <2>1. /\ req' = [req EXCEPT ![r] = Idle] /\ UNCHANGED <<db, commits>>
          /\ writer' = IF writer = r THEN None ELSE writer
      BY <1>8 DEF Abandon
    <2> QED
      BY <2>1, IdleIsInFlight, QuietKeepsInv DEF PlaneInv
  <1>9. ASSUME NEW r \in Requests, Show(r)
        PROVE  PlaneInv' /\ db' = db
    <2>1. req' = [req EXCEPT ![r] = Idle] /\ UNCHANGED <<db, commits, writer>>
      BY <1>9 DEF Show
    <2> QED
      BY <2>1, IdleIsInFlight, QuietKeepsInv DEF PlaneInv
  <1> QED
    BY <1>1, <1>2, <1>3, <1>4, <1>5, <1>6, <1>7, <1>8, <1>9 DEF Next, vars

-----------------------------------------------------------------------------
(* The theorems.                                                           *)

\* The database is sound after every commit, and every request that writes sees the newest.
THEOREM PlaneInvHolds == Spec => []PlaneInv
  BY InitInv, StepInv, PTL DEF Spec

\* Types and references, for any users, organizations, clients and requests.
THEOREM TypeCorrect == Spec => []TypeOK
  <1>1. PlaneInv => TypeOK
    BY DEF PlaneInv, Sound, TypeOK
  <1> QED
    BY <1>1, PlaneInvHolds, PTL

\* Sessions carry the authority their account has now, and are accepted for it.
THEOREM AuthorityIsCurrent == Spec => []SessionsCarryCurrentAuthority
  <1>1. PlaneInv => SessionsCarryCurrentAuthority
    BY SoundSessionsAuthenticate DEF PlaneInv, Sound, SessionsCarryCurrentAuthority
  <1> QED
    BY <1>1, PlaneInvHolds, PTL

\* Tokens stay within what their client is allowed now.
THEOREM TokensFit == Spec => []CredentialsFitTheirClient
  <1>1. PlaneInv => CredentialsFitTheirClient
    BY DEF PlaneInv, Sound, CredentialsFitTheirClient
  <1> QED
    BY <1>1, PlaneInvHolds, PTL

\* The last operator and the last administrator of an organization stay.
THEOREM AdministratorsStay == Spec => AdministratorsRemain
  <1>1. PlaneInv /\ [Next]_vars =>
          [/\ AccessibleOperators(db) # {} => AccessibleOperators(db)' # {}
           /\ \A o \in Organizations :
                  AccessibleAdministrators(db, o) # {} => AccessibleAdministrators(db, o)' # {}]_vars
    <2> SUFFICES ASSUME PlaneInv, [Next]_vars
                 PROVE  /\ AccessibleOperators(db) # {} => AccessibleOperators(db)' # {}
                        /\ \A o \in Organizations :
                               AccessibleAdministrators(db, o) # {}
                                   => AccessibleAdministrators(db, o)' # {}
      OBVIOUS
    <2>1. db' = db \/ Remain(db, db')
      BY StepInv
    <2> QED
      BY <2>1 DEF Remain, AccessibleOperators, AccessibleAdministrators
  <1> QED
    BY <1>1, PlaneInvHolds, PTL DEF Spec, AdministratorsRemain

\* No request reaches beyond the account it acts for.
THEOREM TenantsIsolated == Spec => TenantsAreIsolated
  <1>1. ASSUME PlaneInv, [Next]_vars, NEW r \in Requests, req[r].phase = "writing",
               req[r].who # None, commits' # commits, writer = r
        PROVE  WithinReach(db, req[r].who, db')
    <2>1. PICK q \in Requests : Finish(q) \/ FinishApart(q)
      BY <1>1 DEF Next, vars, Begin, Show, TakeWriteLock, StepApart, Return, Abandon
    <2>2. q = r
      BY <1>1, <2>1 DEF PlaneInv, RequestInv, Finish, FinishApart
    <2>3. Finish(r)
      BY <1>1, <2>1, <2>2 DEF FinishApart
    <2>4. req[r].view = db
      BY <1>1, WritersSeeTheNewest
    <2> QED
      BY <1>1, <2>3, <2>4, RequestReach DEF Finish, PlaneInv
  <1>2. ASSUME PlaneInv, NEW r \in Requests, req[r].phase = "reading",
               NEW p \in Present(req[r].view.cred)
        PROVE  WithinSight(req[r].view, p)
    BY <1>2, ViewsStayInSight DEF PlaneInv, RequestInv
  <1>3. PlaneInv /\ [Next]_vars =>
          [\A r \in Requests :
              /\ req[r].phase = "writing" /\ req[r].who # None /\ commits' # commits /\ writer = r
                     => WithinReach(db, req[r].who, db')
              /\ req[r].phase = "reading" /\ req'[r].phase = "idle"
                     => \A p \in Present(req[r].view.cred) : WithinSight(req[r].view, p)]_vars
    BY <1>1, <1>2
  <1> QED
    BY <1>3, PlaneInvHolds, PTL DEF Spec, TenantsAreIsolated

\* A completion that succeeds would succeed for who knows what is current now.
LEMMA CompletionIsCurrent ==
    ASSUME NEW d, Sound(d), NEW m \in Memos, NEW e, Completion(d, m, e)
    PROVE  \E n \in CurrentMemos(d) : Completion(d, n, e)
  <1>1. d \in Databases
    BY DEF Sound
  <1>2. ASSUME \/ m.task = "password" /\ ChangePasswordAutonomously(d, m, e)
               \/ m.task = "login" /\ Login(d, m, e)
        PROVE  m \in CurrentMemos(d)
    <2>1. m.row \in Users /\ d.user[m.row] # None /\ d.user[m.row].hash = m.hash
      BY <1>2 DEF Memos, ChangePasswordAutonomously, Login
    <2>2. m = [task |-> m.task, row |-> m.row, hash |-> d.user[m.row].hash]
      BY <2>1 DEF Memos
    <2>3. m.row \in Present(d.user)
      BY <1>1, <2>1, Columns
    <2> QED
      BY <1>2, <2>2, <2>3 DEF CurrentMemos
  <1>3. ASSUME m.task = "rotation" /\ RotateClientSecretAutonomously(d, m, e)
        PROVE  m \in CurrentMemos(d)
    <2>1. m.row \in Clients /\ d.client[m.row] # None /\ d.client[m.row].secret = m.hash
      BY <1>3 DEF Memos, RotateClientSecretAutonomously
    <2>2. m = [task |-> m.task, row |-> m.row, hash |-> d.client[m.row].secret]
      BY <2>1 DEF Memos
    <2>3. m.row \in Present(d.client)
      BY <1>1, <2>1, Columns
    <2> QED
      BY <1>3, <2>2, <2>3 DEF CurrentMemos
  <1>4. ASSUME m.task = "token",
               IssueUserToken(d, m, e) \/ HandleClientCredentialsGrant(d, m, e)
                   \/ RevokeToken(d, m, e)
        PROVE  \E n \in CurrentMemos(d) : Completion(d, n, e)
    <2> DEFINE n == [task |-> "token", row |-> m.row, hash |-> d.client[m.row].secret]
    <2>1. m.row \in Clients /\ m.row # None
      BY <1>4, IdentityDatabaseAssumption DEF Memos
    <2>2. m.row \in Present(d.client)
      <3>1. CASE RevokeToken(d, m, e)
        <4>1. PICK k \in SessionsOfClient(d, m.row) : TRUE
          BY <3>1 DEF RevokeToken
        <4>2. k \in Present(d.cred) /\ d.cred[k] \in CredentialRows /\ d.cred[k].client = m.row
          BY <1>1, Columns DEF SessionsOfClient
        <4> QED
          BY <2>1, <4>2, CredentialColumns DEF Sound, References
      <3>2. CASE ~RevokeToken(d, m, e)
        BY <1>1, <1>4, <2>1, <3>2, Columns DEF IssueUserToken, HandleClientCredentialsGrant,
           LockAndReloadTokenClient, ActiveClient
      <3> QED
        BY <3>1, <3>2
    <2>3. n \in CurrentMemos(d)
      BY <2>2 DEF CurrentMemos
    <2>4. n.row = m.row /\ n.task = "token" /\ n.hash = d.client[n.row].secret
      OBVIOUS
    <2> HIDE DEF n
    <2>5. IssueUserToken(d, m, e) => IssueUserToken(d, n, e)
      BY <2>4 DEF IssueUserToken, LockAndReloadTokenClient
    <2>6. HandleClientCredentialsGrant(d, m, e) => HandleClientCredentialsGrant(d, n, e)
      BY <2>4 DEF HandleClientCredentialsGrant, LockAndReloadTokenClient
    <2>7. RevokeToken(d, m, e) => RevokeToken(d, n, e)
      BY <2>4 DEF RevokeToken
    <2>8. Completion(d, n, e)
      BY <1>4, <2>4, <2>5, <2>6, <2>7 DEF Completion
    <2> QED
      BY <2>3, <2>8
  <1>5. CASE m.task = "token"
    BY <1>4, <1>5 DEF Completion
  <1>6. CASE m.task # "token"
    <2>1. m \in CurrentMemos(d)
      BY <1>2, <1>3, <1>6 DEF Completion
    <2> QED
      BY <2>1
  <1> QED
    BY <1>5, <1>6

\* Requests in flight at once have the effect of requests served alone, one after another.
THEOREM PlaneImplementsSerial == Spec => ImplementsSerial
  <1>1. Init => Serial!Init
    BY DEF Init, Serial!Init
  <1>2. PlaneInv /\ [Next]_vars => [Serial!Next]_db
    <2> SUFFICES ASSUME PlaneInv, [Next]_vars, db' # db
                 PROVE  Serve(db, db')
      BY DEF Serial!Next
    <2>1. PICK r \in Requests : Finish(r) \/ FinishApart(r)
      BY DEF Next, vars, Begin, Show, TakeWriteLock, StepApart, Return, Abandon
    <2>2. CASE Finish(r)
      <3>1. req[r].view = db
        BY <2>2, WritersSeeTheNewest DEF Finish
      <3>2. Request(db, req[r].who, db')
        BY <2>2, <3>1 DEF Finish
      <3>3. req[r].who \in {None} \cup Present(db.cred)
        BY <3>2, RequestReach DEF PlaneInv
      <3> QED
        BY <3>2, <3>3 DEF Serve
    <2>3. CASE FinishApart(r)
      <3>1. req[r].memo \in Memos /\ Completion(db, req[r].memo, db')
        BY <2>3 DEF FinishApart, PlaneInv, RequestInv
      <3> QED
        BY <3>1, CompletionIsCurrent DEF Serve, PlaneInv
    <2> QED
      BY <2>1, <2>2, <2>3
  <1> QED
    BY <1>1, <1>2, PlaneInvHolds, PTL DEF Spec, ImplementsSerial, Serial!Spec
=============================================================================
