---------------------------- MODULE ControlPlane ----------------------------
(***************************************************************************)
(* Requests as transactions of one SQLite database in WAL mode (app/db).   *)
(*                                                                         *)
(* A transaction begins deferred: its first read takes a snapshot, its     *)
(* first write the writer lock, and the lock is refused to a transaction   *)
(* whose snapshot is no longer the newest.  What a request decides from    *)
(* its reads and what it writes are thus one step of the database,         *)
(* although other requests run in between.  A request that hashes gives    *)
(* its snapshot up first, and writes in a second transaction.              *)
(***************************************************************************)
EXTENDS ManagementViews

CONSTANTS
    Requests,    \* requests in flight (bound)
    MaxCommits,  \* transactions committed (bound)
    Start        \* the databases a history may begin with

VARIABLES
    db,       \* the committed database
    commits,  \* transactions committed so far: the version of db
    writer,   \* the request that holds the writer lock, or None
    req       \* of each request: the snapshot it reads, taken at which version, the
              \* credential it acts with, and the memo it carries between transactions

vars == <<db, commits, writer, req>>

Phases == {"idle", "reading", "writing", "apart", "finishing"}
Idle == [phase |-> "idle", view |-> None, seen |-> 0, who |-> None, memo |-> None]
InFlight ==
    [phase : Phases, view : Databases \cup {None}, seen : Nat,
     who : Credentials \cup {None}, memo : Memos \cup {None}]

-----------------------------------------------------------------------------
(* What holds of a database between transactions.                          *)

\* FOREIGN KEY constraints: a row that refers to another finds it.
References(d) ==
    /\ \A u \in Present(d.user) : d.user[u].org \in Present(d.org)
    /\ \A c \in Present(d.client) :
           d.client[c].userOrgs \cup d.client[c].machineOrgs \subseteq Present(d.org)
    /\ \A k \in Present(d.cred) :
           /\ d.cred[k].kind # "machine" => d.cred[k].user \in Present(d.user)
           /\ d.cred[k].kind # "browser" => d.cred[k].client \in Present(d.client)

\* Whoever holds a session opened it as what the account is now: active, verified, with
\* this role in this organization and this password.
CurrentAuthority(d) ==
    \A k \in Present(d.cred) :
        d.cred[k].kind # "machine" =>
            /\ d.user[d.cred[k].user] = d.cred[k].holder
            /\ Accessible(d.cred[k].holder)

\* What a token permits, its client may still be permitted.
WithinClient(d, k) ==
    LET row == d.client[d.cred[k].client]
    IN  /\ row.active
        /\ d.cred[k].scopes \subseteq row.scopes
        /\ IF d.cred[k].kind = "user"
           THEN /\ "authorization_code" \in row.grants
                /\ ClientAllowsUserOrganization(row, d.cred[k].holder.org)
           ELSE row.confidential /\ "client_credentials" \in row.grants
TokensWithinClients(d) ==
    \A k \in Present(d.cred) : d.cred[k].kind # "browser" => WithinClient(d, k)

\* A client's modes and assignments agree, and machine access has its grant.
ConsistentClients(d) ==
    \A c \in Present(d.client) :
        LET row == d.client[c]
        IN  /\ OrganizationAssignmentCountIsValid(row.userAccess, row.userOrgs)
            /\ OrganizationAssignmentCountIsValid(row.machineAccess, row.machineOrgs)
            /\ row.machineAccess # "none" => "client_credentials" \in row.grants
            /\ ValidClient(row.confidential, row.grants)

Sound(d) ==
    /\ d \in Databases
    /\ References(d)
    /\ CurrentAuthority(d)
    /\ TokensWithinClients(d)
    /\ ConsistentClients(d)

ASSUME ControlPlaneAssumption ==
    /\ None \notin Requests
    /\ MaxCommits \in Nat
    /\ \A d \in Start : Sound(d)

-----------------------------------------------------------------------------

Init ==
    /\ db \in Start
    /\ commits = 0
    /\ writer = None
    /\ req = [r \in Requests |-> Idle]

\* BEGIN and the first SELECT.
Begin(r) ==
    /\ req[r].phase = "idle"
    /\ commits < MaxCommits
    /\ req' = [req EXCEPT ![r] = [Idle EXCEPT !.phase = "reading", !.view = db, !.seen = commits]]
    /\ UNCHANGED <<db, commits, writer>>

\* Mutant: whatever has been committed since the snapshot.
TakeWriteLockAnytime(r) ==
    /\ req[r].phase = "reading"
    /\ writer = None
    /\ commits < MaxCommits
    /\ writer' = r
    /\ \E p \in Credentials \cup {None} :
           req' = [req EXCEPT ![r] = [req[r] EXCEPT !.phase = "writing", !.who = p]]
    /\ UNCHANGED <<db, commits>>

\* The first UPDATE, INSERT or DELETE.  Otherwise the transaction fails with SQLITE_BUSY:
\* at once if its snapshot is old, after busy_timeout if another request writes.
TakeWriteLock(r) ==
    /\ req[r].phase = "reading"
    /\ writer = None
    /\ req[r].seen = commits
    /\ commits < MaxCommits
    /\ writer' = r
    /\ \E p \in Credentials \cup {None} :
           req' = [req EXCEPT ![r] = [req[r] EXCEPT !.phase = "writing", !.who = p]]
    /\ UNCHANGED <<db, commits>>

Commit(r) ==
    /\ commits' = commits + 1
    /\ writer' = None
    /\ req' = [req EXCEPT ![r] = Idle]

\* The request decides on what it has read, writes, and its session commits.
Finish(r) ==
    /\ req[r].phase = "writing"
    /\ Request(req[r].view, req[r].who, db')
    /\ Commit(r)

\* rollback or commit before hashing: nothing the request wrote is kept, and the slide of
\* its browser session is lost with it.
StepApart(r) ==
    /\ req[r].phase \in {"reading", "writing"}
    /\ \E p \in IF req[r].phase = "writing" THEN {req[r].who} ELSE Credentials \cup {None} :
           \E m \in Departures(req[r].view, p) :
               req' = [req EXCEPT ![r] = [Idle EXCEPT !.phase = "apart", !.memo = m]]
    /\ writer' = IF writer = r THEN None ELSE writer
    /\ UNCHANGED <<db, commits>>

\* The second transaction begins with an UPDATE, and so on the newest rows.
Return(r) ==
    /\ req[r].phase = "apart"
    /\ writer = None
    /\ commits < MaxCommits
    /\ writer' = r
    /\ req' = [req EXCEPT ![r] = [req[r] EXCEPT !.phase = "finishing"]]
    /\ UNCHANGED <<db, commits>>

FinishApart(r) ==
    /\ req[r].phase = "finishing"
    /\ Completion(db, req[r].memo, db')
    /\ Commit(r)

\* A request that only reads is answered from its snapshot.
Show(r) ==
    /\ req[r].phase = "reading"
    /\ req' = [req EXCEPT ![r] = Idle]
    /\ UNCHANGED <<db, commits, writer>>

\* An error, a refused lock, a cancelled request or a stopped process: rolled back.
Abandon(r) ==
    /\ req[r].phase # "idle"
    /\ req' = [req EXCEPT ![r] = Idle]
    /\ writer' = IF writer = r THEN None ELSE writer
    /\ UNCHANGED <<db, commits>>

Next ==
    \E r \in Requests :
        \/ Begin(r)
        \/ Show(r)
        \/ TakeWriteLock(r)
        \/ Finish(r)
        \/ StepApart(r)
        \/ Return(r)
        \/ FinishApart(r)
        \/ Abandon(r)

Spec == Init /\ [][Next]_vars

-----------------------------------------------------------------------------
(* Properties.                                                             *)

\* Types, and every row that another refers to exists (app/db/models, ON DELETE CASCADE).
TypeOK ==
    /\ db \in Databases /\ References(db)
    /\ commits \in Nat
    /\ writer \in Requests \cup {None}
    /\ req \in [Requests -> InFlight]

\* The last accessible operator of the server, and the last accessible administrator of
\* an organization, cannot be deleted, demoted, moved, deactivated or unverified, not by
\* two requests at once either (app/identity/services/access_invariants.py).
AdministratorsRemain ==
    [][/\ AccessibleOperators(db) # {} => AccessibleOperators(db)' # {}
       /\ \A o \in Organizations :
              AccessibleAdministrators(db, o) # {} => AccessibleAdministrators(db, o)' # {}]_vars

\* Every live session is accepted where it is presented: a browser session or a bearer
\* token at the routes, and an OAuth2 token also at introspection.
SessionsAuthenticate(d) ==
    \A k \in Present(d.cred) :
        /\ IF d.cred[k].kind = "machine" THEN MachinePrincipal(d, k) ELSE UserPrincipal(d, k)
        /\ d.cred[k].kind # "browser" /\ d.client[d.cred[k].client].confidential
               => k \in Introspected(d, d.cred[k].client)

\* No live session carries an authority its account no longer has, whatever changed it
\* and however the change ran with the login or the exchange that opened the session
\* (app/identity/services/lifecycle.py, app/security/session_revocation.py).
\* What is no longer accepted is gone: the two authentications of a session, by the
\* routes and by introspection, agree on every session that is left.
SessionsCarryCurrentAuthority == CurrentAuthority(db) /\ SessionsAuthenticate(db)

\* A token issued on a client that was read, authenticated outside any transaction and
\* read again never exceeds what the client is allowed by then, and a policy that is
\* narrowed later takes its tokens with it (app/oauth2/clients/auth.py,
\* app/oauth2/clients/management).
CredentialsFitTheirClient == TokensWithinClients(db)

\* What e leaves alone of the organizations other than o, for whoever is no operator.
SparesOthers(d, o, e) ==
    /\ e.client = d.client
    /\ \A x \in Organizations \ {o} : e.org[x] = d.org[x]
    /\ \A u \in Users :
           /\ d.user[u] # None /\ d.user[u].org # o => e.user[u] = d.user[u]
           /\ e.user[u] # None /\ e.user[u] # d.user[u] => e.user[u].org = o /\ ~e.user[u].operator
    /\ \A k \in Present(d.cred) :
           d.cred[k].kind = "machine" \/ d.cred[k].holder.org # o => e.cred[k] = d.cred[k]

\* How far a request by p may reach, read from d: an operator everywhere; an administrator
\* within the organization, but not to an operator's account other than by deleting the
\* own one; a member to the own account; a machine client to the sessions of its
\* organizations.
WithinReach(d, p, e) ==
    IF d.cred[p].kind = "machine"
    THEN /\ e.user = d.user /\ e.org = d.org /\ e.client = d.client
         /\ \A k \in Present(d.cred) : e.cred[k] # d.cred[k] =>
                /\ d.cred[k].kind # "machine"
                /\ MachineClientMayAccess(d, d.cred[p].client, d.cred[k].holder.org)
    ELSE LET self == d.cred[p].user
             row == d.user[self]
         IN  row.operator \/
             /\ SparesOthers(d, row.org, e)
             /\ \A u \in Users \ {self} :
                    \/ e.user[u] = d.user[u]
                    \/ row.role = "admin" /\ (d.user[u] = None \/ ~d.user[u].operator)
             /\ row.role # "admin" =>
                    /\ e.org = d.org
                    /\ \A k \in Present(d.cred) : d.cred[k].user # self => e.cred[k] = d.cred[k]

\* Whose accounts p may know: an operator everyone's, an administrator those of the
\* organization, operators' too, a member the own one, and a machine client none.
AccountsInSight(d, p) ==
    IF d.cred[p].kind = "machine" THEN {}
    ELSE LET self == d.cred[p].user
             row == d.user[self]
         IN  {u \in Present(d.user) :
                \/ row.operator \/ u = self
                \/ row.role = "admin" /\ d.user[u].org = row.org}

\* Which clients p may know: an operator all, any other user those that are open to the
\* organization of the account, and a machine client none.
ClientsInSight(d, p) ==
    IF d.cred[p].kind = "machine" THEN {}
    ELSE LET row == d.user[d.cred[p].user]
         IN  {c \in Present(d.client) :
                \/ row.operator
                \/ d.client[c].active /\ ClientAllowsUserOrganization(d.client[c], row.org)}

\* Of organizations and sessions p sees those of the accounts it may know; an operator sees
\* all organizations.
WithinSight(d, p) ==
    LET accounts == AccountsInSight(d, p)
        everything == d.cred[p].kind # "machine" /\ d.user[d.cred[p].user].operator
    IN  /\ AccountsShown(d, p) \subseteq accounts
        /\ everything \/ OrganizationsShown(d, p) \subseteq {d.user[u].org : u \in accounts}
        /\ ClientsShown(d, p) \subseteq ClientsInSight(d, p)
        /\ SessionsShown(d, p) \subseteq UNION {SessionsOfUser(d, u) : u \in accounts}

\* Tenants are isolated: no request changes what lies beyond the organization and the
\* role of the account it acts for, and none that only reads is answered with it, through
\* either of the two sets of entry points.  A list of sessions names their clients whatever
\* these allow by now: that it names none closed to the organization rests on every
\* narrowing having ended its sessions (app/api/v1, app/web/management,
\* app/identity/services/organization_users.py, app/oauth2/user_oauth2_sessions).
TenantsAreIsolated ==
    [][\A r \in Requests :
        /\ req[r].phase = "writing" /\ req[r].who # None /\ commits' # commits /\ writer = r
               => WithinReach(db, req[r].who, db')
        /\ req[r].phase = "reading" /\ req'[r].phase = "idle"
               => \A p \in Present(req[r].view.cred) : WithinSight(req[r].view, p)]_vars

\* A request served alone: by the account of a session, or by whoever knows a password
\* or a secret that is current.
CurrentMemos(d) ==
    {[task |-> task, row |-> u, hash |-> d.user[u].hash] :
        task \in {"password", "login"}, u \in Present(d.user)}
        \cup
    {[task |-> task, row |-> c, hash |-> d.client[c].secret] :
        task \in {"rotation", "token"}, c \in Present(d.client)}
Serve(d, e) ==
    /\ e # d
    /\ \/ \E m \in CurrentMemos(d) : Completion(d, m, e)
       \/ \E p \in {None} \cup Present(d.cred) : Request(d, p, e)

\* Requests that run at once leave the database as some order of them would: nothing is
\* decided on rows another request has meanwhile replaced, and nothing overwritten unseen
\* (app/db/engine.py, app/oauth2/clients/management/support.py).
Serial == INSTANCE SerialControlPlane
ImplementsSerial == Serial!Spec
=============================================================================
