# A formal model of Zero Auth Lite

Zero Auth Lite is an authorization and identity server: a FastAPI application
and three worker processes that share one SQLite database in WAL mode. This
directory holds TLA+ specifications of its stateful protocols, the TLC
configurations that check them on small instances, and proofs, checked by
TLAPS, that their safety properties hold for every value of the constants.

Contents

 1. The system: components, state, operations, interactions, hard behaviours
 2. How code becomes TLA+: the conventions of all modules
 3. The modules
 4. The runs: questions, bounds, fairness
 5. The proofs
 6. Findings
 7. What is not modelled
 8. Plan

Paths are relative to the repository (`app/...`, `docs/...`).

## 1. The system

### 1.1 Processes and shared state

| process | entry point | writes |
|---|---|---|
| API and web server | `app/main.py` | every table, one transaction per request or per phase of a request |
| outbox worker | `app/notifications/worker.py` | `notification_outbox`, `workflow_token` |
| OAuth2 cleanup worker | `app/oauth2/cleanup_worker.py` | deletes token states, sessions, consumed refresh tokens, codes, transactions, device authorizations |
| browser-session cleanup worker | `app/browser_sessions/cleanup_worker.py` | deletes terminal browser sessions |

The processes share nothing but the database. There is no broker, no cache
and no lock service: coordination is SQL, conditional UPDATEs on the state that
was read, and SQLite's single writer. Inside the API server requests interleave
at every `await`; password hashing runs in a thread pool with **no transaction
open** (`docs/development/persistence-contracts.md`), so a request that hashes
is several transactions with anything in between.

### 1.2 Components

**Notification outbox** (`app/notifications`). State: one row per published
event with `claimed_by`, `claimed_at`, `available_at`, `attempts`,
`processed_at`, `failed_at`; and, in each dispatcher, the row it is working
on and a heartbeat task. Operations: publish with the business transaction,
claim in batches under a lease, renew the lease while delivering, build the
message, send by SMTP, finalize, reschedule with exponential back-off, fail for
good, delete old closed rows. Hard: any number of dispatchers, leases that lapse
under a living worker, a process that dies between SMTP and the UPDATE, a
finalize that fails after the mail went out, a cancelled dispatcher whose SMTP
thread goes on. Correct when: a recorded delivery was one; a stale worker never
touches a row it lost; closed rows stay closed; every row is eventually closed;
duplicates come from faults alone.

**OAuth2 token families** (`app/oauth2/tokens`, `app/oauth2/maintenance.py`,
`app/oauth2/clients`). State: `oauth2_session` (the family), `oauth2_token_state`
(current access and refresh hashes, deadlines), the history of consumed refresh
tokens, the client (policy, secrets, deletion), the user. Operations: issue,
rotate, detect reuse, revoke (by token, session, user, organization, client),
change a client's or a user's standing, clean up in batches. Hard: a token
request reads, releases its snapshot, verifies a secret outside any transaction
and writes later; two requests present one token; a replay after cleanup;
a cleanup cutoff taken once and used by later batches; a drain loop that must know when
nothing is left. Correct when: a token is
redeemed once; a replay ends its family and a lost race does not; nothing is
issued on stale standing; no live family is purged and every dead one is.

**Workflow tokens and identity links** (`app/workflow_tokens`,
`app/notifications/builder.py`, `app/identity/services/lifecycle.py`,
`email_lifecycle.py`). State: addresses of a user with status and
verification, the invitation, the password, `sessions_invalid_before`, outbox
events, tokens. Operations: request a reset, a verification, an invitation;
issue or renew the link when the outbox worker builds the message; preview,
hash, consume; change, replace, propose, promote addresses; change a password;
deactivate and reactivate. Hard: events are built in any order and long after
they were published; a password link is previewed in one transaction and used in
another. Correct when: a link works once, the newest of its kind wins, a link
that predates a password change is dead, a link's target still exists, no
password change is silently lost; and nothing that happens to one user moves the links
of another.

**Device flow** (`app/oauth2/devices`). State: device authorizations with
status, user, client, poll interval, last poll. Operations: create, decide,
poll (with pacing and `slow_down`), exchange, cleanup. Hard: a token request is
three transactions (authenticate the client, poll, exchange); two polls at
once; a decision and a deletion between them.

**Authorization code flow** (`app/oauth2/authorization`, `app/web/auth/consent.py`).
State: authorization transactions (handles of a request that waits for login or
consent) and authorization codes. Operations: authorize, continue after login,
decide on consent, exchange, cleanup. Hard: the handle is picked up by a browser
that need not be the one that began; policy changes between the consent page
and the decision; the two lifetimes.

**Browser sessions** (`app/browser_sessions`). State: session rows with an
idle deadline that slides, an absolute one and a revocation time. Operations:
login with a compare-and-swap on the identity read before hashing, an overflow
rule per user, authentication of every request with a slide, logout,
revocation by every security event, cleanup. Hard: login races a password
change; a slide races a revocation; two lifetimes and a limit meet at their
boundaries; a cleanup pass keeps one cutoff through many transactions. Correct when:
an ended session never authenticates again; whoever acts has given the current password;
a user has no more valid sessions than allowed, and only the oldest give way; a pass
leaves nothing terminal.

**Identity lifecycle and access invariants** (`app/identity`). Users,
organizations, memberships and roles; create, change and delete by an operator, by an
administrator within one organization, by the user, by registration and by a link
from a mail. Hard: two requests that each count the other's target as the administrator
who remains (`app/identity/services/access_invariants.py:25`); a change of standing that
races the login or the token exchange it should have barred. Correct when: the last
operator and the last administrator of an organization stay; a change ends every
session opened under the old standing.

**Client management and client credentials** (`app/oauth2/clients`). State: clients
with their grants, scopes, secret, activity and two organization policies.
Registration, replacement, secret rotation, organization access, deletion; each also
revokes the families that the change no longer allows. A client is authenticated outside
any transaction and read again when the token is issued. Correct when no token
exceeds its client.

**Principals, permissions and entry points** (`app/security`, `app/oauth2/principal.py`,
`app/api/v1`, `app/web`). Who a cookie or a bearer token stands for, and what the guards
of a route and the check of the service admit. Two sets of entry points, the JSON API and
the management pages, with different guards, share the services. Correct when no
entry point changes or shows what lies beyond the account's organization and role.

**SQLite transaction layer** (`app/db`). Deferred `BEGIN`, WAL snapshots, one
writer, `busy_timeout`. Correct when a transaction that read before it wrote
fails instead of overwriting a commit it did not see.

**Workers and shutdown** (`app/core/worker.py`, the three worker entry points),
**introspection** (`app/oauth2/tokens/introspection.py`), **OIDC and signing keys**
(`app/oauth2/oidc`), **password hashing** (`app/password`), **mail** (`app/mail`),
**bootstrap and migrations** (`app/bootstrap`), **settings** (`app/settings`): see
`PROJECT.json` for the status of each and section 7 for the reasons.

### 1.3 How components interact

    identity lifecycle --publishes--> outbox rows --built by--> workflow tokens --mail--> user
            |                                                        |
            | sessions_invalid_before, revocation                    | confirmation
            v                                                        v
    browser sessions, token families <------ passwords, addresses, activation
            ^
            | Issue
    authorization code flow, device flow, client credentials <-- client management
                                                                       ^
    routes and pages --guards--> services of users, organizations, sessions, clients

Every arrow is a write to the shared database in the transaction of its source,
except "mail". Cleanup workers read and delete behind all of them.

## 2. How code becomes TLA+

**One action, one committed transaction.** A handler that runs in one
transaction is one action, with every flush, trailing revocation and cleanup it
performs. A handler that releases its transaction, to verify a secret or hash a
password, is one action per transaction, and what it carries across is a variable
of the request (`pc`, `client`, `seen`, `family`, ... in `TokenFamily`; the
records of `request` in `WorkflowTokens`). Everything else may happen in between.

That a transaction may be one step rests on the database: a transaction that
reads first and then writes fails with SQLITE_BUSY_SNAPSHOT if another one
committed after its snapshot, and one whose first statement writes sees the
latest commit and holds the writer lock (`app/db/engine.py:20-68`,
`docs/development/persistence-contracts.md:26-40`). A committed transaction
therefore has the effect of running alone at its commit. A transaction that fails
or is rolled back changes nothing and is not an action, except where the failure
itself has consequences (the outbox).

**Time.** Deadlines are compared in ticks of a `Tick` action. `NotificationOutbox`
keeps the ticks that remain, so that the model is finite without a bound on the
clock; the other modules keep a clock that stops at `MaxNow`.

**Data.** Tokens, secrets and passwords are versions or identities: hashing is
injective, a random token is never guessed. Names, URIs, scopes and messages are
dropped where no property depends on them; a client's policy is reduced to
whether it permits the family or grant at hand.

**History variables** ("history" in the declarations) record what happened and
are read by no guard of the program. They exist so that a property can speak of the
past: how often a token was redeemed, when a device last polled.

**Bounds** are the constants called `Max...` and the sets of rows "ever
inserted"; each is marked "(bound)" where it is declared and stops an
environment action, never a step of the program that is under way.

Where a module leaves deadlock checking on, the clock or the outbox always has a
step. In the two flow modules every actor may run out of its bounds, so their
configurations say `CHECK_DEADLOCK FALSE`.

## 3. The modules

| module | role |
|---|---|
| `NotificationOutbox` | the outbox: producers, dispatchers, leases, heartbeats, SMTP, faults |
| `OutboxContract` | what the outbox promises its producers, without workers or time |
| `TokenFamily` | token endpoint, revocation, policy changes, OAuth2 cleanup |
| `TokenAuthority` | what a family promises: authority granted once, renewed by its newest token, ended for good |
| `WorkflowTokens` | identity links and the identity changes that invalidate them |
| `IdentityLinks` | what links promise: one that works per purpose and address, confirmed once, ended by a new password |
| `DeviceFlow` | device authorizations, polling, decisions, exchange |
| `AuthorizationFlow` | authorization handles, consent, codes, exchange |
| `OneTimeGrant` | what both interactive grants promise |
| `BrowserSession` | login, requests, logout, security changes, cleanup of browser sessions |
| `PasswordSessions` | what they promise: opened on the password in force, limited, ended for good |
| `IdentityDatabase` | the rows the control plane decides on; principals, guards, access invariants, writes |
| `ManagementServices` | its services: users, organizations, sessions, clients, the own account, login and tokens |
| `ManagementRoutes` | the entry points of the API and of the pages, and what each may change |
| `ManagementViews` | what each entry point may show |
| `ControlPlane` | requests as deferred transactions over one database |
| `SerialControlPlane` | what that promises: requests served one at a time |
| `MC*` | instances for TLC: values of the functions among the constants, symmetry |
| `*Proofs` | theorems about the module they extend |

### NotificationOutbox

`status`, `owner`, `lease`, `wait`, `attempts`, `result`, `retain` are the columns
of `notification_outbox`; `pc`, `job`, `outcome` say where a dispatcher
is; `hb`, `beat` are its heartbeat task. `Publish` is `publisher.py`; `Claim` the claiming
UPDATE of `lease.py`; `Heartbeat` the renewal loop and `HeartbeatDies` its end at the
first exception; `Build`, `SendAccepted`, `Finalize` and `Reschedule` are the parts of
`dispatcher.py` between its awaits, each with its failing twin (`BuildFails`,
`SendFails`, `FinalizeFails`, `RecordFails`). `Die` is a crash or a stop at the shutdown
deadline, `OrphanThreadEnds` the SMTP thread that outlives a cancelled dispatcher. A worker whose settings disable mail closes rows as
`discarded_email_disabled`.

`OutboxContract` has the state of a row and the set of rows whose message was accepted.
`ImplementsContract` maps the columns onto it.

### TokenFamily

`session` is `oauth2_session`, `states` the rows of `oauth2_token_state`, `gen`,
`deadline` and `access` its columns, `history` the consumed refresh tokens. A
refresh token is a pair of a family and a generation: generation n+1 replaces n. A
request authenticates its client (`AuthenticateGrant`, `AuthenticateRefresh`), reads the
family of the presented token (`LoadFamily`), and then rotates by compare-and-swap
(`Rotate`), ends the family in a transaction of its own if it saw a replay or an expiry
(`RevokeReused`, `Expire`), or issues a new family (`Issue`). Revocation by token, session, user, organization and client, policy narrowing,
secret rotation and the batches of `maintenance.py` are actions.

`TokenAuthority` has no requests, clients or cleanup: `ImplementsAuthority` says that
whatever those do is granting, renewing, or ending. `MayHaveMore` is the test by which
the drain loop asks for another batch: whether one of the two statements of a batch was
full.

### WorkflowTokens

`status` and `verified` are the `user_email` rows, `event` the payload and time of each
published identity event, `token` its `user_workflow_token` row. Event ids are
ordered numbers because the code breaks ties of time by id. `Issue` and `Renew` are
what the outbox worker's builder does when it renders a message, at any time and any
number of times. `Preview` and `SetPasswordByLink`, `BeginPasswordChange` and
`ChangePassword` are the two phases around the hashing of a password. A request
that updates several fields of a user is several steps here; the code commits them
together, so the model allows more states, not fewer.

`IdentityLinks` has a phase (requested, live, confirmed, void) and a subject for each link, and
a count of passwords for each user; it knows no rows, token states, request times, previews or
workers. `ImplementsLinks` maps an event to its link: requested once it is published, live
while its token is active, confirmed once the token was used for what it is for, and void when
the token was spent otherwise (replaced, or invalidated with others) or the link was
overtaken by a password change, a deactivation or the retirement of its address (`outdated`).

### DeviceFlow and AuthorizationFlow

Both end in the exchange that opens a token family, in one transaction with the
consumption of the grant. A device's token
request is `Authenticate`, one of the `Poll...` actions and `Exchange`; the authorization
flow has a handle (`OpenHandle`, `Bind`, `Continue...`, `Decide...`) before the code. The
registry of clients and users (`policy`, `secret`, `admits`, `account`) changes at
any point within `MaxChanges`.

`OneTimeGrant`: one user takes a grant, it is that user's for good, it becomes at most
one session and the session is that user's. `DeviceFlow` maps a code to it by the
stage of its row; `AuthorizationFlow` maps handle and code together, a grant being
held from the moment the handle is bound to a user.

### BrowserSession

`session` is the table, a record per row with its columns; `hash`, `address`, `account` and
`invalidBefore` are what `user` and `user_email` say of a user; `login` is what a login
request carries while it verifies a password; `cutoff` belongs to the cleanup pass
under way. `BeginLogin` is the read and the verification, `Login` the transaction: the
conditional UPDATE of `_lock_if_login_state_unchanged`, the insertion and the deletion of
what exceeds the limit (`Kept` leaves open what the code leaves to random public ids: which
of several sessions created at the same time stays). `Use` is a request through
`_resolve_browser_user_context` with its slide; a handler that does more is `Use`
and a further action, which allows more interleavings than the one transaction of the
code. `Logout`, `LogoutOthers` and `LogoutAll` are the three scopes, which look at the session
but not at its user. `Secure` is `SecuritySessionRevocationService` for any set of users and
part of every change of a user. `StartPass` and
`CleanupBatch` are the drain loop, `CleanupFails` an error or a stop between two batches.

An active user with a verified address is `eligible`; the two reasons not to be are one
value, since every guard asks for both.

`PasswordSessions` has no rows, deadlines, logins or cleanup. `ImplementsSessions` maps a session
to *live* exactly when a request could act through it now (`Usable`: open, before both
deadlines, of an eligible user, opened after `sessions_invalid_before`), for its owner and
on the password it was opened with. All that can make it unusable is `End`; there is no
action that makes it live again, so the mapping claims that none of the five conditions
ever comes back for an old session. A session that is inserted in the tick of a security change is a
`Miss`: it never lives.

### The control plane: IdentityDatabase to ControlPlane

The other modules follow one protocol each, with transactions as atomic actions. The
control plane is where they meet: the administration of users, organizations,
clients and sessions changes what every session rests on. Its five modules are layered like
the code, and only the last has variables. A *database* `d` is a record of four tables:
`user` (with the membership and the verification of the current address), `org`,
`client` (with both organization policies and their assignments) and `cred`, the live
sessions: browser sessions, token families of users and of machine clients. `holder` is
history: the user's row at the moment the session was opened.

`IdentityDatabase` translates `app/db/models`, `app/security` and the access invariants: who
a credential stands for (`BrowserPrincipal`, `BearerPrincipal`, `MachinePrincipal`), what it
permits (role permissions, for a bearer token intersected with its scopes), the guards
(`RequireOperatorPermission`, ...), `ProtectUpdate` and `ProtectDelete`, and every write with
the sessions it ends. `ManagementServices` has one predicate `Service(d, p, e)` for each
service: principal `p`, deciding on `d`, leaves `e`. `ManagementRoutes` combines each
service with the guards of the API route and of the page that call it, `ManagementViews`
does the same for what is read. What answers show is collected by table: a session
that is listed also shows the user, the organization and the client it belongs to, a profile
shows its organization, and the consent page and the two interactions of the JSON API
(authorization, device) show the client the user was sent by. `ControlPlane` runs requests:

- `Begin` is `BEGIN` with the first SELECT: the request keeps a snapshot and its version.
- `TakeWriteLock` is the first write. It needs a free writer lock and a snapshot that is
  still the newest (otherwise SQLITE_BUSY_SNAPSHOT, and the request can only `Abandon`).
- `Finish` decides on the snapshot, writes and commits; `Show` answers from the snapshot.
- `StepApart` gives the transaction up to hash, carrying a memo (`PasswordMemo`, `LoginMemo`,
  `RotationMemo`, `TokenMemo`: the row and the hash that were read); `Return` begins a second
  transaction with a write and so on the newest rows, and `FinishApart` completes it by
  comparing the memo with them.
- `Abandon` is any error, cancellation or crash.

`SerialControlPlane` has one variable, the database, and one action: some request, served
alone, changes it. The operator that says which is a constant, so that the module knows
nothing of snapshots or locks.

Three points where the code may surprise: an organization-wide revocation by an
administrator also ends the sessions of operators who are members, while a page that
names a user does not reach operators, although the lists show them; the routes under `/me` that write accept browser
sessions only; and logging out works whatever has become of the session's account.

## 4. The runs

All pass runs were explored completely. Sizes are distinct states.

| run | instance | states | properties |
|---|---|---|---|
| `outbox_any_schedule` | 2 workers, 2 rows (one poisonous), 2 faults | 298,500 | `TypeOK`, `LiveClaimEndsOnlyByHolder`, `ClosedRowsAreFinal` |
| `outbox_timely` | 3 workers (one without mail), 2 rows (one poisonous), 2 faults, fair | 374,373 | `OneDeliveryAtATime`, `DuplicatesNeedFaults`, `ImplementsContract` |
| `family_requests` | 1 family, public client, 2 requests, 2 rotations | 359,668 | `TypeOK`, `ReplayEndsFamily`, `LosersSpareTheFamily`, `ImplementsAuthority` |
| `family_worker` | a user's and a machine's family, confidential client, 1 request, fair cleanup | 407,034 | `AuthorityIsBacked`, `IssuanceIsFresh`, `CleanupSparesLiveFamilies`, `PurgesAreComplete`, `DeadFamiliesArePurged` |
| `links_addresses` | 1 user, 3 address rows, 2 events, 1 request | 0.69 M | `TypeOK`, `NewestLinkWins`, `WorkingLinksHaveATarget`, `ImplementsLinks` |
| `links_passwords` | 2 address rows, 2 events, 2 requests, 2 passwords | 1.5 M | `SpentLinksStayDead`, `InvitationsOnlySetFirstPasswords`, `NoLostPasswordChange` |
| `device_flow` | 1 code, 2 clients, 2 users, 2 requests | 705,377 | `TypeOK`, `IssuanceIsCurrent`, `PendingIsPaced`, `ImplementsGrant` |
| `code_flow` | 1 flow, 2 clients, 2 users, 2 requests | 1,207,468 | `TypeOK`, `FlowsAreBrief`, `ImplementsGrant` |
| `browser_sessions` | 3 sessions of 1 user, limit 2, 1 login, cleanup pages of 2 | 858,296 | `TypeOK`, `EndedSessionsStayEnded`, `OldestSessionsGiveWay`, `PassesAreComplete`, `ImplementsSessions` |
| `control_plane` | 3 users, 2 organizations, 1 client, 6 sessions, 2 requests, 2 commits | 156,784 | `TypeOK`, `SessionsCarryCurrentAuthority`, `CredentialsFitTheirClient`, `AdministratorsRemain`, `TenantsAreIsolated`, `ImplementsSerial` |
| `device_denial` | as `device_flow` | violation | `DenialIsReported` (section 6) |
| `code_denial` | as `code_flow` | violation | `DenialsIssueNoCode` (section 6) |

### What they show

*Outbox.* `LiveClaimEndsOnlyByHolder`: while a lease is live, only its holder's own step ends
the claim or closes the row. `ClosedRowsAreFinal`: a closed row keeps its outcome
until retention removes it, although `_reschedule` never looks at `processed_at`.
These hold
under any schedule, so with leases that lapse under living workers. With heartbeats
served in time, `OneDeliveryAtATime`: two processes are inside the delivery of one row
only if the heartbeat task of one has died; `DuplicatesNeedFaults`: every duplicate is
paid for by a fault. `ImplementsContract`: every published row is eventually closed, also
behind a row whose payload can never be delivered. Rows that fail for other reasons do so
finitely often in this run.

*Families.* `ImplementsAuthority`: a family is authority that is granted once, renewed by handing
in its newest token, each token once, and ended for good. `ReplayEndsFamily`: once
a request was told that its token is not current, the family is not live, through
every rotation, cleanup and revocation in between. `LosersSpareTheFamily`: a request
that was not told so (it lost the rotation race) ends no family before its deadline.
`AuthorityIsBacked`: a live family's client permits it and its user is eligible.
`IssuanceIsFresh`: tokens are issued under the secret that is current at the commit, to a
family that is not past its deadline. `CleanupSparesLiveFamilies` and
`DeadFamiliesArePurged`: cleanup takes nothing of a live family and all of every dead one.
`PurgesAreComplete` is the safety half of the latter: when a pass ends of itself, every
family that is left still has its authority and a deadline after the cutoff, also if others were
revoked or replayed between its batches.

*Links.* `NewestLinkWins`: of the links mailed for one purpose to one address only the
newest can work, whatever the order in which they were built.
`WorkingLinksHaveATarget`: a working link belongs to an active user's address in the
status its purpose needs. `SpentLinksStayDead`: no two confirmations of a link commit; a
password link requested before a password change or a deactivation, and every link to a
retired address, is never confirmed.
`InvitationsOnlySetFirstPasswords`: an invitation never replaces a chosen password.
`NoLostPasswordChange`: of two changes that start from one password one fails.
`ImplementsLinks`: all of the tables, builders and requests amount to `IdentityLinks`. That
adds what the invariants do not say: a link keeps purpose and address however often it is
rendered, one that is void never works again, and the commit that sets a password ends
*all* open password links of the user, those not yet mailed included. The instance
has one user; that other users' links stay as they are is what the theorem adds. (It
also holds on the instance of `links_passwords`, where it takes too long to be in every run.)

*Flows.* `IssuanceIsCurrent`: a device session rests on the client, its secret, its
organizations and the user as they are at the commit. `PendingIsPaced`: the answer
`authorization_pending` keeps the interval plus every `slow_down` ever answered, to
whichever request. A poll is one action, because its first statement takes the writer lock. `FlowsAreBrief`: no session comes of an authorize request made
two lifetimes ago or earlier. `ImplementsGrant`: both flows are one-time grants.

*Browser sessions.* `EndedSessionsStayEnded`: no slide, login or change of the user revives
a session that was revoked, displaced or past a deadline.
`OldestSessionsGiveWay`: no user has more valid sessions than
allowed, and a valid session is deleted only by an administrator or when as many at least as new fill the
limit; in particular no cleanup page holds one.
`PassesAreComplete`: when a pass ends of
itself, all that is left was valid at its cutoff. `ImplementsSessions`: what can act is what
`PasswordSessions` promises: whoever acts has given the user's current password, so a login that
races a change leaves nothing behind. It also covers the row that is still
listed but cannot act (its user was deactivated, or it was inserted in the tick of a security
change): it does not act again when the user is reactivated, and a session that can act gives way
to a new one only when the limit is filled by others that can. Again the instance has one user, and the
theorem says the same of any number.

*Control plane.* `AdministratorsRemain`: no step takes the last accessible operator, or the
last accessible administrator of an organization, whatever two requests read at once.
`SessionsCarryCurrentAuthority`: the account behind a live session is exactly what it was
when the session was opened (role, organization, operator flag, password, activity,
verification), so every change of standing has ended what was opened before, a login or an
exchange that was under way included; and the routes and introspection, two separate
implementations, both accept every session that is left. `CredentialsFitTheirClient`: a
token's scopes, grant and organization are within what its client allows now. `TenantsAreIsolated`: a
commit changes nothing, and an answer holds nothing, beyond the organization and role of
the account it acts for, through any of the entry points; an administrator changes no
operator's account but the own one. Of the clients, a user who is no operator is shown only
those that are active and open to the own organization, although the list of the own OAuth2
sessions, and an administrator's list of the organization's, name the client of each session
without asking: that none of them is inactive or closed rests on every narrowing having ended
its sessions. A machine client is shown nothing. `ImplementsSerial`: every commit is one that
some request could have made alone on the database its predecessors left.

`TypeOK` of each module also contains the row constraints of the tables (the CHECKs of
`notification_outbox`, one current address per user, a decided code names its user, an
access token never outlives its family, no slide exceeds the absolute deadline, every
foreign key of the control plane's tables).

Each property has a mutant in `PROJECT.json`: a definition changed the way a plausible
bug would change it (a dropped comparison, a lost filter, a missing reset), with which
TLC finds the property violated. The operators whose comment begins with "Mutant" serve
only that and are used by no action.

### Why the bounds are enough

- Two contenders: every race in this code is between a reader that acts on an old
  snapshot and one writer, decided by a conditional UPDATE; a third contender meets a
  row that has already changed. The outbox run with three workers covers takeover
  of a takeover.
- Two rows in the outbox distinguish "lowest id first" from "any"; a cleanup batch
  of one row makes every pass need several batches, exactly full ones included.
- Two rotations give a token that was replaced twice; three address rows a
  current, a pending and a retired one.
- Three sessions under a limit of two let a login choose which of two to displace; lifetimes
  of 2 (slide), 3 (idle) and 4 (absolute) ticks tell slid, idle and absolute expiry apart.
- The clock passes every deadline at least once after every event that sets
  it (each configuration has a comment).
- The control plane begins either with an empty database (bootstrap, registration, the
  first administrators) or with one that has what its rules tell apart: an operator who is also an
  administrator, an administrator who is not an operator, an operator of another
  organization, a client of both with a user's token and its own, a browser session of
  each of the three, and one vacant session. Two commits are a
  conflicting pair: each rule of this component is broken, in its mutant, by one commit or by two
  that overlap. The limit of one browser session makes every second login displace one.
- Two faults let a fault hit the recovery from a fault.
- Constants that the proofs leave arbitrary are arbitrary in the theorems: for the
  safety properties the bounds matter only to TLC.

### Fairness

`outbox_timely` assumes weak fairness of each dispatcher's start, of its steps, of
its heartbeat, and of the clock. Steps and heartbeats are justified by asyncio and the
operating system; a start by the operator or supervisor that restarts a dead worker
(`docs/operations/outbox-worker.md`: deliveries are "retried when it returns";
`compose.yaml` sets no restart policy, so this is an assumption on operations). Faults
are finitely many, and publishing is not fair. One strong fairness is added, for a worker that
records a permanent failure while it owns the row: no heartbeat keeps the lease during that
UPDATE, because the delivery has ended, and without the assumption TLC finds a behaviour in which
the lease lapses before the UPDATE each time, so that a poisonous row is claimed for ever. The
UPDATE follows the failure at once and a lease lasts at least ten seconds
(`app/notifications/settings.py:13`), so it does not come late every time.

`family_worker` assumes weak fairness of starting a cleanup pass and of the clock,
and strong fairness of a batch: a batch is retried by the next pass, and it may be
disabled and enabled again by the pass that ends with an error. Nothing else is
fair: no user, client or request is forced to do anything.

The other runs check safety and state no fairness. `control_plane` says `CHECK_DEADLOCK FALSE`
because the bound on commits ends every behaviour.

## 5. The proofs

Each `*Proofs` module extends its component and proves, with no bound on the size of
the constants, `Spec => []Inv` for the invariants and `Spec => Property` for the action
properties. `Spec` carries no fairness, so the results hold for `FairSpec` too. Their
assumptions are the ASSUME of each module (types of the constants, `None` outside
their sets, finiteness where something is counted), which TLC evaluates on every run.
Nothing else is assumed.

**`NotificationOutboxProofs`.** `Inv` adds to `TypeOK`: which parts of a worker's
state belong together (a job exactly between claim and poll, a heartbeat only while
delivering), that a job is a published row, that an outcome "delivered" is held only after
the mail, and, under `Timely`, that the holder of a row whose heartbeat lives has a lease
longer than the time to its next beat; that makes two healthy holders of one row
impossible (`ExclusiveDelivery`). `DuplicatesExplained` needs an account (`Budget`): for
each row, the mails accepted plus the processes that may still have one accepted are at most
1 + faults, and at most faults while the row is open and no delivery with a living
heartbeat owns it, that is, whenever somebody could claim it anew. `ContractSafety` is the refinement without
its fairness.

**`TokenFamilyProofs`.** Every step either shrinks the set of live rows, inserts one
absent family, or rotates one current family (`RowSteps`); all invariants are proved
against these three shapes. `FamilyInv` says: a request presents a token that was issued,
and one that was found replaced is not current; the generations below the current one are
exactly those redeemed, and a live family's are all in the history; a rejected token's
family is dead; and a cutoff lies in the past. `AuthorityBacked`, `SingleRedemption`, `ReplayIsFatal`, `LosersAreHarmless`,
`IssuedFresh`, `CleanupIsSafe` follow; `FamilyIsAuthority` is the refinement.
`PurgesComplete` needs a count: a batch that is not full is all of its candidates
(`LastPage`), so if neither statement of a batch was full, nothing that the cutoff selects is
left after it (`LastBatch`).

**`WorkflowTokensProofs`.** `IInv` conjoins `TypeOK`, `NewestLinkWins` and
`WorkingLinksHaveATarget`, which are inductive together, with: a token exists only for
a published event, times lie in the past, a used link is no longer active and was
used once, an outdated link is barred (its token is dead, or the conditions of its issue can
never hold again), and a user whose invitation is pending has chosen no password. The
lemmas `Shapes`, `Confirmations`, `Targets` and `Outdated` say what a step may do to the
part each invariant is about. The refinement `TokensAreLinks` rests on the same invariant:
`PhaseAfter` shows that a link which a step does not confirm is void if the step outdated it and
stands as before otherwise, `LostLinks` that what is outdated was open and belongs to the user
the step is about, and `RequestStep`, `MailStep`,
`ConfirmStep`, `PasswordStep` and `VoidStep` match the five abstract actions.

**`DeviceFlowProofs`.** `FlowInv` says that a request holding an approved snapshot names the
user who decided and the client that polled, and that the row can only be used or deleted
since; that a code has opened no session unless it is used, and then one for its
owner; and that the row remembers the last poll and every `slow_down` lengthened its
interval. `DeviceIsGrant` maps each row's
stage to the phase of its grant.

**`AuthorizationFlowProofs`.** Every step leaves a flow alone, deletes rows, advances one
interaction, or exchanges one code. The invariant says that an unborn handle is bound to nobody, that
handle and code expire within one and two lifetimes of the start of the flow, that a code
excludes an open handle and names a user, and that there is no session before the code is
used. `FlowsBrief` and `FlowIsGrant` follow.

**`BrowserSessionProofs`.** Every step ends sessions or leaves them alone (`Ending`), or is
a request, a login or a tick (`StepKinds`). `SessionInv` says of every row that its
times are in order, that its expiry is between `slide_seconds` and `ttl_seconds` after its
last request or at the absolute deadline (`IdleSessionsTimeOut`), that an open one was
opened with the current password, that what ended is not valid, and that a pass began in
the past. A login opens one session and keeps the user's others that `Kept` allows
(`LoginOpens`); counted with the theorems on finite sets, that gives `SessionsLimited` and
`OldestGiveWay`, and a page that is not full is all of its candidates (`PassesComplete`).
For the refinement `BrowserIsSessions`, `Ending` also says that a user whose account, password or
`sessions_invalid_before` changes has no open session left afterwards; so a session that is
usable after a step was usable before, with the same owner and password, unless a login has just
opened it (`EndingLasts`, `TimeLasts`, `LoginLasts`). `LoginUsable` settles the limit: the
sessions a login keeps are at least as new as those it deletes, so if one that is deleted
could act, all that are kept can.

**`ControlPlaneProofs`.** `Sound(d)` says that a database satisfies its foreign keys, that
sessions carry current authority, that tokens are within their clients, and that a client's
modes, assignments and grants agree. Each write is first described as equations between
the tables of `d` and `e` (`UserWritten`, `ClientWritten`, `Ends`, `Opened`, ...), then shown
to keep `Sound`, and from there each service and each request (`RequestKeeps`,
`CompletionKeeps`). For the administrators, `CountedMoreThanOne` turns the count of the code into
another user who remains. `RequestReach` bounds what a request changes, `ViewsStayInSight` what
it is shown; that the client of a listed session is in sight follows from `Sound`, not from a
guard. The inductive invariant `PlaneInv` has nothing to say of the database but
that it is sound; of the requests it says that every snapshot is sound, that a snapshot
with the newest version *is* the newest database, and that a request that writes holds
the lock on such a snapshot. The refinement needs one fact more: a completion that compares its
memo successfully would have succeeded for somebody who presented what is current now
(`CompletionIsCurrent`). Assumed are `IdentityDatabaseAssumption` (finitely many users for the
counts; rows are not `None`), `ManagementServicesAssumption` (a positive session limit) and
`ControlPlaneAssumption` (the history begins with sound databases, which TLC evaluates for those
of the run).

**Proved, and not listed in a run.** `DeliveredIsTrue` (a row closed as delivered was accepted
by SMTP), `IdleTimeOut` and `SessionsLimited` are steps on the way to other theorems.
`SingleRedemption` (no refresh token is exchanged twice), `SingleUse` (no link is confirmed twice)
and `UsableAreCurrent` (a session that can act was opened with the current password) follow from
the inductive invariants in a line; the runs check what is stronger, `ImplementsAuthority`,
`SpentLinksStayDead` and `ImplementsSessions`.

**Only model-checked.** Liveness: the fairness half of `ImplementsContract`, and
`DeadFamiliesArePurged` (its safety half is `PurgesComplete`). The two violated properties have counterexamples, not proofs.

## 6. Findings

**A denied device code is reported as invalid** (`device_denial`, documentation against
code). The cleanup worker deletes denied device authorizations at its next pass,
whatever their expiry (`app/oauth2/maintenance.py:137`); the next poll finds no row and is
answered `invalid_grant` (`app/oauth2/devices/polling.py:95-96`), where
`docs/guides/oauth2-device-flow.md:39-41` promises `access_denied` for a denial. Trace:
`CreateCode`, `Authenticate`, `Decide` (deny), `Cleanup`, `PollRefused`.

**A denial is ignored when consent is no longer required** (`code_denial`, code).
`authorize_validated` looks at the user's decision only if the client requires consent at
the moment of the decision (`app/oauth2/authorization/request.py:196`). If an operator
turns consent off while the page is open, an explicit "deny" issues an authorization code;
`docs/reference/oauth2-errors.md:18` says a denied decision redirects with
`access_denied`. Trace: `AuthorizeForConsent`, `ReplaceClient`, `DecideAccepted` with "deny".

## 7. What is not modelled

- *Cryptography and encodings*: password hashing, token derivation, signing, JWTs,
  PKCE verifiers, cookies and CSRF tokens. Hashing appears as the gap between two
  transactions.
- *Checks that only reject*: redirect URIs, scopes, form validation, client metadata. A
  rejected request rolls back.
- *The database engine.* Transactions are atomic actions (section 2). Disk failures
  and WAL recovery are SQLite's. Three properties therefore do not exercise what makes their
  transaction atomic: that a poll takes the writer lock before it reads
  (`app/oauth2/devices/polling.py:88`), that a slide fails if a revocation committed after
  its check, and that an exchange which fails leaves its code unused. Snapshots, the lock and
  refusals are modelled in `ControlPlane`, once for all requests.
- *Settings* are constants; a restart with other settings is out of scope. So are
  the rotation of the token-derivation key and the upgrade of a secret's hash.
- *Grants inside `TokenFamily`*: a grant other than refresh opens a family without saying
  what was consumed; the flow modules say it, and their sessions are counted rather
  than followed. The composition is by the shared exchange transaction, not by a module.
- *Uniqueness of addresses between users*: a row that takes an address another user
  holds is refused by an index.
- *HTTP, rendering, mail templates, migrations*; of the bootstrap the file lock.
- *Cookies and CSRF* of browser sessions: they decide which request comes through, and
  change no row. That an ended session's row is removed at last rests on passes being run;
  the model says what a pass achieves, not that there is one.
- *In the control plane*: expiry, which only ends sessions (`TokenFamily` and `BrowserSession`
  have it); authorization codes, device codes and links, of which only the effect on the tables remains
  (`IssueUserToken`, `ConfirmEmail`, `SetPasswordByLink`), at any time; which session of a user the
  limit displaces; the columns of a client that no token depends on; names of users and the `profile` routes that change
  only them; the `openid` scope user info asks for; which client an interaction is for and whether consent is
  due, so that a user may be shown any client the interaction would accept; introspection and the
  previews of links, which answer to a client and to the holder of a link rather than to a session; filters and pages of lists, which show some
  of what the view allows. A stored hash that is replaced because the hashing policy changed stays the same
  value, since it stands for the same password or secret.

## 8. Plan

Done, in this order: `NotificationOutbox`, `TokenFamily`, `WorkflowTokens`, `DeviceFlow`
with `OneTimeGrant`, `AuthorizationFlow`, `BrowserSession`, and the control plane with its five
layers and `SerialControlPlane`, each with its proofs. Every component is shown to implement an
abstract specification: `OutboxContract`, `TokenAuthority`, `IdentityLinks`, `OneTimeGrant` (both
flows), `PasswordSessions` and `SerialControlPlane`.

What is left, by what it would add:

1. Composition: token families opened by the exchanges of the flow modules, in place of the
   effect they have in `ControlPlane`.
2. The shutdown of the workers and the bootstrap lock, as steps of their own rather than as
   places where a crash may happen.
3. Larger instances of the control plane: a third commit needs a smaller instance elsewhere.
