----------------------------- MODULE DeviceFlow -----------------------------
(***************************************************************************)
(* The OAuth2 device flow (app/oauth2/devices): a device polls the token   *)
(* endpoint while a user decides on its request in a browser; polls are    *)
(* paced, and an approved code is exchanged for one session.               *)
(*                                                                         *)
(* A token request spans three transactions: client authentication, the    *)
(* poll, and the exchange.  Each action is one committed transaction; what *)
(* a request carries between them is a variable of the request.            *)
(***************************************************************************)
EXTENDS Integers, FiniteSets

CONSTANTS
    Codes,         \* device authorizations ever created (bound)
    Clients, Users,
    ClientOf,      \* the client a code is created for
    Requests,      \* concurrent token requests
    None,
    Interval,      \* device_code_interval_seconds, in ticks
    Backoff,       \* added by every slow_down: 5 seconds, in ticks
    Lifetime,      \* device_code_lifetime_seconds, in ticks
    MaxSlowDowns,  \* slow_down answers for one code (bound)
    MaxChanges,    \* administrative changes (bound)
    MaxNow         \* the clock stops here (bound)

ASSUME DeviceFlowAssumption ==
    /\ ClientOf \in [Codes -> Clients]
    /\ None \notin Users /\ None \notin Clients /\ None \notin Codes /\ None \notin Nat
    /\ Interval \in Nat \ {0} /\ Backoff \in Nat \ {0} /\ Lifetime \in Nat \ {0}
    /\ MaxSlowDowns \in Nat /\ MaxChanges \in Nat /\ MaxNow \in Nat

VARIABLES
    stage,     \* the row: absent, open, approved, denied, used, or deleted again
    owner,     \* user_id: who decided
    expires,   \* expires_at
    interval,  \* interval_seconds
    polled,    \* last_polled_at; None is NULL
    policy,    \* the client row: permits device codes of this scope, or only active, ...
    secret,    \* version of its client_secret
    admits,    \* the users of the organizations it is open to
    account,   \* the user: active and verified, or not, or deleted
    now, changes,
    pc, client, seen, code, subject,  \* the requests: client and secret authenticated
                                      \* with, code presented, approved snapshot
    sessions,  \* history: sessions issued per code and user
    slowed,    \* history: slow_down answers per code
    contact,   \* history: the last poll of an undecided code by its own client
    refusals   \* history: codes a user denied

row == <<stage, owner, expires>>
pace == <<interval, polled, slowed, contact>>
registry == <<policy, secret, admits, account, changes>>
request == <<pc, client, seen, code, subject>>
vars == <<row, pace, registry, now, request, sessions, refusals>>

Init ==
    /\ stage = [c \in Codes |-> "absent"]
    /\ owner = [c \in Codes |-> None]
    /\ expires = [c \in Codes |-> 0]
    /\ interval = [c \in Codes |-> Interval]
    /\ polled = [c \in Codes |-> None]
    /\ policy = [k \in Clients |-> "permits"]
    /\ secret = [k \in Clients |-> 0]
    /\ admits = [k \in Clients |-> Users]
    /\ account = [u \in Users |-> "eligible"]
    /\ now = 0 /\ changes = 0
    /\ pc = [r \in Requests |-> "idle"]
    /\ client = [r \in Requests |-> None]
    /\ seen = [r \in Requests |-> None]
    /\ code = [r \in Requests |-> None]
    /\ subject = [r \in Requests |-> None]
    /\ sessions = [c \in Codes |-> [u \in Users |-> 0]]
    /\ slowed = [c \in Codes |-> 0]
    /\ contact = [c \in Codes |-> None]
    /\ refusals = {}

-----------------------------------------------------------------------------
(* The code and the decision on it.                                        *)

\* A device asks for codes; a colliding user code is drawn again.
CreateCode(c) ==
    /\ stage[c] = "absent"
    /\ policy[ClientOf[c]] = "permits"
    /\ stage' = [stage EXCEPT ![c] = "open"]
    /\ expires' = [expires EXCEPT ![c] = now + Lifetime]
    /\ UNCHANGED <<owner, pace, registry, now, request, sessions, refusals>>

\* The condition of _pending_authorization and of the update that follows it.
Undecided(c) == stage[c] = "open" /\ now < expires[c]

\* _allowed_interaction_client, for a user with a live browser session.
Allowed(u, c) ==
    /\ account[u] = "eligible"
    /\ policy[ClientOf[c]] = "permits"
    /\ u \in admits[ClientOf[c]]

\* Mutant: only an approval names the user.
DecideNameless(u, c, approve) ==
    /\ Undecided(c) /\ Allowed(u, c)
    /\ stage' = [stage EXCEPT ![c] = IF approve THEN "approved" ELSE "denied"]
    /\ owner' = [owner EXCEPT ![c] = IF approve THEN u ELSE None]
    /\ refusals' = IF approve THEN refusals ELSE refusals \cup {c}
    /\ UNCHANGED <<expires, pace, registry, now, request, sessions>>

\* decide_device_authorization.
Decide(u, c, approve) ==
    /\ Undecided(c) /\ Allowed(u, c)
    /\ stage' = [stage EXCEPT ![c] = IF approve THEN "approved" ELSE "denied"]
    /\ owner' = [owner EXCEPT ![c] = u]
    /\ refusals' = IF approve THEN refusals ELSE refusals \cup {c}
    /\ UNCHANGED <<expires, pace, registry, now, request, sessions>>

-----------------------------------------------------------------------------
(* The token endpoint.                                                     *)

\* The request answers, fails, or dies with its process.
Finish(r) ==
    /\ pc' = [pc EXCEPT ![r] = "idle"]
    /\ client' = [client EXCEPT ![r] = None]
    /\ seen' = [seen EXCEPT ![r] = None]
    /\ code' = [code EXCEPT ![r] = None]
    /\ subject' = [subject EXCEPT ![r] = None]

\* authenticate_token_client and _validate_initial_device_client: only the
\* activity of the client is read here.
Authenticate(r, k, c) ==
    /\ pc[r] = "idle"
    /\ policy[k] \in {"permits", "narrowed"}
    /\ pc' = [pc EXCEPT ![r] = "polling"]
    /\ client' = [client EXCEPT ![r] = k]
    /\ seen' = [seen EXCEPT ![r] = secret[k]]
    /\ code' = [code EXCEPT ![r] = c]
    /\ UNCHANGED <<row, pace, registry, now, subject, sessions, refusals>>

\* Mutant: any client may present the code.
PresentedByAnyone(r) == stage[code[r]] \notin {"absent", "gone"}

\* The row exists and belongs to the authenticated client.
Presented(r) ==
    /\ stage[code[r]] \notin {"absent", "gone"}
    /\ ClientOf[code[r]] = client[r]

\* Mutant: the configured interval instead of the one slow_down raised.
TooFastForFirst(c) == polled[c] # None /\ now - polled[c] < Interval

TooFast(c) == polled[c] # None /\ now - polled[c] < interval[c]

\* evaluate_device_poll goes on to the pacing of the poll.
Pollable(r) ==
    /\ pc[r] = "polling"
    /\ Presented(r)
    /\ now < expires[code[r]]
    /\ stage[code[r]] \in {"open", "approved"}

\* The answer is access_denied, not invalid_grant or expired_token.
AccessDenied(r) == Presented(r) /\ now < expires[code[r]] /\ stage[code[r]] = "denied"

\* An unknown, foreign, used, expired or denied code: nothing is written.
PollRefused(r) ==
    /\ pc[r] = "polling"
    /\ ~Pollable(r)
    /\ Finish(r)
    /\ UNCHANGED <<row, pace, registry, now, sessions, refusals>>

\* Committed before the error is raised, so the backoff survives it.
PollSlowDown(r) ==
    LET c == code[r] IN
    /\ Pollable(r) /\ TooFast(c)
    /\ slowed[c] < MaxSlowDowns
    /\ polled' = [polled EXCEPT ![c] = now]
    /\ interval' = [interval EXCEPT ![c] = @ + Backoff]
    /\ slowed' = [slowed EXCEPT ![c] = @ + 1]
    /\ contact' = [contact EXCEPT ![c] = now]
    /\ Finish(r)
    /\ UNCHANGED <<row, registry, now, sessions, refusals>>

PollPending(r) ==
    LET c == code[r] IN
    /\ Pollable(r) /\ ~TooFast(c)
    /\ stage[c] = "open"
    /\ polled' = [polled EXCEPT ![c] = now]
    /\ contact' = [contact EXCEPT ![c] = now]
    /\ Finish(r)
    /\ UNCHANGED <<row, interval, slowed, registry, now, sessions, refusals>>

\* The approved authorization is handed to the exchange as a snapshot.
PollApproved(r) ==
    /\ Pollable(r) /\ ~TooFast(code[r])
    /\ stage[code[r]] = "approved"
    /\ pc' = [pc EXCEPT ![r] = "approved"]
    /\ subject' = [subject EXCEPT ![r] = owner[code[r]]]
    /\ UNCHANGED <<row, pace, registry, now, client, seen, code, sessions, refusals>>

\* lock_and_reload_token_client and the policy checks on the fresh row.
Reloads(r) == policy[client[r]] = "permits" /\ secret[client[r]] = seen[r]

\* _load_device_identity.
Identity(r) == account[subject[r]] = "eligible" /\ subject[r] \in admits[client[r]]

\* Mutant: the snapshot is consumed whatever became of the row.
ConsumableAsSeen(r) == stage[code[r]] # "gone"

\* _consume_device_authorization.  Its expires_at > now compares with a clock
\* read right after the poll, whose own comparison it repeats.
Consumable(r) == stage[code[r]] = "approved"

\* Consumption and issuance in one transaction.
Exchange(r) ==
    /\ pc[r] = "approved"
    /\ Reloads(r) /\ Identity(r) /\ Consumable(r)
    /\ stage' = [stage EXCEPT ![code[r]] = "used"]
    /\ sessions' = [sessions EXCEPT ![code[r]][subject[r]] = @ + 1]
    /\ Finish(r)
    /\ UNCHANGED <<owner, expires, pace, registry, now, refusals>>

\* Any check of the exchange fails, the database is busy, or the process dies:
\* the open transaction is rolled back.
Abandon(r) ==
    /\ pc[r] # "idle"
    /\ Finish(r)
    /\ UNCHANGED <<row, pace, registry, now, sessions, refusals>>

-----------------------------------------------------------------------------
(* Administration, cleanup and time.                                       *)

\* Rows are deleted.
Remove(removed) ==
    stage' = [c \in Codes |-> IF c \in removed /\ stage[c] # "absent" THEN "gone" ELSE stage[c]]

Change ==
    /\ changes < MaxChanges
    /\ changes' = changes + 1
    /\ UNCHANGED <<owner, expires, pace, now, request, sessions, refusals>>

\* replace_client: grants, scopes and activity.
ReplaceClient(k, p) ==
    /\ Change
    /\ policy[k] # "deleted"
    /\ policy' = [policy EXCEPT ![k] = p]
    /\ UNCHANGED <<stage, secret, admits, account>>

RotateSecret(k) ==
    /\ Change
    /\ policy[k] # "deleted"
    /\ secret' = [secret EXCEPT ![k] = @ + 1]
    /\ UNCHANGED <<stage, policy, admits, account>>

ReplaceUserOrganizations(k, U) ==
    /\ Change
    /\ policy[k] # "deleted"
    /\ admits' = [admits EXCEPT ![k] = U]
    /\ UNCHANGED <<stage, policy, secret, account>>

\* The codes of a deleted client follow by ON DELETE CASCADE.
DeleteClient(k) ==
    /\ Change
    /\ policy[k] # "deleted"
    /\ policy' = [policy EXCEPT ![k] = "deleted"]
    /\ Remove({c \in Codes : ClientOf[c] = k})
    /\ UNCHANGED <<secret, admits, account>>

\* Activation, verification or organization of a user: no code is touched.
ChangeUser(u, a) ==
    /\ Change
    /\ account[u] # "deleted"
    /\ account' = [account EXCEPT ![u] = a]
    /\ UNCHANGED <<stage, policy, secret, admits>>

\* So do the codes a deleted user decided on.
DeleteUser(u) ==
    /\ Change
    /\ account[u] # "deleted"
    /\ account' = [account EXCEPT ![u] = "deleted"]
    /\ Remove({c \in Codes : owner[c] = u})
    /\ UNCHANGED <<policy, secret, admits>>

\* The cleanup worker: codes that expired by the start of its pass, and every
\* used or denied one.  An older cutoff only removes fewer.
Cleanup(c) ==
    /\ stage[c] \in {"open", "approved", "denied", "used"}
    /\ stage[c] \in {"denied", "used"} \/ expires[c] <= now
    /\ Remove({c})
    /\ UNCHANGED <<owner, expires, pace, registry, now, request, sessions, refusals>>

Tick ==
    /\ now < MaxNow
    /\ now' = now + 1
    /\ UNCHANGED <<row, pace, registry, request, sessions, refusals>>

Serve(r) ==
    \/ \E k \in Clients, c \in Codes : Authenticate(r, k, c)
    \/ PollRefused(r) \/ PollSlowDown(r) \/ PollPending(r) \/ PollApproved(r)
    \/ Exchange(r) \/ Abandon(r)

Administer ==
    \/ \E k \in Clients :
         \/ \E p \in {"permits", "narrowed", "inactive"} : ReplaceClient(k, p)
         \/ \E U \in SUBSET Users : ReplaceUserOrganizations(k, U)
         \/ RotateSecret(k) \/ DeleteClient(k)
    \/ \E u \in Users :
         \/ \E a \in {"eligible", "ineligible"} : ChangeUser(u, a)
         \/ DeleteUser(u)

Next ==
    \/ \E r \in Requests : Serve(r)
    \/ \E c \in Codes : \/ CreateCode(c) \/ Cleanup(c)
                        \/ \E u \in Users, approve \in BOOLEAN : Decide(u, c, approve)
    \/ Administer
    \/ Tick

Spec == Init /\ [][Next]_vars

-----------------------------------------------------------------------------
(* Properties.                                                             *)

\* Every variable has its type, and the row obeys decision_state_valid: it names
\* a user exactly once it is decided.
TypeOK ==
    /\ stage \in [Codes -> {"absent", "open", "approved", "denied", "used", "gone"}]
    /\ owner \in [Codes -> Users \cup {None}]
    /\ expires \in [Codes -> Nat]
    /\ interval \in [Codes -> Nat]
    /\ polled \in [Codes -> Nat \cup {None}]
    /\ policy \in [Clients -> {"permits", "narrowed", "inactive", "deleted"}]
    /\ secret \in [Clients -> Nat]
    /\ admits \in [Clients -> SUBSET Users]
    /\ account \in [Users -> {"eligible", "ineligible", "deleted"}]
    /\ now \in 0..MaxNow /\ changes \in 0..MaxChanges
    /\ pc \in [Requests -> {"idle", "polling", "approved"}]
    /\ client \in [Requests -> Clients \cup {None}]
    /\ seen \in [Requests -> Nat \cup {None}]
    /\ code \in [Requests -> Codes \cup {None}]
    /\ subject \in [Requests -> Users \cup {None}]
    /\ sessions \in [Codes -> [Users -> Nat]]
    /\ slowed \in [Codes -> 0..MaxSlowDowns]
    /\ contact \in [Codes -> Nat \cup {None}]
    /\ refusals \subseteq Codes
    /\ \A c \in Codes :
         /\ stage[c] \in {"absent", "open"} => owner[c] = None
         /\ stage[c] \in {"approved", "denied", "used"} => owner[c] # None

\* A session is issued to the client the code was created for, under the secret
\* and the policy of that client at the commit, for a user who is eligible and
\* admitted then: nothing read before the exchange is trusted (but the code's
\* client, which only the poll compared).
IssuanceIsCurrent ==
    [][\A r \in Requests : LET k == client[r] IN
         sessions' # sessions /\ pc'[r] # pc[r] =>
            /\ k = ClientOf[code[r]]
            /\ policy[k] = "permits" /\ seen[r] = secret[k]
            /\ account[subject[r]] = "eligible" /\ subject[r] \in admits[k]]_vars

\* authorization_pending is the answer only if the client's last poll is as long
\* ago as the interval it was given and every slow_down it received demand
\* (concurrent polls included: the no-op update of evaluate_device_poll).
PendingIsPaced ==
    [][\A r \in Requests : LET c == code[r] IN
         PollPending(r) /\ contact[c] # None =>
            now - contact[c] >= Interval + Backoff * slowed[c]]_vars

\* docs/guides/oauth2-device-flow.md:39: "Denial returns access_denied, expiry
\* returns expired_token".  So a client that polls its own code after the user
\* denied it and before it expires should be answered access_denied.
DenialIsReported ==
    [][\A r \in Requests : LET c == code[r] IN
         PollRefused(r) /\ c \in refusals /\ ClientOf[c] = client[r] /\ now < expires[c] =>
            AccessDenied(r)]_vars

\* What a device code promises: see OneTimeGrant.  A deleted code is redeemed if
\* it opened a session before.
Redeemed(c) == \E u \in Users : sessions[c][u] > 0
Phase == [c \in Codes |-> IF Redeemed(c) THEN "redeemed"
                          ELSE IF stage[c] \in {"absent", "open"} THEN "open"
                          ELSE IF stage[c] = "approved" THEN "held" ELSE "void"]
Holder == [c \in Codes |-> IF Phase[c] \in {"held", "redeemed"} THEN owner[c] ELSE None]
Grant == INSTANCE OneTimeGrant WITH Grants <- Codes, phase <- Phase, holder <- Holder

\* A device code is decided once, and the session it opens at most once is the
\* session of the user who approved it.
ImplementsGrant == Grant!Spec
=============================================================================
