-------------------------- MODULE AuthorizationFlow --------------------------
(***************************************************************************)
(* The authorization code flow (app/oauth2/authorization): an authorize    *)
(* request waits behind an opaque handle until a user is bound to it and   *)
(* decides, an authorization code is issued to that user, and a client     *)
(* exchanges the code for one session.                                     *)
(*                                                                         *)
(* Each action is one committed transaction.  A rejected redirect URI,     *)
(* scope or PKCE verifier rolls its transaction back and is not an action. *)
(***************************************************************************)
EXTENDS Integers

CONSTANTS
    Flows,         \* authorize requests that are ever made (bound)
    Clients, Users,
    ClientOf,      \* the client that makes the request
    Requests,      \* concurrent token requests
    None,
    Lifetime,      \* authorization_code_ttl, of handles and of codes, in ticks
    MaxChanges,    \* administrative changes (bound)
    MaxNow         \* the clock stops here (bound)

ASSUME AuthorizationFlowAssumption ==
    /\ ClientOf \in [Flows -> Clients]
    /\ None \notin Users /\ None \notin Clients /\ None \notin Flows /\ None \notin Nat
    /\ Lifetime \in Nat \ {0} /\ MaxChanges \in Nat /\ MaxNow \in Nat

VARIABLES
    handle,       \* oauth2_authorization_transaction: absent, open, used, deleted
    bound,        \* its user_id
    handleUntil,  \* its expires_at
    code,         \* oauth2_authorization_code: absent, live, used, deleted
    subject,      \* its user_id
    codeUntil,    \* its expires_at
    policy,       \* the client row: permits the request, or only active, inactive, deleted
    secret,       \* version of its client_secret
    consent,      \* requires_consent
    admits,       \* the users of the organizations it is open to
    account,      \* the user: active and verified, or not, or deleted
    now, changes,
    pc, client, seen, presented,  \* the token requests: client and secret
                                  \* authenticated with, code presented
    sessions,     \* history: sessions issued per flow and user
    started,      \* history: when the request was made
    denied        \* history: flows whose user decided to deny

handles == <<handle, bound, handleUntil>>
codes == <<code, subject, codeUntil>>
registry == <<policy, secret, consent, admits, account, changes>>
request == <<pc, client, seen, presented>>
history == <<sessions, started, denied>>
vars == <<handles, codes, registry, now, request, history>>

Init ==
    /\ handle = [f \in Flows |-> "absent"]
    /\ bound = [f \in Flows |-> None]
    /\ handleUntil = [f \in Flows |-> 0]
    /\ code = [f \in Flows |-> "absent"]
    /\ subject = [f \in Flows |-> None]
    /\ codeUntil = [f \in Flows |-> 0]
    /\ policy = [k \in Clients |-> "permits"]
    /\ secret = [k \in Clients |-> 0]
    /\ consent \in [Clients -> BOOLEAN]
    /\ admits = [k \in Clients |-> Users]
    /\ account = [u \in Users |-> "eligible"]
    /\ now = 0 /\ changes = 0
    /\ pc = [r \in Requests |-> "idle"]
    /\ client = [r \in Requests |-> None]
    /\ seen = [r \in Requests |-> None]
    /\ presented = [r \in Requests |-> None]
    /\ sessions = [f \in Flows |-> [u \in Users |-> 0]]
    /\ started = [f \in Flows |-> 0]
    /\ denied = {}

-----------------------------------------------------------------------------
(* The authorization endpoint.                                             *)

New(f) == handle[f] = "absent" /\ code[f] = "absent"

\* validate_request, for a request whose redirect URI is registered: an inactive
\* client is an error, a policy that does not permit it a redirect.
Permitted(f) == policy[ClientOf[f]] = "permits"

Admitted(f, u) == u \in admits[ClientOf[f]]

\* The end of authorize_validated.
IssueCode(f, u) ==
    /\ code' = [code EXCEPT ![f] = "live"]
    /\ subject' = [subject EXCEPT ![f] = u]
    /\ codeUntil' = [codeUntil EXCEPT ![f] = now + Lifetime]

OpenHandle(f, u) ==
    /\ New(f) /\ Permitted(f)
    /\ handle' = [handle EXCEPT ![f] = "open"]
    /\ bound' = [bound EXCEPT ![f] = u]
    /\ handleUntil' = [handleUntil EXCEPT ![f] = now + Lifetime]
    /\ started' = [started EXCEPT ![f] = now]
    /\ UNCHANGED <<codes, registry, now, request, sessions, denied>>

\* No browser session: the login page gets an unbound handle.
AuthorizeAnonymous(f) == OpenHandle(f, None)

\* A user who still has to consent gets a handle of their own.
AuthorizeForConsent(f, u) ==
    /\ account[u] = "eligible"
    /\ Admitted(f, u) /\ consent[ClientOf[f]]
    /\ OpenHandle(f, u)

AuthorizeDirectly(f, u) ==
    /\ account[u] = "eligible"
    /\ New(f) /\ Permitted(f) /\ Admitted(f, u) /\ ~consent[ClientOf[f]]
    /\ IssueCode(f, u)
    /\ started' = [started EXCEPT ![f] = now]
    /\ UNCHANGED <<handles, registry, now, request, sessions, denied>>

-----------------------------------------------------------------------------
(* Continuation and decision.                                              *)

\* Mutant: the handle goes to the last user who opens it.
BindableByAnyone(f, u) == handle[f] = "open" /\ now < handleUntil[f]

\* The condition of bind_to_user.
Bindable(f, u) ==
    /\ handle[f] = "open"
    /\ now < handleUntil[f]
    /\ bound[f] \in {None, u}

Bind(f, u) ==
    /\ account[u] = "eligible"
    /\ Bindable(f, u)
    /\ bound' = [bound EXCEPT ![f] = u]
    /\ UNCHANGED <<handleUntil, registry, now, request, history>>

\* The consent page, or the built-in page's error for a client that is gone
\* inactive: the binding is committed and the handle stays open.  (The external
\* API raises that error, and rolls the binding back.)
ContinueBound(f, u) ==
    /\ Bind(f, u)
    /\ \/ policy[ClientOf[f]] = "inactive"
       \/ Permitted(f) /\ Admitted(f, u) /\ consent[ClientOf[f]]
    /\ UNCHANGED <<handle, codes>>

\* An error redirect consumes the handle.
ContinueRefused(f, u) ==
    /\ Bind(f, u)
    /\ policy[ClientOf[f]] = "narrowed" \/ (Permitted(f) /\ ~Admitted(f, u))
    /\ handle' = [handle EXCEPT ![f] = "used"]
    /\ UNCHANGED codes

ContinueWithoutConsent(f, u) ==
    /\ Bind(f, u)
    /\ Permitted(f) /\ Admitted(f, u) /\ ~consent[ClientOf[f]]
    /\ handle' = [handle EXCEPT ![f] = "used"]
    /\ IssueCode(f, u)

\* Mutant: a handle does not expire.
ConsumableAnytime(f, u) == handle[f] = "open" /\ bound[f] = u

\* Mutant: whoever holds the handle may decide.
ConsumableByAnyone(f, u) == handle[f] = "open" /\ now < handleUntil[f]

\* The condition of consume.
Consumable(f, u) ==
    /\ handle[f] = "open"
    /\ now < handleUntil[f]
    /\ bound[f] = u

Consume(f, u) ==
    /\ account[u] = "eligible"
    /\ Consumable(f, u)
    /\ handle' = [handle EXCEPT ![f] = "used"]
    /\ UNCHANGED <<bound, handleUntil, registry, now, request, sessions, started>>

\* authorize_code for a decided handle ends in access_denied or another error
\* redirect.  (An inactive client is an error and rolls the consumption back.)
DecideRefused(f, u, decision) ==
    /\ Consume(f, u)
    /\ \/ policy[ClientOf[f]] = "narrowed"
       \/ Permitted(f) /\ ~Admitted(f, u)
       \/ Permitted(f) /\ consent[ClientOf[f]] /\ decision = "deny"
    /\ denied' = IF decision = "deny" THEN denied \cup {f} ELSE denied
    /\ UNCHANGED codes

\* authorize_code issues the code: only a client that requires consent makes
\* authorize_validated look at the decision.
DecideAccepted(f, u, decision) ==
    /\ Consume(f, u)
    /\ Permitted(f) /\ Admitted(f, u)
    /\ ~consent[ClientOf[f]] \/ decision = "approve"
    /\ denied' = IF decision = "deny" THEN denied \cup {f} ELSE denied
    /\ IssueCode(f, u)

-----------------------------------------------------------------------------
(* The token endpoint.                                                     *)

\* The request answers, fails, or dies with its process.
Finish(r) ==
    /\ pc' = [pc EXCEPT ![r] = "idle"]
    /\ client' = [client EXCEPT ![r] = None]
    /\ seen' = [seen EXCEPT ![r] = None]
    /\ presented' = [presented EXCEPT ![r] = None]

\* authenticate_token_client; a secret is verified outside of any transaction.
Authenticate(r, k, f) ==
    /\ pc[r] = "idle"
    /\ policy[k] \in {"permits", "narrowed"}
    /\ pc' = [pc EXCEPT ![r] = "authenticated"]
    /\ client' = [client EXCEPT ![r] = k]
    /\ seen' = [seen EXCEPT ![r] = secret[k]]
    /\ presented' = [presented EXCEPT ![r] = f]
    /\ UNCHANGED <<handles, codes, registry, now, history>>

\* lock_and_reload_token_client, and the policy checks on the fresh row.
Reloads(r) == policy[client[r]] = "permits" /\ secret[client[r]] = seen[r]

\* Mutant: a used code is as good as a live one.
RedeemableAgain(r) ==
    /\ code[presented[r]] \in {"live", "used"}
    /\ now < codeUntil[presented[r]]
    /\ ClientOf[presented[r]] = client[r]

\* _load_authorization_code and _consume_authorization_code.
Redeemable(r) ==
    /\ code[presented[r]] = "live"
    /\ now < codeUntil[presented[r]]
    /\ ClientOf[presented[r]] = client[r]

\* _load_authorization_code_identity.
Identity(f, u) == account[u] = "eligible" /\ Admitted(f, u)

\* One transaction from the reload of the client to the session.
Exchange(r) ==
    LET f == presented[r] IN
    /\ pc[r] = "authenticated"
    /\ Reloads(r) /\ Redeemable(r) /\ Identity(f, subject[f])
    /\ code' = [code EXCEPT ![f] = "used"]
    /\ sessions' = [sessions EXCEPT ![f][subject[f]] = @ + 1]
    /\ Finish(r)
    /\ UNCHANGED <<handles, subject, codeUntil, registry, now, started, denied>>

\* Any check fails, the database is busy, or the process dies: the transaction
\* is rolled back and the code stays as it was.
Abandon(r) ==
    /\ pc[r] # "idle"
    /\ Finish(r)
    /\ UNCHANGED <<handles, codes, registry, now, history>>

-----------------------------------------------------------------------------
(* Administration, cleanup and time.                                       *)

\* Rows are deleted.
Removed(rows, gone) ==
    [f \in Flows |-> IF f \in gone /\ rows[f] # "absent" THEN "gone" ELSE rows[f]]

Change ==
    /\ changes < MaxChanges
    /\ changes' = changes + 1
    /\ UNCHANGED <<bound, handleUntil, subject, codeUntil, now, request, history>>

\* replace_client: grants, scopes, activity and consent.
ReplaceClient(k, p, required) ==
    /\ Change
    /\ policy[k] # "deleted"
    /\ policy' = [policy EXCEPT ![k] = p]
    /\ consent' = [consent EXCEPT ![k] = required]
    /\ UNCHANGED <<handle, code, secret, admits, account>>

RotateSecret(k) ==
    /\ Change
    /\ policy[k] # "deleted"
    /\ secret' = [secret EXCEPT ![k] = @ + 1]
    /\ UNCHANGED <<handle, code, policy, consent, admits, account>>

ReplaceUserOrganizations(k, U) ==
    /\ Change
    /\ policy[k] # "deleted"
    /\ admits' = [admits EXCEPT ![k] = U]
    /\ UNCHANGED <<handle, code, policy, secret, consent, account>>

\* Handles and codes of a deleted client follow by ON DELETE CASCADE.
DeleteClient(k) ==
    /\ Change
    /\ policy[k] # "deleted"
    /\ policy' = [policy EXCEPT ![k] = "deleted"]
    /\ handle' = Removed(handle, {f \in Flows : ClientOf[f] = k})
    /\ code' = Removed(code, {f \in Flows : ClientOf[f] = k})
    /\ UNCHANGED <<secret, consent, admits, account>>

\* Activation, verification or organization of a user: no row here is touched.
ChangeUser(u, a) ==
    /\ Change
    /\ account[u] # "deleted"
    /\ account' = [account EXCEPT ![u] = a]
    /\ UNCHANGED <<handle, code, policy, secret, consent, admits>>

\* So do the handles bound to a deleted user and the codes issued to them.
DeleteUser(u) ==
    /\ Change
    /\ account[u] # "deleted"
    /\ account' = [account EXCEPT ![u] = "deleted"]
    /\ handle' = Removed(handle, {f \in Flows : bound[f] = u})
    /\ code' = Removed(code, {f \in Flows : subject[f] = u})
    /\ UNCHANGED <<policy, secret, consent, admits>>

\* The cleanup worker: rows that expired by the start of its pass, and every used
\* one.  An older cutoff only removes fewer.
CleanupHandle(f) ==
    /\ handle[f] = "used" \/ (handle[f] = "open" /\ handleUntil[f] <= now)
    /\ handle' = Removed(handle, {f})
    /\ UNCHANGED <<bound, handleUntil, codes, registry, now, request, history>>

CleanupCode(f) ==
    /\ code[f] = "used" \/ (code[f] = "live" /\ codeUntil[f] <= now)
    /\ code' = Removed(code, {f})
    /\ UNCHANGED <<handles, subject, codeUntil, registry, now, request, history>>

Tick ==
    /\ now < MaxNow
    /\ now' = now + 1
    /\ UNCHANGED <<handles, codes, registry, request, history>>

Interact(f) ==
    \/ AuthorizeAnonymous(f)
    \/ \E u \in Users :
         \/ AuthorizeForConsent(f, u) \/ AuthorizeDirectly(f, u)
         \/ ContinueBound(f, u) \/ ContinueRefused(f, u) \/ ContinueWithoutConsent(f, u)
         \/ \E decision \in {"approve", "deny"} :
              DecideRefused(f, u, decision) \/ DecideAccepted(f, u, decision)

Serve(r) ==
    \/ \E k \in Clients, f \in Flows : Authenticate(r, k, f)
    \/ Exchange(r) \/ Abandon(r)

Administer ==
    \/ \E k \in Clients :
         \/ \E p \in {"permits", "narrowed", "inactive"}, required \in BOOLEAN :
              ReplaceClient(k, p, required)
         \/ \E U \in SUBSET Users : ReplaceUserOrganizations(k, U)
         \/ RotateSecret(k) \/ DeleteClient(k)
    \/ \E u \in Users :
         \/ \E a \in {"eligible", "ineligible"} : ChangeUser(u, a)
         \/ DeleteUser(u)

Next ==
    \/ \E f \in Flows : Interact(f) \/ CleanupHandle(f) \/ CleanupCode(f)
    \/ \E r \in Requests : Serve(r)
    \/ Administer
    \/ Tick

Spec == Init /\ [][Next]_vars

-----------------------------------------------------------------------------
(* Properties.                                                             *)

\* Every variable has its type; a consumed handle names its user
\* (used_requires_principal), and a code issued through a handle is its user's.
TypeOK ==
    /\ handle \in [Flows -> {"absent", "open", "used", "gone"}]
    /\ bound \in [Flows -> Users \cup {None}]
    /\ handleUntil \in [Flows -> Nat]
    /\ code \in [Flows -> {"absent", "live", "used", "gone"}]
    /\ subject \in [Flows -> Users \cup {None}]
    /\ codeUntil \in [Flows -> Nat]
    /\ policy \in [Clients -> {"permits", "narrowed", "inactive", "deleted"}]
    /\ secret \in [Clients -> Nat]
    /\ consent \in [Clients -> BOOLEAN]
    /\ admits \in [Clients -> SUBSET Users]
    /\ account \in [Users -> {"eligible", "ineligible", "deleted"}]
    /\ now \in 0..MaxNow /\ changes \in 0..MaxChanges
    /\ pc \in [Requests -> {"idle", "authenticated"}]
    /\ client \in [Requests -> Clients \cup {None}]
    /\ seen \in [Requests -> Nat \cup {None}]
    /\ presented \in [Requests -> Flows \cup {None}]
    /\ sessions \in [Flows -> [Users -> Nat]]
    /\ started \in [Flows -> Nat]
    /\ denied \subseteq Flows
    /\ \A f \in Flows : handle[f] = "used" => bound[f] # None
    /\ \A f \in Flows : handle[f] # "absent" /\ code[f] # "absent" => subject[f] = bound[f]

\* No session comes of a request that was made two lifetimes ago or earlier,
\* however long its user, its client and the cleanup worker took in between:
\* the handle bounds the decision, and the code the exchange.
FlowsAreBrief ==
    [][\A f \in Flows : sessions'[f] # sessions[f] => now < started[f] + 2 * Lifetime]_vars

\* docs/reference/oauth2-errors.md:18: "A denied consent decision redirects with
\* access_denied", and decide applies "its explicit user decision": a flow that
\* its user denied should never have a code.
DenialsIssueNoCode == \A f \in denied : code[f] = "absent"

\* What an authorize request promises: see OneTimeGrant.
Redeemed(f) == \E u \in Users : sessions[f][u] > 0
Held(f) == code[f] = "live" \/ (code[f] = "absent" /\ handle[f] = "open" /\ bound[f] # None)
Open(f) == code[f] = "absent" /\ handle[f] \in {"absent", "open"} /\ bound[f] = None
Phase == [f \in Flows |-> IF Redeemed(f) THEN "redeemed"
                          ELSE IF Held(f) THEN "held"
                          ELSE IF Open(f) THEN "open" ELSE "void"]
Holder == [f \in Flows |-> IF Phase[f] \notin {"held", "redeemed"} THEN None
                           ELSE IF code[f] = "absent" THEN bound[f] ELSE subject[f]]
Grant == INSTANCE OneTimeGrant WITH Grants <- Flows, phase <- Phase, holder <- Holder

\* A request belongs to the first user it is bound to, and the code that comes of
\* it opens at most one session, which is that user's.
ImplementsGrant == Grant!Spec
=============================================================================
