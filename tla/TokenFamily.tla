---------------------------- MODULE TokenFamily ----------------------------
(***************************************************************************)
(* OAuth2 token families (app/oauth2/tokens): a grant opens a session with *)
(* one current access/refresh pair, each refresh rotates the pair, a       *)
(* replayed refresh token ends the family, and client policy, user         *)
(* security changes, expiry and cleanup end or remove it.                  *)
(*                                                                         *)
(* A token request runs over several transactions; everything it carries   *)
(* from one to the next is a variable of the request.  Each action is one  *)
(* committed transaction.  A refresh token is <<family, generation>>.      *)
(***************************************************************************)
EXTENDS Integers, FiniteSets

CONSTANTS
    Families,         \* oauth2_session rows ever inserted (bound)
    Clients, Users,
    ClientOf,         \* the client, and
    UserOf,           \* the user (None: client_credentials), a family is granted to
    AccessOnly,       \* families issued without a refresh token
    Confidential,     \* clients that authenticate with a secret
    Requests,         \* concurrent requests at the token endpoint
    None,
    AccessLifetime, RefreshLifetime,  \* in ticks; one tick is one second
    BatchSize,        \* cleanup_batch_size
    MaxRotations,     \* rotations of one family (bound)
    MaxSecrets,       \* secret rotations of one client (bound)
    MaxNow            \* the clock stops here (bound)

ASSUME TokenFamilyAssumption ==
    /\ ClientOf \in [Families -> Clients]
    /\ UserOf \in [Families -> Users \cup {None}]
    /\ None \notin Users /\ None \notin Families /\ None \notin Nat
    /\ AccessOnly \subseteq Families
    /\ Confidential \subseteq Clients
    /\ AccessLifetime \in Nat \ {0} /\ RefreshLifetime \in Nat \ {0}
    /\ BatchSize \in Nat \ {0}
    /\ MaxRotations \in Nat /\ MaxSecrets \in Nat /\ MaxNow \in Nat
    /\ IsFiniteSet(Families)

VARIABLES
    session,   \* oauth2_session: not inserted, ended_at NULL, ended_at set, deleted
    states,    \* the families that have an oauth2_token_state row
    gen,       \* generation of the current pair: refresh_token_hash
    deadline,  \* refresh_expires_at; access_expires_at where there is no refresh token
    access,    \* access_expires_at
    history,   \* oauth2_refresh_token_history: consumed tokens
    policy,    \* the client row: permits its families, or active without, inactive, deleted
    secret,    \* version of its client_secret
    account,   \* the user: load_eligible_oauth2_user_identity finds it, or not, or deleted
    now,
    pc,        \* where each request is
    client,    \* the client it authenticated as
    seen,      \* the secret it was verified against
    family, generation,  \* the refresh token it presents; None for another grant
    expiredAt, \* the `now` _require_unexpired_refresh_family compared with
    cutoff,    \* of the running cleanup pass; None between passes
    redeemed,  \* history: successful rotations per refresh token
    rejected   \* history: tokens refused because they were not current

rows == <<session, states, gen, deadline, access, history>>
registry == <<policy, secret, account>>
request == <<pc, client, seen, family, generation, expiredAt>>
ghosts == <<redeemed, rejected>>
vars == <<rows, registry, now, request, cutoff, ghosts>>

Generations == 0..MaxRotations
FamiliesOf(c) == {f \in Families : ClientOf[f] = c}
Owned(U) == {f \in Families : UserOf[f] \in U}
Least(a, b) == IF a <= b THEN a ELSE b

Init ==
    /\ session = [f \in Families |-> "absent"]
    /\ states = {}
    /\ gen = [f \in Families |-> 0]
    /\ deadline = [f \in Families |-> 0]
    /\ access = [f \in Families |-> 0]
    /\ history = {}
    /\ policy = [c \in Clients |-> "permits"]
    /\ secret = [c \in Clients |-> 0]
    /\ account = [u \in Users |-> "eligible"]
    /\ now = 0
    /\ pc = [r \in Requests |-> "idle"]
    /\ client = [r \in Requests |-> None]
    /\ seen = [r \in Requests |-> None]
    /\ family = [r \in Requests |-> None]
    /\ generation = [r \in Requests |-> 0]
    /\ expiredAt = [r \in Requests |-> 0]
    /\ cutoff = None
    /\ redeemed = [f \in Families |-> [g \in Generations |-> 0]]
    /\ rejected = {}

-----------------------------------------------------------------------------
(* Ends of a family.                                                       *)

\* Mutant: the token states are left behind.
EndOnlySession(ending) ==
    /\ session' = [f \in Families |->
                     IF f \in ending /\ session[f] = "active" THEN "ended" ELSE session[f]]
    /\ UNCHANGED <<states, gen, deadline, access, history>>

\* ended_at is set where it was NULL, and the token states go.
End(ending) ==
    /\ session' = [f \in Families |->
                     IF f \in ending /\ session[f] = "active" THEN "ended" ELSE session[f]]
    /\ states' = states \ ending
    /\ UNCHANGED <<gen, deadline, access, history>>

\* Session rows are deleted; token states and history follow by ON DELETE CASCADE.
Delete(gone) ==
    /\ session' = [f \in Families |->
                     IF f \in gone /\ session[f] # "absent" THEN "deleted" ELSE session[f]]
    /\ states' = states \ gone
    /\ history' = {t \in history : t[1] \notin gone}
    /\ UNCHANGED <<gen, deadline, access>>

\* The request answers (or fails, or its process dies) and is forgotten.
Finish(r) ==
    /\ pc' = [pc EXCEPT ![r] = "idle"]
    /\ client' = [client EXCEPT ![r] = None]
    /\ seen' = [seen EXCEPT ![r] = None]
    /\ family' = [family EXCEPT ![r] = None]
    /\ generation' = [generation EXCEPT ![r] = 0]
    /\ expiredAt' = [expiredAt EXCEPT ![r] = 0]

-----------------------------------------------------------------------------
(* The token endpoint.                                                     *)

\* _load_refresh_family and _require_unexpired_refresh_family, on one snapshot.
Verdict(f, g) ==
    IF f \notin states \/ gen[f] # g THEN "reuse"
    ELSE IF deadline[f] <= now THEN "expired"
    ELSE "rotate"

Authenticated(r, c) ==
    /\ policy[c] \in {"permits", "narrowed"}
    /\ client' = [client EXCEPT ![r] = c]
    /\ seen' = [seen EXCEPT ![r] = secret[c]]

\* A request for a first token pair: authorization code, device code, client credentials.
AuthenticateGrant(r, c) ==
    /\ pc[r] = "idle"
    /\ Authenticated(r, c)
    /\ pc' = [pc EXCEPT ![r] = "grant"]
    /\ UNCHANGED <<rows, registry, now, family, generation, expiredAt, cutoff, ghosts>>

\* A refresh request with any token that was ever issued.  A public client is
\* identified in the snapshot that loads the family; the secret of a confidential
\* one is verified between two transactions.
AuthenticateRefresh(r, c, f, g) ==
    /\ pc[r] = "idle"
    /\ f \notin AccessOnly /\ session[f] # "absent" /\ g <= gen[f]
    /\ Authenticated(r, c)
    /\ family' = [family EXCEPT ![r] = f]
    /\ generation' = [generation EXCEPT ![r] = g]
    /\ IF c \in Confidential
       THEN /\ pc' = [pc EXCEPT ![r] = "load"]
            /\ UNCHANGED expiredAt
       ELSE /\ pc' = [pc EXCEPT ![r] = Verdict(f, g)]
            /\ expiredAt' = [expiredAt EXCEPT ![r] = now]
    /\ UNCHANGED <<rows, registry, now, cutoff, ghosts>>

LoadFamily(r) ==
    /\ pc[r] = "load"
    /\ pc' = [pc EXCEPT ![r] = Verdict(family[r], generation[r])]
    /\ expiredAt' = [expiredAt EXCEPT ![r] = now]
    /\ UNCHANGED <<rows, registry, now, client, seen, family, generation, cutoff, ghosts>>

\* Mutant: the secret the request was verified against is not compared again.
ReloadsTrusting(r) == policy[client[r]] = "permits"

\* lock_and_reload_token_client, and the policy checks on the fresh row.
Reloads(r) == policy[client[r]] = "permits" /\ secret[client[r]] = seen[r]

\* Mutant: the eligibility of the user is not read again.
UserEligibleStale(f) == TRUE
UserEligible(f) == UserOf[f] \in {u \in Users : account[u] = "eligible"} \cup {None}

\* issue_new_session, in the transaction that consumed the grant.
Issue(r, f) ==
    /\ pc[r] = "grant"
    /\ session[f] = "absent"
    /\ ClientOf[f] = client[r]
    /\ Reloads(r) /\ UserEligible(f)
    /\ session' = [session EXCEPT ![f] = "active"]
    /\ states' = states \cup {f}
    /\ LET until == now + (IF f \in AccessOnly THEN AccessLifetime ELSE RefreshLifetime)
       IN  /\ deadline' = [deadline EXCEPT ![f] = until]
           /\ access' = [access EXCEPT ![f] = Least(now + AccessLifetime, until)]
    /\ Finish(r)
    /\ UNCHANGED <<gen, history, registry, now, cutoff, ghosts>>

\* Mutant: the family goes by its id alone.
CurrentById(r) == family[r] \in states

\* The compare-and-swap of rotate_token_state.
Current(r) == family[r] \in states /\ gen[family[r]] = generation[r]

MayRotate(r) ==
    /\ Reloads(r)
    /\ ClientOf[family[r]] = client[r]
    /\ UserEligible(family[r])
    /\ now < deadline[family[r]]
    /\ Current(r)

\* Mutant: the deadline slides with the rotation.
RotatedSliding(r) ==
    LET f == family[r] IN
    /\ gen' = [gen EXCEPT ![f] = @ + 1]
    /\ access' = [access EXCEPT ![f] = now + AccessLifetime]
    /\ deadline' = [deadline EXCEPT ![f] = now + RefreshLifetime]
    /\ history' = history \cup {<<f, generation[r]>>}
    /\ redeemed' = [redeemed EXCEPT ![f][generation[r]] = @ + 1]
    /\ UNCHANGED <<session, states, rejected>>

\* The pair is replaced under the deadline set when the family was issued.
Rotated(r) ==
    LET f == family[r] IN
    /\ gen' = [gen EXCEPT ![f] = @ + 1]
    /\ access' = [access EXCEPT ![f] = Least(now + AccessLifetime, deadline[f])]
    /\ history' = history \cup {<<f, generation[r]>>}
    /\ redeemed' = [redeemed EXCEPT ![f][generation[r]] = @ + 1]
    /\ UNCHANGED <<session, states, deadline, rejected>>

\* Mutant: the loser of the compare-and-swap ends the family.
RotateOrRevoke(r) ==
    /\ pc[r] = "rotate"
    /\ \/ MayRotate(r) /\ gen[family[r]] < MaxRotations /\ Rotated(r)
       \/ ~MayRotate(r) /\ End({family[r]} \cap states) /\ UNCHANGED ghosts
    /\ Finish(r)
    /\ UNCHANGED <<registry, now, cutoff>>

\* Mutant: the consumed token is not recorded.
RotateForgetful(r) ==
    /\ pc[r] = "rotate"
    /\ \/ MayRotate(r) /\ gen[family[r]] < MaxRotations
          /\ gen' = [gen EXCEPT ![family[r]] = @ + 1]
          /\ redeemed' = [redeemed EXCEPT ![family[r]][generation[r]] = @ + 1]
          /\ UNCHANGED <<session, states, deadline, access, history, rejected>>
       \/ ~MayRotate(r) /\ UNCHANGED <<rows, ghosts>>
    /\ Finish(r)
    /\ UNCHANGED <<registry, now, cutoff>>

\* Rotation, history and replacement in one transaction; any check that fails
\* rolls it back.
Rotate(r) ==
    /\ pc[r] = "rotate"
    /\ \/ MayRotate(r) /\ gen[family[r]] < MaxRotations /\ Rotated(r)
       \/ ~MayRotate(r) /\ UNCHANGED <<rows, ghosts>>
    /\ Finish(r)
    /\ UNCHANGED <<registry, now, cutoff>>

\* revoke_reused_refresh_family: history joined with the live token state.
RevokeReused(r) ==
    LET t == <<family[r], generation[r]>> IN
    /\ pc[r] = "reuse"
    /\ End(IF t \in history THEN {family[r]} \cap states ELSE {})
    /\ rejected' = rejected \cup {t}
    /\ Finish(r)
    /\ UNCHANGED <<registry, now, cutoff, redeemed>>

\* expire_refresh_family.
Expire(r) ==
    /\ pc[r] = "expired"
    /\ End(IF Current(r) /\ deadline[family[r]] <= expiredAt[r] THEN {family[r]} ELSE {})
    /\ Finish(r)
    /\ UNCHANGED <<registry, now, cutoff, ghosts>>

\* Scope narrowing refused, SQLITE_BUSY, a lost connection, a dead process: the
\* open transaction is rolled back.
Abandon(r) ==
    /\ pc[r] # "idle"
    /\ Finish(r)
    /\ UNCHANGED <<rows, registry, now, cutoff, ghosts>>

-----------------------------------------------------------------------------
(* Revocation from outside.                                                *)

\* The revocation endpoint, the user's or an administrator's session page.
RevokeFamily(f) ==
    /\ f \in states
    /\ End({f})
    /\ UNCHANGED <<registry, now, request, cutoff, ghosts>>

\* An organization's administrator ends a client's families there.  An
\* organization is the users in it: a machine's family has no organization.
RevokeClientIn(c, U) ==
    /\ End(FamiliesOf(c) \cap Owned(U) \cap states)
    /\ UNCHANGED <<registry, now, request, cutoff, ghosts>>

\* A replaced registration or organization policy takes something away (what the
\* families here need, or not): every family with a token state ends.
NarrowClient(c) ==
    /\ policy[c] # "deleted"
    /\ \E p \in {"permits", "narrowed", "inactive"} : policy' = [policy EXCEPT ![c] = p]
    /\ End(FamiliesOf(c) \cap states)
    /\ UNCHANGED <<secret, account, now, request, cutoff, ghosts>>

\* A replacement that takes nothing away.
WidenClient(c) ==
    /\ \E p \in {"permits", "narrowed"} :
         /\ policy[c] = "inactive" \/ (policy[c] = "narrowed" /\ p = "permits")
         /\ policy' = [policy EXCEPT ![c] = p]
    /\ UNCHANGED <<rows, secret, account, now, request, cutoff, ghosts>>

RotateSecret(c) ==
    /\ c \in Confidential /\ policy[c] # "deleted" /\ secret[c] < MaxSecrets
    /\ secret' = [secret EXCEPT ![c] = @ + 1]
    /\ UNCHANGED <<rows, policy, account, now, request, cutoff, ghosts>>

DeleteClient(c) ==
    /\ policy[c] # "deleted"
    /\ policy' = [policy EXCEPT ![c] = "deleted"]
    /\ Delete(FamiliesOf(c))
    /\ UNCHANGED <<secret, account, now, request, cutoff, ghosts>>

\* revoke_user_security_sessions with the change that calls for it: password,
\* activation, verified email, role, organization.
ChangeSecurity(u) ==
    /\ account[u] # "deleted"
    /\ \E a \in {"eligible", "ineligible"} : account' = [account EXCEPT ![u] = a]
    /\ End(Owned({u}))
    /\ UNCHANGED <<policy, secret, now, request, cutoff, ghosts>>

\* revoke_organization_security_sessions.
RevokeUsers(U) ==
    /\ End(Owned(U))
    /\ UNCHANGED <<registry, now, request, cutoff, ghosts>>

RevokeAll ==
    /\ End(Families)
    /\ UNCHANGED <<registry, now, request, cutoff, ghosts>>

\* clear_user_, clear_organization_ and clear_all_oauth2_sessions.
Clear(gone) ==
    /\ Delete(gone)
    /\ UNCHANGED <<registry, now, request, cutoff, ghosts>>

DeleteUser(u) ==
    /\ account[u] # "deleted"
    /\ account' = [account EXCEPT ![u] = "deleted"]
    /\ Delete(Owned({u}))
    /\ UNCHANGED <<policy, secret, now, request, cutoff, ghosts>>

-----------------------------------------------------------------------------
(* The cleanup worker.                                                     *)

StartPass ==
    /\ cutoff = None
    /\ cutoff' = now
    /\ UNCHANGED <<rows, registry, now, request, ghosts>>

\* Mutant: every family goes by its access token.
ExpiredByAccess(f) == f \in states /\ access[f] <= cutoff

Expired(f) == f \in states /\ deadline[f] <= cutoff

\* Mutant: a session without token state is not terminal.
TerminalWhenEnded(f, kept) == session[f] = "ended"

Terminal(f, kept) == session[f] = "ended" \/ (session[f] = "active" /\ f \notin kept)

\* S is one page of at most BatchSize of the candidates.
IsBatch(S, candidates) ==
    /\ S \subseteq candidates
    /\ Cardinality(S) = Least(BatchSize, Cardinality(candidates))

\* Mutant: only the token states are counted.
MoreExpired(expired, terminal) == Cardinality(expired) = BatchSize

\* _cleanup_may_have_more
MayHaveMore(expired, terminal) == BatchSize \in {Cardinality(expired), Cardinality(terminal)}

\* One run_oauth2_cleanup transaction; a full page asks for another one with the
\* same cutoff.  (A full page of codes or devices does too: nothing is left to do.)
CleanupBatch ==
    \E expired \in SUBSET states : \E terminal \in SUBSET Families :
        /\ cutoff # None
        /\ IsBatch(expired, {f \in Families : Expired(f)})
        /\ IsBatch(terminal, {f \in Families : Terminal(f, states \ expired)})
        /\ session' = [f \in Families |-> IF f \in terminal THEN "deleted" ELSE session[f]]
        /\ states' = (states \ expired) \ terminal
        /\ history' = {t \in history : t[1] \notin terminal}
        /\ cutoff' = IF MayHaveMore(expired, terminal) THEN cutoff ELSE None
        /\ UNCHANGED <<gen, deadline, access, registry, now, request, ghosts>>

\* The transaction fails, or the worker stops: the pass is over.
CleanupFails ==
    /\ cutoff # None
    /\ cutoff' = None
    /\ UNCHANGED <<rows, registry, now, request, ghosts>>

Tick ==
    /\ now < MaxNow
    /\ now' = now + 1
    /\ UNCHANGED <<rows, registry, request, cutoff, ghosts>>

Serve(r) ==
    \/ \E c \in Clients : \/ AuthenticateGrant(r, c)
                          \/ \E f \in Families, g \in Generations : AuthenticateRefresh(r, c, f, g)
    \/ LoadFamily(r)
    \/ \E f \in Families : Issue(r, f)
    \/ Rotate(r) \/ RevokeReused(r) \/ Expire(r) \/ Abandon(r)

Administer ==
    \/ \E f \in Families : RevokeFamily(f)
    \/ \E c \in Clients : NarrowClient(c) \/ WidenClient(c) \/ RotateSecret(c) \/ DeleteClient(c)
    \/ \E u \in Users : ChangeSecurity(u) \/ DeleteUser(u)
    \/ \E U \in SUBSET Users : \/ RevokeUsers(U) \/ Clear(Owned(U))
                               \/ \E c \in Clients : RevokeClientIn(c, U)
    \/ RevokeAll \/ Clear(Families)

Next ==
    \/ \E r \in Requests : Serve(r)
    \/ Administer
    \/ StartPass \/ CleanupBatch \/ CleanupFails
    \/ Tick

Spec == Init /\ [][Next]_vars

\* The worker keeps starting passes, a batch that is retried pass after pass
\* succeeds at last, and time passes.  Nothing is assumed of the clients.
FairSpec == Spec /\ WF_vars(StartPass) /\ SF_vars(CleanupBatch) /\ WF_vars(Tick)

-----------------------------------------------------------------------------
(* Properties.                                                             *)

\* Every variable has its type, only sessions that are not ended have a token
\* state, and no access token outlives its family.
TypeOK ==
    /\ session \in [Families -> {"absent", "active", "ended", "deleted"}]
    /\ states \subseteq {f \in Families : session[f] = "active"}
    /\ gen \in [Families -> Generations]
    /\ deadline \in [Families -> Nat]
    /\ access \in [Families -> Nat]
    /\ history \subseteq Families \X Generations
    /\ policy \in [Clients -> {"permits", "narrowed", "inactive", "deleted"}]
    /\ secret \in [Clients -> 0..MaxSecrets]
    /\ account \in [Users -> {"eligible", "ineligible", "deleted"}]
    /\ now \in 0..MaxNow
    /\ pc \in [Requests -> {"idle", "grant", "load", "rotate", "reuse", "expired"}]
    /\ client \in [Requests -> Clients \cup {None}]
    /\ seen \in [Requests -> (0..MaxSecrets) \cup {None}]
    /\ family \in [Requests -> Families \cup {None}]
    /\ generation \in [Requests -> Generations]
    /\ expiredAt \in [Requests -> 0..MaxNow]
    /\ cutoff \in (0..MaxNow) \cup {None}
    /\ redeemed \in [Families -> [Generations -> Nat]]
    /\ rejected \subseteq Families \X Generations
    /\ \A f \in states : access[f] <= deadline[f]

\* A refresh token is exchanged at most once, however many requests observed it
\* as current (rotate_token_state).
RedeemedOnce ==
    \A f \in Families, g \in Generations : redeemed[f][g] <= 1

\* A family is live only while its client still permits it and its user is still
\* eligible: no request that read either before a narrowing, a deactivation or a
\* deletion leaves tokens behind it (lock_and_reload_token_client against
\* persist, revoke_user_security_sessions and the cascades).
AuthorityIsBacked ==
    \A f \in states :
        /\ policy[ClientOf[f]] = "permits"
        /\ UserOf[f] # None => account[UserOf[f]] = "eligible"

\* Once a request was told that its refresh token is not current, the family of
\* that token is not live: replay ends it, through every rotation, cleanup and
\* revocation in between (revoke_reused_refresh_family and the history it needs).
ReplayEndsFamily == \A t \in rejected : t[1] \notin states

\* A request that was not told its token had been replaced ends no family before
\* the deadline, whatever happened to the family since (docs/guides/oauth2-flows.md:
\* the losing request does not revoke the winner's family).
LosersSpareTheFamily ==
    [][\A r \in Requests :
         pc[r] \notin {"idle", "reuse"} /\ pc'[r] # pc[r] =>
            \A f \in states \ states' : pc[r] = "expired" /\ deadline[f] <= now]_vars

\* Tokens are issued under the secret that is current when they are committed,
\* to a family that is not past its deadline.
IssuanceIsFresh ==
    [][\A r \in Requests :
         LET c == client[r]
             served == {f \in states' : f \notin states \/ gen'[f] # gen[f]}
         IN  pc[r] # pc'[r] /\ served # {} =>
                /\ seen[r] = secret[c]
                /\ \A f \in served : ClientOf[f] = c /\ now < access'[f]]_vars

\* The cleanup worker removes no token state before its family's deadline, and
\* no history of a family that is live.
CleanupSparesLiveFamilies ==
    [][CleanupBatch =>
         \A f \in states :
            /\ deadline[f] > now => f \in states'
            /\ f \in states' => \A g \in Generations : <<f, g>> \in history => <<f, g>> \in history']_vars

\* A pass that ends of itself leaves nothing that was dead at its cutoff, whatever the
\* pages it took and whatever was committed between them (drain_oauth2_cleanup).
PurgesAreComplete ==
    [][CleanupBatch /\ cutoff' = None =>
         \A f \in Families : \/ session'[f] \in {"absent", "deleted"}
                             \/ f \in states' /\ cutoff < deadline'[f]]_vars

\* Every family that is ended, orphaned or past its deadline is removed in the end.
DeadFamiliesArePurged ==
    \A f \in Families :
        session[f] # "absent" /\ (f \notin states \/ deadline[f] <= now) ~> session[f] = "deleted"

\* What a token family promises: see TokenAuthority.
Standing == [f \in Families |-> IF session[f] = "absent" THEN "none"
                                ELSE IF f \in states THEN "live" ELSE "dead"]
Authority == INSTANCE TokenAuthority WITH standing <- Standing, until <- deadline, used <- redeemed

\* Authority is granted once, passed on only by the newest unused refresh token
\* before the deadline set when it was granted, and never comes back.
ImplementsAuthority == Authority!Spec
=============================================================================
