------------------------- MODULE TokenFamilyProofs -------------------------
(* Theorems about TokenFamily, for every value of its constants.           *)
EXTENDS TokenFamily, FiniteSetTheorems, TLAPS

-----------------------------------------------------------------------------
(* The type invariant in parts, and the shapes a step can have.            *)

RowsOK ==
    /\ session \in [Families -> {"absent", "active", "ended", "deleted"}]
    /\ states \subseteq {f \in Families : session[f] = "active"}
    /\ gen \in [Families -> Generations]
    /\ deadline \in [Families -> Nat]
    /\ access \in [Families -> Nat]
    /\ history \subseteq Families \X Generations
    /\ \A f \in states : access[f] <= deadline[f]

RegistryOK ==
    /\ policy \in [Clients -> {"permits", "narrowed", "inactive", "deleted"}]
    /\ secret \in [Clients -> 0..MaxSecrets]
    /\ account \in [Users -> {"eligible", "ineligible", "deleted"}]

RequestOK ==
    /\ pc \in [Requests -> {"idle", "grant", "load", "rotate", "reuse", "expired"}]
    /\ client \in [Requests -> Clients \cup {None}]
    /\ seen \in [Requests -> (0..MaxSecrets) \cup {None}]
    /\ family \in [Requests -> Families \cup {None}]
    /\ generation \in [Requests -> Generations]
    /\ expiredAt \in [Requests -> 0..MaxNow]

RestOK ==
    /\ now \in 0..MaxNow
    /\ cutoff \in (0..MaxNow) \cup {None}
    /\ redeemed \in [Families -> [Generations -> Nat]]
    /\ rejected \subseteq Families \X Generations

\* TypeOK is the conjunction of its parts.
LEMMA TypeSplit == TypeOK <=> RowsOK /\ RegistryOK /\ RequestOK /\ RestOK
  BY DEF TypeOK, RowsOK, RegistryOK, RequestOK, RestOK

\* The rows of live families only grow fewer; nothing comes back and nothing of
\* what stays is rewritten.
Shrinks ==
    /\ states' \subseteq states
    /\ \A f \in Families : session'[f] = "absent" <=> session[f] = "absent"
    /\ \A f \in states' : \A g \in Generations : <<f, g>> \in history => <<f, g>> \in history'
    /\ UNCHANGED <<gen, deadline, access>>

\* A request wins the compare-and-swap.
Rotates(r) ==
    /\ pc[r] = "rotate"
    /\ MayRotate(r) /\ gen[family[r]] < MaxRotations /\ Rotated(r)
    /\ Finish(r)
    /\ UNCHANGED <<registry, now, cutoff>>

\* Ending families only removes live rows.
LEMMA EndShrinks ==
    ASSUME NEW ending \in SUBSET Families, RowsOK, End(ending)
    PROVE  RowsOK' /\ Shrinks
  <1>1. session' \in [Families -> {"absent", "active", "ended", "deleted"}]
    BY DEF End, RowsOK
  <1>2. \A f \in Families : session'[f] = "absent" <=> session[f] = "absent"
    BY DEF End, RowsOK
  <1>3. \A f \in states' : f \in Families /\ session'[f] = "active"
    BY DEF End, RowsOK
  <1>4. QED
    BY <1>1, <1>2, <1>3 DEF End, RowsOK, Shrinks

\* Deleting families only removes live rows.
LEMMA DeleteShrinks ==
    ASSUME NEW gone \in SUBSET Families, RowsOK, Delete(gone)
    PROVE  RowsOK' /\ Shrinks
  <1>1. session' \in [Families -> {"absent", "active", "ended", "deleted"}]
    BY DEF Delete, RowsOK
  <1>2. \A f \in Families : session'[f] = "absent" <=> session[f] = "absent"
    BY DEF Delete, RowsOK
  <1>3. \A f \in states' : f \in Families /\ session'[f] = "active"
    BY DEF Delete, RowsOK
  <1>4. \A f \in states' : \A g \in Generations : <<f, g>> \in history => <<f, g>> \in history'
    BY DEF Delete
  <1>5. history' \subseteq Families \X Generations
    BY DEF Delete, RowsOK
  <1>6. QED
    BY <1>1, <1>2, <1>3, <1>4, <1>5 DEF Delete, RowsOK, Shrinks

\* A batch takes sessions that are not live: a deleted one was issued.
LEMMA CleanupShrinks ==
    ASSUME RowsOK, CleanupBatch
    PROVE  RowsOK' /\ Shrinks
  <1>1. PICK expired \in SUBSET states, terminal \in SUBSET Families :
          /\ IsBatch(terminal, {f \in Families : Terminal(f, states \ expired)})
          /\ session' = [f \in Families |-> IF f \in terminal THEN "deleted" ELSE session[f]]
          /\ states' = (states \ expired) \ terminal
          /\ history' = {t \in history : t[1] \notin terminal}
          /\ UNCHANGED <<gen, deadline, access>>
    BY DEF CleanupBatch
  <1>2. \A f \in terminal : session[f] # "absent"
    BY <1>1 DEF IsBatch, Terminal
  <1>3. session' \in [Families -> {"absent", "active", "ended", "deleted"}]
    BY <1>1 DEF RowsOK
  <1>4. \A f \in Families : session'[f] = "absent" <=> session[f] = "absent"
    BY <1>1, <1>2 DEF RowsOK
  <1>5. \A f \in states' : f \in Families /\ session'[f] = "active"
    BY <1>1 DEF RowsOK
  <1>6. \A f \in states' : \A g \in Generations : <<f, g>> \in history => <<f, g>> \in history'
    BY <1>1
  <1>7. history' \subseteq Families \X Generations
    BY <1>1 DEF RowsOK
  <1>8. QED
    BY <1>1, <1>3, <1>4, <1>5, <1>6, <1>7 DEF RowsOK, Shrinks

\* Handing every request back to idle keeps its variables' types.
LEMMA FinishType ==
    ASSUME NEW r \in Requests, RequestOK, Finish(r)
    PROVE  RequestOK'
  BY TokenFamilyAssumption DEF Finish, RequestOK, Generations

\* Leaving the rows alone removes nothing.
LEMMA UnchangedShrinks ==
    ASSUME RowsOK, UNCHANGED rows
    PROVE  RowsOK' /\ Shrinks
  BY DEF rows, RowsOK, Shrinks

-----------------------------------------------------------------------------
(* Every step shrinks the live rows, issues a family or rotates one.       *)

\* What an issue does to the rows.
LEMMA IssueRows ==
    ASSUME NEW r \in Requests, NEW f \in Families, RowsOK, RestOK, Issue(r, f)
    PROVE  RowsOK'
  <1> DEFINE until == now + (IF f \in AccessOnly THEN AccessLifetime ELSE RefreshLifetime)
             first == Least(now + AccessLifetime, until)
  <1>1. until \in Nat /\ first \in Nat /\ first <= until
    BY TokenFamilyAssumption DEF RestOK, Least
  <1>2. /\ session' = [session EXCEPT ![f] = "active"]
        /\ states' = states \cup {f}
        /\ deadline' = [deadline EXCEPT ![f] = until]
        /\ access' = [access EXCEPT ![f] = first]
        /\ UNCHANGED <<gen, history>>
    BY DEF Issue
  <1> HIDE DEF until, first
  <1>3. QED
    BY <1>1, <1>2 DEF RowsOK

\* What a rotation does to the rows.
LEMMA RotatesRows ==
    ASSUME NEW r \in Requests, RowsOK, RequestOK, RestOK, Rotates(r)
    PROVE  /\ RowsOK'
           /\ family[r] \in states /\ family[r] \in Families
           /\ gen[family[r]] = generation[r] /\ generation[r] < MaxRotations
  <1> DEFINE f == family[r]
             first == Least(now + AccessLifetime, deadline[f])
  <1>1. f \in states /\ f \in Families /\ gen[f] = generation[r]
    BY DEF Rotates, MayRotate, Current, RowsOK
  <1>2. first \in Nat /\ first <= deadline[f]
    BY <1>1, TokenFamilyAssumption DEF RestOK, RowsOK, Least
  <1>3. gen[f] + 1 \in Generations /\ generation[r] \in Generations
    BY <1>1, TokenFamilyAssumption DEF Rotates, RowsOK, RequestOK, Generations
  <1>4. /\ gen' = [gen EXCEPT ![f] = @ + 1]
        /\ access' = [access EXCEPT ![f] = first]
        /\ history' = history \cup {<<f, generation[r]>>}
        /\ UNCHANGED <<session, states, deadline>>
    BY DEF Rotates, Rotated
  <1>5. generation[r] < MaxRotations
    BY <1>1 DEF Rotates
  <1> HIDE DEF f, first
  <1>6. RowsOK'
    BY <1>1, <1>2, <1>3, <1>4 DEF RowsOK
  <1>7. QED
    BY <1>1, <1>5, <1>6 DEF f

\* Every step shrinks the live rows, issues a family or rotates one.
LEMMA RowSteps ==
    ASSUME TypeOK, [Next]_vars
    PROVE  /\ RowsOK'
           /\ \/ Shrinks /\ UNCHANGED redeemed
              \/ \E r \in Requests, f \in Families : Issue(r, f)
              \/ \E r \in Requests : Rotates(r)
  <1>a. RowsOK /\ RequestOK /\ RestOK
    BY TypeSplit
  <1> USE <1>a
  <1>1. ASSUME NEW r \in Requests, Serve(r)
        PROVE  /\ RowsOK'
               /\ \/ Shrinks /\ UNCHANGED redeemed
                  \/ \E f \in Families : Issue(r, f)
                  \/ Rotates(r)
    <2>1. CASE \/ \E c \in Clients : \/ AuthenticateGrant(r, c)
                                     \/ \E f \in Families, g \in Generations :
                                           AuthenticateRefresh(r, c, f, g)
               \/ LoadFamily(r) \/ Abandon(r)
      BY <2>1, UnchangedShrinks
         DEF AuthenticateGrant, AuthenticateRefresh, LoadFamily, Abandon, ghosts
    <2>2. ASSUME NEW f \in Families, Issue(r, f)
          PROVE  RowsOK'
      BY <2>2, IssueRows
    <2>3. ASSUME Rotate(r)
          PROVE  RowsOK' /\ (Rotates(r) \/ (Shrinks /\ UNCHANGED redeemed))
      <3>1. CASE Rotates(r)
        BY <3>1, RotatesRows
      <3>2. CASE UNCHANGED <<rows, ghosts>>
        BY <3>2, UnchangedShrinks DEF ghosts
      <3>3. QED
        BY <2>3, <3>1, <3>2 DEF Rotate, Rotates
    <2>4. CASE RevokeReused(r)
      <3>1. PICK ending \in SUBSET Families : End(ending)
        BY <2>4 DEF RevokeReused, RowsOK
      <3>2. QED
        BY <2>4, <3>1, EndShrinks DEF RevokeReused
    <2>5. CASE Expire(r)
      <3>1. PICK ending \in SUBSET Families : End(ending)
        BY <2>5 DEF Expire, Current, RowsOK
      <3>2. QED
        BY <2>5, <3>1, EndShrinks DEF Expire, ghosts
    <2>6. QED
      BY <1>1, <2>1, <2>2, <2>3, <2>4, <2>5 DEF Serve
  <1>2. ASSUME Administer
        PROVE  RowsOK' /\ Shrinks /\ UNCHANGED redeemed
    <2>1. UNCHANGED redeemed
      BY <1>2 DEF Administer, RevokeFamily, NarrowClient, WidenClient, RotateSecret,
                  DeleteClient, ChangeSecurity, DeleteUser, RevokeUsers, Clear,
                  RevokeClientIn, RevokeAll, ghosts
    <2>2. \/ \E ending \in SUBSET Families : End(ending)
          \/ \E gone \in SUBSET Families : Delete(gone)
          \/ UNCHANGED rows
      <3>1. /\ \A c \in Clients : FamiliesOf(c) \subseteq Families
            /\ \A U \in SUBSET Users : Owned(U) \subseteq Families
            /\ \A u \in Users : Owned({u}) \subseteq Families
        BY DEF FamiliesOf, Owned
      <3>2. ASSUME NEW f \in Families, RevokeFamily(f)
            PROVE  \E ending \in SUBSET Families : End(ending)
        BY <3>2 DEF RevokeFamily
      <3>3. ASSUME NEW c \in Clients,
                   NarrowClient(c) \/ WidenClient(c) \/ RotateSecret(c) \/ DeleteClient(c)
            PROVE  \/ \E ending \in SUBSET Families : End(ending)
                   \/ \E gone \in SUBSET Families : Delete(gone)
                   \/ UNCHANGED rows
        <4>1. FamiliesOf(c) \cap states \in SUBSET Families /\ FamiliesOf(c) \in SUBSET Families
          BY <3>1
        <4>2. QED
          BY <3>3, <4>1 DEF NarrowClient, WidenClient, RotateSecret, DeleteClient
      <3>4. ASSUME NEW u \in Users, ChangeSecurity(u) \/ DeleteUser(u)
            PROVE  \/ \E ending \in SUBSET Families : End(ending)
                   \/ \E gone \in SUBSET Families : Delete(gone)
        BY <3>1, <3>4 DEF ChangeSecurity, DeleteUser
      <3>5. ASSUME NEW U \in SUBSET Users,
                   \/ RevokeUsers(U) \/ Clear(Owned(U))
                   \/ \E c \in Clients : RevokeClientIn(c, U)
            PROVE  \/ \E ending \in SUBSET Families : End(ending)
                   \/ \E gone \in SUBSET Families : Delete(gone)
        <4>1. \A c \in Clients : FamiliesOf(c) \cap Owned(U) \cap states \in SUBSET Families
          BY <3>1
        <4>2. QED
          BY <3>1, <3>5, <4>1 DEF RevokeUsers, Clear, RevokeClientIn
      <3>6. CASE RevokeAll \/ Clear(Families)
        BY <3>6 DEF RevokeAll, Clear
      <3>7. QED
        BY <1>2, <3>2, <3>3, <3>4, <3>5, <3>6 DEF Administer
    <2>3. QED
      BY <2>1, <2>2, EndShrinks, DeleteShrinks, UnchangedShrinks
  <1>3. CASE CleanupBatch
    BY <1>3, CleanupShrinks DEF CleanupBatch, ghosts
  <1>4. CASE StartPass \/ CleanupFails \/ Tick \/ UNCHANGED vars
    BY <1>4, UnchangedShrinks DEF StartPass, CleanupFails, Tick, vars, ghosts
  <1>5. QED
    BY <1>1, <1>2, <1>3, <1>4 DEF Next

-----------------------------------------------------------------------------
(* The inductive invariant.                                                *)

\* What a request between two transactions has learnt stays true enough: its
\* family exists, its token was issued, and a token found replaced is not current.
RequestInv ==
    \A r \in Requests :
        /\ expiredAt[r] <= now
        /\ pc[r] \in {"load", "rotate", "reuse", "expired"} =>
              /\ family[r] \in Families
              /\ session[family[r]] # "absent"
              /\ generation[r] <= gen[family[r]]
        /\ pc[r] = "reuse" => family[r] \notin states \/ generation[r] < gen[family[r]]

\* The history is complete for a live family, and agrees with what was redeemed.
RecordInv ==
    \A f \in Families :
        /\ session[f] = "absent" => gen[f] = 0
        /\ \A g \in Generations : redeemed[f][g] = IF g < gen[f] THEN 1 ELSE 0
        /\ f \in states => \A g \in Generations : g < gen[f] => <<f, g>> \in history

ReplayInv == \A t \in rejected : session[t[1]] # "absent" /\ t[1] \notin states

CutoffInv == cutoff # None => cutoff <= now

FamilyInv == RequestInv /\ RecordInv /\ ReplayInv /\ CutoffInv

\* The initial state satisfies the invariant.
LEMMA InitInv == Init => TypeOK /\ FamilyInv
  <1> SUFFICES ASSUME Init
               PROVE  TypeOK /\ FamilyInv
    OBVIOUS
  <1>1. 0 \in Generations /\ 0 \in 0..MaxSecrets /\ 0 \in 0..MaxNow /\ Generations \subseteq Nat
    BY TokenFamilyAssumption DEF Generations
  <1>2. RowsOK /\ RegistryOK /\ RequestOK
    BY <1>1 DEF Init, RowsOK, RegistryOK, RequestOK
  <1>3. RestOK
    BY <1>1 DEF Init, RestOK
  <1>4. \A f \in Families, g \in Generations : redeemed[f][g] = 0 /\ ~(g < gen[f])
    BY <1>1 DEF Init
  <1>5. QED
    BY <1>2, <1>3, <1>4, TypeSplit
       DEF Init, FamilyInv, RequestInv, RecordInv, ReplayInv, CutoffInv

\* Only a tick moves the clock.
LEMMA TimeSteps == [Next]_vars => Tick \/ UNCHANGED now
  BY DEF Next, Serve, Administer, AuthenticateGrant, AuthenticateRefresh, LoadFamily,
         Issue, Rotate, RevokeReused, Expire, Abandon, RevokeFamily, NarrowClient,
         WidenClient, RotateSecret, DeleteClient, ChangeSecurity, DeleteUser,
         RevokeUsers, Clear, RevokeClientIn, RevokeAll, StartPass, CleanupBatch,
         CleanupFails, vars

\* Time and generations only move forward, and a family is issued only once.
LEMMA Forward ==
    ASSUME TypeOK, [Next]_vars
    PROVE  /\ now <= now' /\ now' \in 0..MaxNow
           /\ \A f \in Families : /\ gen[f] <= gen'[f]
                                  /\ session[f] # "absent" => session'[f] # "absent"
                                  /\ f \in states' => f \in states \/ session[f] = "absent"
  <1>a. RowsOK /\ RequestOK /\ RestOK
    BY TypeSplit
  <1>1. now' = now \/ (now < MaxNow /\ now' = now + 1)
    BY TimeSteps DEF Tick
  <1>2. now <= now' /\ now' \in 0..MaxNow
    BY <1>1, <1>a, TokenFamilyAssumption DEF RestOK
  <1>3. \A f \in Families : gen[f] \in Nat
    BY <1>a, TokenFamilyAssumption DEF RowsOK, Generations
  <1>4. CASE Shrinks
    BY <1>2, <1>3, <1>4 DEF Shrinks
  <1>5. ASSUME NEW r \in Requests, NEW f \in Families, Issue(r, f)
        PROVE  \A h \in Families : /\ gen[h] <= gen'[h]
                                   /\ session[h] # "absent" => session'[h] # "absent"
                                   /\ h \in states' => h \in states \/ session[h] = "absent"
    BY <1>3, <1>5, <1>a DEF Issue, RowsOK
  <1>6. ASSUME NEW r \in Requests, Rotates(r)
        PROVE  \A h \in Families : /\ gen[h] <= gen'[h]
                                   /\ session[h] # "absent" => session'[h] # "absent"
                                   /\ h \in states' => h \in states \/ session[h] = "absent"
    BY <1>3, <1>6, <1>a DEF Rotates, Rotated, RowsOK
  <1>7. QED
    BY <1>2, <1>4, <1>5, <1>6, RowSteps

\* A step serves at most one request, and finishes it unless it carries it on.
LEMMA RequestSteps ==
    ASSUME [Next]_vars
    PROVE  \/ UNCHANGED request
           \/ \E r \in Requests :
                \/ Finish(r)
                \/ LoadFamily(r)
                \/ \E c \in Clients : \/ AuthenticateGrant(r, c)
                                      \/ \E f \in Families, g \in Generations :
                                            AuthenticateRefresh(r, c, f, g)
  <1>1. ASSUME NEW r \in Requests, Serve(r)
        PROVE  \/ Finish(r)
               \/ LoadFamily(r)
               \/ \E c \in Clients : \/ AuthenticateGrant(r, c)
                                     \/ \E f \in Families, g \in Generations :
                                           AuthenticateRefresh(r, c, f, g)
    BY <1>1 DEF Serve, Issue, Rotate, RevokeReused, Expire, Abandon
  <1>2. ASSUME Administer
        PROVE  UNCHANGED request
    BY <1>2 DEF Administer, RevokeFamily, NarrowClient, WidenClient, RotateSecret,
                DeleteClient, ChangeSecurity, DeleteUser, RevokeUsers, Clear,
                RevokeClientIn, RevokeAll
  <1>3. CASE StartPass \/ CleanupBatch \/ CleanupFails \/ Tick \/ UNCHANGED vars
    BY <1>3 DEF StartPass, CleanupBatch, CleanupFails, Tick, vars
  <1>4. QED
    BY <1>1, <1>2, <1>3 DEF Next

\* A request handed on keeps what the invariant says of every request.
LEMMA RequestInvStep ==
    ASSUME TypeOK, RequestInv, [Next]_vars
    PROVE  RequestOK' /\ RequestInv'
  <1>a. RowsOK /\ RegistryOK /\ RequestOK /\ RestOK
    BY TypeSplit
  <1>b. /\ 0 \in Nat /\ now \in Nat /\ now' \in Nat /\ Generations \subseteq Nat
        /\ now <= now'
        /\ \A f \in Families : gen[f] \in Nat /\ gen'[f] \in Nat
        /\ \A r \in Requests : expiredAt[r] \in Nat /\ generation[r] \in Nat
    <2>1. RowsOK'
      BY RowSteps
    <2>2. QED
      BY <1>a, <2>1, Forward, TokenFamilyAssumption DEF RestOK, RowsOK, RequestOK, Generations
  <1>c. \A f \in Families : session[f] = "absent" => f \notin states
    BY <1>a DEF RowsOK
  \* The invariant of one request, and that a step that leaves it alone keeps it.
  <1> DEFINE One(r) ==
        /\ expiredAt[r] <= now
        /\ pc[r] \in {"load", "rotate", "reuse", "expired"} =>
              /\ family[r] \in Families
              /\ session[family[r]] # "absent"
              /\ generation[r] <= gen[family[r]]
        /\ pc[r] = "reuse" => family[r] \notin states \/ generation[r] < gen[family[r]]
  <1>1. ASSUME NEW r \in Requests,
               /\ pc'[r] = pc[r] /\ family'[r] = family[r] /\ generation'[r] = generation[r]
               /\ expiredAt'[r] = expiredAt[r]
        PROVE  One(r)'
    <2>1. One(r)
      BY DEF RequestInv
    <2>2. expiredAt'[r] <= now'
      BY <1>1, <1>b, <2>1
    <2>3. CASE pc[r] \in {"load", "rotate", "reuse", "expired"}
      <3>1. /\ family[r] \in Families /\ session[family[r]] # "absent"
            /\ generation[r] <= gen[family[r]]
        BY <2>1, <2>3
      <3>2. /\ session'[family[r]] # "absent" /\ gen[family[r]] <= gen'[family[r]]
            /\ family[r] \in states' => family[r] \in states
        BY <3>1, Forward
      <3>3. generation[r] <= gen'[family[r]]
        BY <3>1, <3>2, <1>b
      <3>4. generation[r] < gen[family[r]] => generation[r] < gen'[family[r]]
        BY <3>1, <3>2, <1>b
      <3>5. QED
        BY <1>1, <2>1, <2>2, <3>1, <3>2, <3>3, <3>4
    <2>4. CASE pc[r] \notin {"load", "rotate", "reuse", "expired"}
      BY <1>1, <2>2, <2>4
    <2>5. QED
      BY <2>3, <2>4
  <1>2. ASSUME NEW f \in Families, NEW g \in Generations
        PROVE  /\ Verdict(f, g) \in {"reuse", "expired", "rotate"}
               /\ g <= gen[f] /\ Verdict(f, g) = "reuse" => f \notin states \/ g < gen[f]
    BY <1>b DEF Verdict
  <1>3. CASE UNCHANGED request
    <2>1. RequestOK'
      BY <1>3, <1>a DEF request, RequestOK
    <2>2. QED
      BY <1>3, <1>1, <2>1 DEF request, RequestInv
  <1>4. ASSUME NEW r \in Requests, Finish(r)
        PROVE  RequestOK' /\ RequestInv'
    <2>1. RequestOK'
      BY <1>4, <1>a, FinishType
    <2>2. ASSUME NEW q \in Requests \ {r}
          PROVE  One(q)'
      BY <1>1, <1>4, <1>a DEF Finish, RequestOK
    <2>3. pc'[r] = "idle" /\ expiredAt'[r] = 0
      BY <1>4, <1>a DEF Finish, RequestOK
    <2>4. One(r)'
      BY <2>3, <1>b
    <2>5. QED
      BY <2>1, <2>2, <2>4 DEF RequestInv
  <1>5. ASSUME NEW r \in Requests, LoadFamily(r)
        PROVE  RequestOK' /\ RequestInv'
    <2>1. /\ family[r] \in Families /\ session[family[r]] # "absent"
          /\ generation[r] <= gen[family[r]] /\ generation[r] \in Generations
      BY <1>5, <1>a DEF LoadFamily, RequestInv, RequestOK
    <2>2. /\ pc' = [pc EXCEPT ![r] = Verdict(family[r], generation[r])]
          /\ expiredAt' = [expiredAt EXCEPT ![r] = now]
          /\ UNCHANGED <<rows, now, client, seen, family, generation>>
      BY <1>5 DEF LoadFamily
    <2>3. RequestOK'
      BY <2>1, <2>2, <1>2, <1>a DEF RequestOK, RestOK
    <2>4. ASSUME NEW q \in Requests \ {r}
          PROVE  One(q)'
      BY <1>1, <2>2, <1>a DEF RequestOK
    <2>5. pc'[r] = Verdict(family[r], generation[r]) /\ expiredAt'[r] = now
      BY <2>2, <1>a DEF RequestOK
    <2>6. One(r)'
      BY <2>1, <2>2, <2>5, <1>2, <1>b DEF rows
    <2>7. QED
      BY <2>3, <2>4, <2>6 DEF RequestInv
  <1>6. ASSUME NEW r \in Requests, NEW c \in Clients, AuthenticateGrant(r, c)
        PROVE  RequestOK' /\ RequestInv'
    <2>1. /\ pc' = [pc EXCEPT ![r] = "grant"]
          /\ client' = [client EXCEPT ![r] = c]
          /\ seen' = [seen EXCEPT ![r] = secret[c]]
          /\ UNCHANGED <<rows, now, family, generation, expiredAt>>
      BY <1>6 DEF AuthenticateGrant, Authenticated
    <2>2. RequestOK'
      BY <2>1, <1>a DEF RequestOK, RegistryOK
    <2>3. ASSUME NEW q \in Requests \ {r}
          PROVE  One(q)'
      BY <1>1, <2>1, <1>a DEF RequestOK
    <2>4. pc'[r] = "grant" /\ expiredAt'[r] = expiredAt[r]
      BY <2>1, <1>a DEF RequestOK
    <2>5. One(r)'
      BY <2>1, <2>4 DEF RequestInv
    <2>6. QED
      BY <2>2, <2>3, <2>5 DEF RequestInv
  <1>7. ASSUME NEW r \in Requests, NEW c \in Clients, NEW f \in Families,
               NEW g \in Generations, AuthenticateRefresh(r, c, f, g)
        PROVE  RequestOK' /\ RequestInv'
    <2>1. /\ session[f] # "absent" /\ g <= gen[f]
          /\ client' = [client EXCEPT ![r] = c]
          /\ seen' = [seen EXCEPT ![r] = secret[c]]
          /\ family' = [family EXCEPT ![r] = f]
          /\ generation' = [generation EXCEPT ![r] = g]
          /\ UNCHANGED <<rows, now>>
      BY <1>7 DEF AuthenticateRefresh, Authenticated
    <2>2. \/ /\ pc' = [pc EXCEPT ![r] = "load"]
             /\ expiredAt' = expiredAt
          \/ /\ pc' = [pc EXCEPT ![r] = Verdict(f, g)]
             /\ expiredAt' = [expiredAt EXCEPT ![r] = now]
      BY <1>7 DEF AuthenticateRefresh
    <2>3. RequestOK'
      BY <2>1, <2>2, <1>2, <1>a DEF RequestOK, RegistryOK, RestOK
    <2>4. ASSUME NEW q \in Requests \ {r}
          PROVE  One(q)'
      BY <1>1, <2>1, <2>2, <1>a DEF RequestOK
    <2>5. /\ family'[r] = f /\ generation'[r] = g /\ expiredAt'[r] \in {expiredAt[r], now}
          /\ pc'[r] \in {"load", Verdict(f, g)}
      BY <2>1, <2>2, <1>a DEF RequestOK
    <2>6. session'[f] # "absent" /\ g <= gen'[f] /\ states' = states /\ gen' = gen /\ now' = now
      BY <2>1 DEF rows
    <2>7. One(r)'
      BY <2>1, <2>5, <2>6, <1>2, <1>b DEF RequestInv
    <2>8. QED
      BY <2>3, <2>4, <2>7 DEF RequestInv
  <1>8. QED
    BY <1>3, <1>4, <1>5, <1>6, <1>7, RequestSteps

\* The client registry and the users keep their types.
LEMMA RegistryStep ==
    ASSUME TypeOK, [Next]_vars
    PROVE  RegistryOK'
  <1>a. RegistryOK
    BY TypeSplit
  <1>1. CASE UNCHANGED registry
    BY <1>1, <1>a DEF registry, RegistryOK
  <1>2. ASSUME NEW c \in Clients, NarrowClient(c) \/ WidenClient(c) \/ DeleteClient(c)
        PROVE  RegistryOK'
    <2>1. /\ \E p \in {"permits", "narrowed", "inactive", "deleted"} :
               policy' = [policy EXCEPT ![c] = p]
          /\ UNCHANGED <<secret, account>>
      BY <1>2 DEF NarrowClient, WidenClient, DeleteClient
    <2>2. QED
      BY <2>1, <1>a DEF RegistryOK
  <1>3. ASSUME NEW c \in Clients, RotateSecret(c)
        PROVE  RegistryOK'
    <2>1. /\ secret[c] < MaxSecrets /\ secret' = [secret EXCEPT ![c] = @ + 1]
          /\ UNCHANGED <<policy, account>>
      BY <1>3 DEF RotateSecret
    <2>2. secret[c] + 1 \in 0..MaxSecrets
      BY <2>1, <1>a, TokenFamilyAssumption DEF RegistryOK
    <2>3. QED
      BY <2>1, <2>2, <1>a DEF RegistryOK
  <1>4. ASSUME NEW u \in Users, ChangeSecurity(u) \/ DeleteUser(u)
        PROVE  RegistryOK'
    <2>1. /\ \E a \in {"eligible", "ineligible", "deleted"} :
               account' = [account EXCEPT ![u] = a]
          /\ UNCHANGED <<policy, secret>>
      BY <1>4 DEF ChangeSecurity, DeleteUser
    <2>2. QED
      BY <2>1, <1>a DEF RegistryOK
  <1>5. \/ UNCHANGED registry
        \/ \E c \in Clients : NarrowClient(c) \/ WidenClient(c) \/ RotateSecret(c) \/ DeleteClient(c)
        \/ \E u \in Users : ChangeSecurity(u) \/ DeleteUser(u)
    BY DEF Next, Serve, Administer, AuthenticateGrant, AuthenticateRefresh, LoadFamily,
           Issue, Rotate, RevokeReused, Expire, Abandon, RevokeFamily, RevokeUsers, Clear,
           RevokeClientIn, RevokeAll, StartPass, CleanupBatch, CleanupFails, Tick, vars
  <1>6. QED
    BY <1>1, <1>2, <1>3, <1>4, <1>5

\* What was redeemed, the generations and the history stay in step.
LEMMA RecordInvStep ==
    ASSUME TypeOK, RecordInv, [Next]_vars
    PROVE  /\ redeemed' \in [Families -> [Generations -> Nat]]
           /\ RecordInv'
  <1>a. RowsOK /\ RequestOK /\ RestOK
    BY TypeSplit
  <1>b. Generations \subseteq Nat
    BY TokenFamilyAssumption DEF Generations
  <1>1. CASE Shrinks /\ UNCHANGED redeemed
    <2>1. redeemed' \in [Families -> [Generations -> Nat]]
      BY <1>1, <1>a DEF RestOK
    <2>2. ASSUME NEW f \in Families
          PROVE  /\ session'[f] = "absent" => gen'[f] = 0
                 /\ \A g \in Generations : redeemed'[f][g] = IF g < gen'[f] THEN 1 ELSE 0
                 /\ f \in states' => \A g \in Generations : g < gen'[f] => <<f, g>> \in history'
      BY <1>1 DEF Shrinks, RecordInv
    <2>3. QED
      BY <2>1, <2>2 DEF RecordInv
  <1>2. ASSUME NEW r \in Requests, NEW h \in Families, Issue(r, h)
        PROVE  redeemed' \in [Families -> [Generations -> Nat]] /\ RecordInv'
    <2>1. /\ session[h] = "absent" /\ session' = [session EXCEPT ![h] = "active"]
          /\ states' = states \cup {h}
          /\ UNCHANGED <<gen, history, redeemed>>
      BY <1>2 DEF Issue, ghosts
    <2>2. ASSUME NEW f \in Families
          PROVE  /\ session'[f] = "absent" => gen'[f] = 0
                 /\ \A g \in Generations : redeemed'[f][g] = IF g < gen'[f] THEN 1 ELSE 0
                 /\ f \in states' => \A g \in Generations : g < gen'[f] => <<f, g>> \in history'
      <3>1. session'[f] = "absent" => session[f] = "absent"
        BY <2>1, <1>a DEF RowsOK
      <3>2. gen[h] = 0 /\ \A g \in Generations : ~(g < 0)
        BY <2>1, <1>b DEF RecordInv
      <3>3. QED
        BY <2>1, <3>1, <3>2 DEF RecordInv
    <2>3. QED
      BY <2>1, <2>2, <1>a DEF RecordInv, RestOK
  <1>3. ASSUME NEW r \in Requests, Rotates(r)
        PROVE  redeemed' \in [Families -> [Generations -> Nat]] /\ RecordInv'
    <2> DEFINE h == family[r]
               k == generation[r]
    <2>1. h \in states /\ h \in Families /\ gen[h] = k /\ k \in Generations /\ k \in Nat
      BY <1>3, <1>a, <1>b, RotatesRows DEF RequestOK
    <2>2. /\ gen' = [gen EXCEPT ![h] = @ + 1]
          /\ history' = history \cup {<<h, k>>}
          /\ redeemed' = [redeemed EXCEPT ![h][k] = @ + 1]
          /\ UNCHANGED <<session, states>>
      BY <1>3 DEF Rotates, Rotated
    <2> HIDE DEF h, k
    <2>3. redeemed[h][k] = 0
      BY <2>1 DEF RecordInv
    <2> DEFINE row == [redeemed[h] EXCEPT ![k] = redeemed[h][k] + 1]
    <2>a. /\ redeemed[h] \in [Generations -> Nat]
          /\ redeemed' = [redeemed EXCEPT ![h] = row]
      <3>1. redeemed[h] \in [Generations -> Nat]
        BY <2>1, <1>a DEF RestOK
      <3>2. redeemed' = [redeemed EXCEPT ![h] = row]
        BY <2>2
      <3>3. QED
        BY <3>1, <3>2
    <2>b. /\ row \in [Generations -> Nat] /\ row[k] = 1
          /\ \A g \in Generations : g # k => row[g] = redeemed[h][g]
      BY <2>1, <2>3, <2>a
    <2> HIDE DEF row
    <2>c. redeemed'[h] = row /\ \A f \in Families \ {h} : redeemed'[f] = redeemed[f]
      BY <2>1, <2>a, <1>a DEF RestOK
    <2>4. redeemed' \in [Families -> [Generations -> Nat]]
      BY <2>a, <2>b, <1>a DEF RestOK
    <2>5. /\ gen'[h] = k + 1 /\ redeemed'[h][k] = 1
          /\ \A g \in Generations : g # k => redeemed'[h][g] = redeemed[h][g]
          /\ \A f \in Families \ {h} : gen'[f] = gen[f] /\ redeemed'[f] = redeemed[f]
      BY <2>1, <2>2, <2>b, <2>c, <1>a DEF RowsOK
    <2>6. ASSUME NEW f \in Families \ {h}
          PROVE  /\ session'[f] = "absent" => gen'[f] = 0
                 /\ \A g \in Generations : redeemed'[f][g] = IF g < gen'[f] THEN 1 ELSE 0
                 /\ f \in states' => \A g \in Generations : g < gen'[f] => <<f, g>> \in history'
      BY <2>2, <2>5 DEF RecordInv
    <2>7. session'[h] # "absent"
      BY <2>1, <2>2, <1>a DEF RowsOK
    <2>8. \A g \in Generations : redeemed'[h][g] = IF g < gen'[h] THEN 1 ELSE 0
      <3>1. \A g \in Generations : g # k => (g < k <=> g < k + 1)
        BY <2>1, <1>b
      <3>2. \A g \in Generations : redeemed[h][g] = IF g < k THEN 1 ELSE 0
        BY <2>1 DEF RecordInv
      <3>3. k < k + 1
        BY <2>1
      <3>4. QED
        BY <2>5, <3>1, <3>2, <3>3
    <2>9. \A g \in Generations : g < gen'[h] => <<h, g>> \in history'
      <3>1. \A g \in Generations : g < k + 1 => g < k \/ g = k
        BY <2>1, <1>b
      <3>2. \A g \in Generations : g < k => <<h, g>> \in history
        BY <2>1 DEF RecordInv
      <3>3. QED
        BY <2>2, <2>5, <3>1, <3>2
    <2>10. QED
      BY <2>4, <2>6, <2>7, <2>8, <2>9 DEF RecordInv
  <1>4. QED
    BY <1>1, <1>2, <1>3, RowSteps

\* A refused token's family is over: the history says whose it was.
LEMMA ReplayInvStep ==
    ASSUME TypeOK, FamilyInv, [Next]_vars
    PROVE  rejected' \subseteq Families \X Generations /\ ReplayInv'
  <1>a. RowsOK /\ RequestOK /\ RestOK
    BY TypeSplit
  <1>1. CASE UNCHANGED rejected
    <2>1. \A t \in rejected : t[1] \in Families
      BY <1>a DEF RestOK
    <2>2. \A t \in rejected : session'[t[1]] # "absent" /\ t[1] \notin states'
      BY <2>1, Forward DEF FamilyInv, ReplayInv
    <2>3. QED
      BY <1>1, <2>2, <1>a DEF RestOK, ReplayInv
  <1>2. ASSUME NEW r \in Requests, RevokeReused(r)
        PROVE  rejected' \subseteq Families \X Generations /\ ReplayInv'
    <2> DEFINE f == family[r]
               t == <<family[r], generation[r]>>
    <2>1. /\ f \in Families /\ session[f] # "absent" /\ generation[r] \in Generations
          /\ f \notin states \/ generation[r] < gen[f]
      BY <1>2, <1>a DEF RevokeReused, FamilyInv, RequestInv, RequestOK
    <2>2. rejected' = rejected \cup {t}
      BY <1>2 DEF RevokeReused
    <2>3. f \notin states'
      <3>1. CASE f \notin states
        BY <3>1, <2>1, Forward
      <3>2. CASE f \in states
        <4>1. t \in history
          BY <2>1, <3>2 DEF FamilyInv, RecordInv
        <4>2. End({f} \cap states)
          BY <1>2, <4>1 DEF RevokeReused
        <4>3. QED
          BY <4>2, <3>2 DEF End
      <3>3. QED
        BY <3>1, <3>2
    <2>4. session'[f] # "absent"
      BY <2>1, Forward
    <2>5. \A u \in rejected : session'[u[1]] # "absent" /\ u[1] \notin states'
      <3>1. \A u \in rejected : u[1] \in Families
        BY <1>a DEF RestOK
      <3>2. QED
        BY <3>1, Forward DEF FamilyInv, ReplayInv
    <2>6. t[1] = f /\ t \in Families \X Generations
      BY <2>1
    <2> HIDE DEF f, t
    <2>7. QED
      BY <2>2, <2>3, <2>4, <2>5, <2>6, <1>a DEF RestOK, ReplayInv
  <1>3. UNCHANGED rejected \/ \E r \in Requests : RevokeReused(r)
    BY DEF Next, Serve, Administer, AuthenticateGrant, AuthenticateRefresh, LoadFamily,
           Issue, Rotate, Rotated, Expire, Abandon, RevokeFamily, RevokeUsers, Clear,
           NarrowClient, WidenClient, RotateSecret, DeleteClient, ChangeSecurity, DeleteUser,
           RevokeClientIn, RevokeAll, StartPass, CleanupBatch, CleanupFails, Tick, vars, ghosts
  <1>4. QED
    BY <1>1, <1>2, <1>3

\* The cutoff of a running pass was the time once.
LEMMA CutoffStep ==
    ASSUME TypeOK, CutoffInv, [Next]_vars
    PROVE  cutoff' \in (0..MaxNow) \cup {None} /\ CutoffInv'
  <1>1. cutoff' \in {cutoff, None} \/ (cutoff' = now /\ now' = now)
    <2>1. CASE CleanupBatch
      BY <2>1 DEF CleanupBatch
    <2>2. CASE StartPass \/ CleanupFails
      BY <2>2 DEF StartPass, CleanupFails
    <2>3. CASE ~CleanupBatch /\ ~StartPass /\ ~CleanupFails
      BY <2>3 DEF Next, Serve, Administer, AuthenticateGrant, AuthenticateRefresh, LoadFamily,
           Issue, Rotate, RevokeReused, Expire, Abandon, RevokeFamily, RevokeUsers, Clear,
           NarrowClient, WidenClient, RotateSecret, DeleteClient, ChangeSecurity, DeleteUser,
           RevokeClientIn, RevokeAll, Tick, vars
    <2>4. QED
      BY <2>1, <2>2, <2>3
  <1>2. now \in 0..MaxNow /\ cutoff \in (0..MaxNow) \cup {None} /\ now <= now'
    BY Forward DEF TypeOK
  <1>3. now' \in 0..MaxNow /\ MaxNow \in Nat
    BY Forward, TokenFamilyAssumption
  <1>4. QED
    BY <1>1, <1>2, <1>3 DEF CutoffInv

\* Every step keeps the invariant.
LEMMA InvStep == TypeOK /\ FamilyInv /\ [Next]_vars => TypeOK' /\ FamilyInv'
  <1> SUFFICES ASSUME TypeOK, FamilyInv, [Next]_vars
               PROVE  TypeOK' /\ FamilyInv'
    OBVIOUS
  <1>1. RequestInv /\ RecordInv /\ CutoffInv
    BY DEF FamilyInv
  <1>2. RowsOK' /\ RegistryOK' /\ RequestOK' /\ RequestInv' /\ RecordInv' /\ ReplayInv' /\ CutoffInv'
    BY <1>1, RowSteps, RegistryStep, RequestInvStep, RecordInvStep, ReplayInvStep, CutoffStep
  <1>3. RestOK'
    BY <1>1, Forward, RecordInvStep, ReplayInvStep, CutoffStep DEF RestOK
  <1>4. TypeOK'
    <2>1. RowsOK' /\ RegistryOK' /\ RequestOK' /\ RestOK' => TypeOK'
      BY DEF TypeOK, RowsOK, RegistryOK, RequestOK, RestOK
    <2>2. QED
      BY <1>2, <1>3, <2>1
  <1>5. QED
    BY <1>2, <1>4 DEF FamilyInv

\* The inductive invariant of token families.
THEOREM FamilyInvHolds == Spec => [](TypeOK /\ FamilyInv)
  BY InitInv, InvStep, PTL DEF Spec

\* Every reachable state is well typed: only open sessions have a token state, and
\* no access token outlives its family's deadline.
THEOREM TypeCorrect == Spec => []TypeOK
  BY FamilyInvHolds, PTL

\* A refresh token is exchanged at most once, for any number of concurrent requests.
THEOREM SingleRedemption == Spec => []RedeemedOnce
  <1>1. TypeOK /\ FamilyInv => RedeemedOnce
    BY DEF FamilyInv, RecordInv, RedeemedOnce
  <1>2. QED
    BY <1>1, FamilyInvHolds, PTL

\* The family of a token that was refused as replaced is never live again.
THEOREM ReplayIsFatal == Spec => []ReplayEndsFamily
  <1>1. TypeOK /\ FamilyInv => ReplayEndsFamily
    BY DEF FamilyInv, ReplayInv, ReplayEndsFamily
  <1>2. QED
    BY <1>1, FamilyInvHolds, PTL

-----------------------------------------------------------------------------
(* Authority is backed by the client and the user.                         *)

\* Every step keeps authority backed by its client and user.
LEMMA BackedStep ==
    ASSUME TypeOK, AuthorityIsBacked, [Next]_vars
    PROVE  AuthorityIsBacked'
  <1>a. RowsOK /\ RegistryOK /\ RequestOK /\ RestOK
    BY TypeSplit
  <1>b. \A f \in Families : ClientOf[f] \in Clients /\ UserOf[f] \in Users \cup {None}
    BY TokenFamilyAssumption
  <1>1. CASE states' \subseteq states /\ UNCHANGED registry
    BY <1>1 DEF registry, AuthorityIsBacked
  <1>2. ASSUME NEW r \in Requests, NEW f \in Families, Issue(r, f)
        PROVE  AuthorityIsBacked'
    <2>1. /\ states' = states \cup {f} /\ UNCHANGED registry
          /\ ClientOf[f] = client[r] /\ policy[client[r]] = "permits"
          /\ UserOf[f] \in {u \in Users : account[u] = "eligible"} \cup {None}
      BY <1>2 DEF Issue, Reloads, UserEligible
    <2>2. QED
      BY <2>1 DEF registry, AuthorityIsBacked
  <1>3. ASSUME NEW c \in Clients, NarrowClient(c)
        PROVE  AuthorityIsBacked'
    <2>1. /\ \A d \in Clients \ {c} : policy'[d] = policy[d]
          /\ states' = states \ FamiliesOf(c) /\ UNCHANGED account
      <3>1. /\ \E p \in {"permits", "narrowed", "inactive"} : policy' = [policy EXCEPT ![c] = p]
            /\ states' = states \ (FamiliesOf(c) \cap states) /\ UNCHANGED account
        BY <1>3 DEF NarrowClient, End
      <3>2. QED
        BY <3>1, <1>a DEF RegistryOK
    <2>2. \A f \in states' : f \in states /\ ClientOf[f] \in Clients \ {c}
      BY <2>1, <1>a, <1>b DEF FamiliesOf, RowsOK
    <2>3. QED
      BY <2>1, <2>2 DEF AuthorityIsBacked
  <1>4. ASSUME NEW c \in Clients, WidenClient(c)
        PROVE  AuthorityIsBacked'
    <2>1. /\ policy[c] # "permits" /\ UNCHANGED <<states, account>>
          /\ \A d \in Clients \ {c} : policy'[d] = policy[d]
      <3>1. /\ policy[c] # "permits" /\ UNCHANGED <<states, account>>
            /\ \E p \in {"permits", "narrowed"} : policy' = [policy EXCEPT ![c] = p]
        BY <1>4 DEF WidenClient, rows
      <3>2. QED
        BY <3>1, <1>a DEF RegistryOK
    <2>2. \A f \in states : ClientOf[f] \in Clients \ {c}
      BY <2>1, <1>a, <1>b DEF AuthorityIsBacked, RowsOK
    <2>3. QED
      BY <2>1, <2>2 DEF AuthorityIsBacked
  <1>5. ASSUME NEW c \in Clients, DeleteClient(c)
        PROVE  AuthorityIsBacked'
    <2>1. /\ \A d \in Clients \ {c} : policy'[d] = policy[d]
          /\ states' = states \ FamiliesOf(c) /\ UNCHANGED account
      BY <1>5, <1>a DEF DeleteClient, Delete, RegistryOK
    <2>2. \A f \in states' : f \in states /\ ClientOf[f] \in Clients \ {c}
      BY <2>1, <1>a, <1>b DEF FamiliesOf, RowsOK
    <2>3. QED
      BY <2>1, <2>2 DEF AuthorityIsBacked
  <1>6. ASSUME NEW u \in Users, ChangeSecurity(u) \/ DeleteUser(u)
        PROVE  AuthorityIsBacked'
    <2>1. /\ \A v \in Users \ {u} : account'[v] = account[v]
          /\ states' = states \ Owned({u}) /\ UNCHANGED policy
      <3>1. /\ \E a \in {"eligible", "ineligible", "deleted"} : account' = [account EXCEPT ![u] = a]
            /\ states' = states \ Owned({u}) /\ UNCHANGED policy
        BY <1>6 DEF ChangeSecurity, DeleteUser, End, Delete
      <3>2. QED
        BY <3>1, <1>a DEF RegistryOK
    <2>2. \A f \in states' : f \in states /\ UserOf[f] \in (Users \ {u}) \cup {None}
      BY <2>1, <1>a, <1>b DEF Owned, RowsOK
    <2>3. QED
      BY <2>1, <2>2, TokenFamilyAssumption DEF AuthorityIsBacked
  <1>7. ASSUME NEW c \in Clients, RotateSecret(c)
        PROVE  AuthorityIsBacked'
    BY <1>7 DEF RotateSecret, rows, AuthorityIsBacked
  <1>8. \/ states' \subseteq states /\ UNCHANGED registry
        \/ \E r \in Requests, f \in Families : Issue(r, f)
        \/ \E c \in Clients : NarrowClient(c) \/ WidenClient(c) \/ RotateSecret(c) \/ DeleteClient(c)
        \/ \E u \in Users : ChangeSecurity(u) \/ DeleteUser(u)
    <2>1. \/ UNCHANGED registry
          \/ \E c \in Clients : NarrowClient(c) \/ WidenClient(c) \/ RotateSecret(c) \/ DeleteClient(c)
          \/ \E u \in Users : ChangeSecurity(u) \/ DeleteUser(u)
      BY DEF Next, Serve, Administer, AuthenticateGrant, AuthenticateRefresh, LoadFamily,
             Issue, Rotate, RevokeReused, Expire, Abandon, RevokeFamily, RevokeUsers, Clear,
             RevokeClientIn, RevokeAll, StartPass, CleanupBatch, CleanupFails, Tick, vars
    <2>2. \/ states' \subseteq states
          \/ \E r \in Requests, f \in Families : Issue(r, f)
      BY RowSteps DEF Shrinks, Rotates, Rotated
    <2>3. QED
      BY <2>1, <2>2
  <1>9. QED
    BY <1>1, <1>2, <1>3, <1>4, <1>5, <1>6, <1>7, <1>8

\* A live family always has a client that permits it and a user who is eligible,
\* whatever requests were in flight when either was changed.
THEOREM AuthorityBacked == Spec => []AuthorityIsBacked
  <1>1. Init => AuthorityIsBacked
    BY DEF Init, AuthorityIsBacked
  <1>2. TypeOK /\ AuthorityIsBacked /\ [Next]_vars => AuthorityIsBacked'
    BY BackedStep
  <1>3. QED
    BY <1>1, <1>2, TypeCorrect, PTL DEF Spec

-----------------------------------------------------------------------------
(* What single steps may never do.                                         *)

\* A request that lost a race ends no family.
THEOREM LosersAreHarmless == Spec => LosersSpareTheFamily
  <1> DEFINE Spares ==
        \A r \in Requests :
          pc[r] \notin {"idle", "reuse"} /\ pc'[r] # pc[r] =>
             \A f \in states \ states' : pc[r] = "expired" /\ deadline[f] <= now
  <1>1. ASSUME TypeOK, FamilyInv, [Next]_vars
        PROVE  [Spares]_vars
    <2>a. RowsOK /\ RequestOK /\ RestOK
      BY <1>1, TypeSplit
    <2>1. CASE \A q \in Requests : pc'[q] = pc[q]
      BY <2>1
    <2>2. ASSUME NEW r \in Requests, Serve(r)
          PROVE  Spares
      <3>1. \A q \in Requests \ {r} : pc'[q] = pc[q]
        BY <2>2, <2>a DEF Serve, AuthenticateGrant, AuthenticateRefresh, LoadFamily, Issue, Rotate,
                          RevokeReused, Expire, Abandon, Finish, RequestOK
      <3>2. CASE Expire(r)
        <4>1. expiredAt[r] <= now
          BY <1>1 DEF FamilyInv, RequestInv
        <4>2. \A f \in states \ states' : f = family[r] /\ f \in Families /\ deadline[f] <= expiredAt[r]
          BY <3>2, <2>a DEF Expire, End, RowsOK
        <4>3. \A f \in states \ states' : deadline[f] <= now
          BY <4>1, <4>2, <2>a, TokenFamilyAssumption DEF RowsOK, RequestOK, RestOK
        <4>4. pc[r] = "expired"
          BY <3>2 DEF Expire
        <4>5. QED
          BY <3>1, <4>3, <4>4
      <3>3. CASE RevokeReused(r)
        BY <3>1, <3>3 DEF RevokeReused
      <3>4. CASE ~Expire(r) /\ ~RevokeReused(r)
        <4>1. states \subseteq states'
          BY <2>2, <3>4 DEF Serve, AuthenticateGrant, AuthenticateRefresh, LoadFamily, Issue,
                            Rotate, Rotated, Abandon, rows
        <4>2. QED
          BY <4>1
      <3>5. QED
        BY <3>2, <3>3, <3>4
    <2>3. \/ \A q \in Requests : pc'[q] = pc[q]
          \/ \E r \in Requests : Serve(r)
      BY <1>1 DEF Next, Administer, RevokeFamily, NarrowClient, WidenClient, RotateSecret,
                  DeleteClient, ChangeSecurity, DeleteUser, RevokeUsers, Clear, RevokeClientIn,
                  RevokeAll, StartPass, CleanupBatch, CleanupFails, Tick, vars, request
    <2>4. QED
      BY <2>1, <2>2, <2>3
  <1>2. QED
    BY <1>1, FamilyInvHolds, PTL DEF Spec, LosersSpareTheFamily

\* Tokens are committed under the client secret that is current, before the deadline.
THEOREM IssuedFresh == Spec => IssuanceIsFresh
  <1> DEFINE Served == {f \in states' : f \notin states \/ gen'[f] # gen[f]}
             Fresh(r) ==
               pc[r] # pc'[r] /\ Served # {} =>
                 /\ seen[r] = secret[client[r]]
                 /\ \A f \in Served : ClientOf[f] = client[r] /\ now < access'[f]
  <1>1. ASSUME TypeOK, [Next]_vars
        PROVE  [\A r \in Requests : Fresh(r)]_vars
    <2>a. RowsOK /\ RequestOK /\ RestOK
      BY <1>1, TypeSplit
    <2>1. CASE Shrinks
      <3>1. Served = {}
        BY <2>1 DEF Shrinks
      <3>2. QED
        BY <3>1
    <2>2. ASSUME NEW r \in Requests, NEW f \in Families, Issue(r, f)
          PROVE  \A q \in Requests : Fresh(q)
      <3> DEFINE until == now + (IF f \in AccessOnly THEN AccessLifetime ELSE RefreshLifetime)
      <3>1. \A q \in Requests \ {r} : pc'[q] = pc[q]
        BY <2>2, <2>a DEF Issue, Finish, RequestOK
      <3>2. /\ states' = states \cup {f} /\ gen' = gen
            /\ access' = [access EXCEPT ![f] = Least(now + AccessLifetime, until)]
            /\ seen[r] = secret[client[r]] /\ ClientOf[f] = client[r]
        BY <2>2 DEF Issue, Reloads
      <3>3. now < Least(now + AccessLifetime, until)
        BY <2>a, TokenFamilyAssumption DEF RestOK, Least
      <3> HIDE DEF until
      <3>4. now < access'[f]
        BY <3>2, <3>3, <2>a DEF RowsOK
      <3>5. Served \subseteq {f}
        BY <3>2
      <3>6. Fresh(r)
        BY <3>2, <3>4, <3>5
      <3>7. QED
        BY <3>1, <3>6
    <2>3. ASSUME NEW r \in Requests, Rotates(r)
          PROVE  \A q \in Requests : Fresh(q)
      <3> DEFINE h == family[r]
      <3>1. \A q \in Requests \ {r} : pc'[q] = pc[q]
        BY <2>3, <2>a DEF Rotates, Finish, RequestOK
      <3>2. /\ states' = states /\ gen' = [gen EXCEPT ![h] = @ + 1]
            /\ access' = [access EXCEPT ![h] = Least(now + AccessLifetime, deadline[h])]
            /\ seen[r] = secret[client[r]] /\ ClientOf[h] = client[r] /\ now < deadline[h]
        BY <2>3 DEF Rotates, Rotated, MayRotate, Reloads
      <3>3. h \in Families
        BY <2>3, <2>a, RotatesRows
      <3>4. now < Least(now + AccessLifetime, deadline[h])
        BY <2>a, <3>2, TokenFamilyAssumption DEF RestOK, Least
      <3>5. now < access'[h]
        BY <3>2, <3>3, <3>4, <2>a DEF RowsOK
      <3>6. Served \subseteq {h}
        BY <3>2, <2>a DEF RowsOK
      <3> HIDE DEF h
      <3>7. Fresh(r)
        BY <3>2, <3>5, <3>6
      <3>8. QED
        BY <3>1, <3>7
    <2>4. QED
      BY <1>1, <2>1, <2>2, <2>3, RowSteps
  <1>2. QED
    BY <1>1, TypeCorrect, PTL DEF Spec, IssuanceIsFresh

\* Cleanup takes no live family before its deadline and no history of a live one.
THEOREM CleanupIsSafe == Spec => CleanupSparesLiveFamilies
  <1> DEFINE Spares ==
        CleanupBatch =>
          \A f \in states :
            /\ deadline[f] > now => f \in states'
            /\ f \in states' => \A g \in Generations : <<f, g>> \in history => <<f, g>> \in history'
  <1>1. ASSUME TypeOK, FamilyInv, CleanupBatch
        PROVE  Spares
    <2>a. RowsOK /\ RestOK
      BY <1>1, TypeSplit
    <2>1. PICK expired \in SUBSET states, terminal \in SUBSET Families :
            /\ cutoff # None
            /\ IsBatch(expired, {f \in Families : Expired(f)})
            /\ IsBatch(terminal, {f \in Families : Terminal(f, states \ expired)})
            /\ states' = (states \ expired) \ terminal
      BY <1>1 DEF CleanupBatch
    <2>2. \A f \in expired : deadline[f] <= cutoff
      BY <2>1 DEF IsBatch, Expired
    <2>3. \A f \in terminal : session[f] # "active" \/ f \notin states \ expired
      BY <2>1 DEF IsBatch, Terminal
    <2>4. cutoff \in 0..MaxNow /\ cutoff <= now
      BY <1>1, <2>1, <2>a DEF FamilyInv, CutoffInv, RestOK
    <2>5. \A f \in states : deadline[f] > now => f \notin expired
      BY <2>2, <2>4, <2>a, TokenFamilyAssumption DEF RowsOK, RestOK
    <2>6. \A f \in states \ expired : f \notin terminal
      BY <2>3, <2>a DEF RowsOK
    <2>7. QED
      BY <1>1, <2>1, <2>5, <2>6, <2>a, CleanupShrinks DEF Shrinks
  <1>2. QED
    BY <1>1, FamilyInvHolds, PTL DEF Spec, CleanupSparesLiveFamilies

\* A page that is not full holds all there is.
LEMMA LastPage ==
    ASSUME NEW candidates \in SUBSET Families, NEW S, IsBatch(S, candidates),
           Cardinality(S) # BatchSize
    PROVE  S = candidates
  <1>1. S \subseteq candidates /\ Cardinality(S) = Cardinality(candidates)
    BY DEF IsBatch, Least
  <1>2. IsFiniteSet(candidates)
    BY TokenFamilyAssumption, FS_Subset
  <1>3. QED
    BY <1>1, <1>2, FS_Subset

\* A pass that ends of itself leaves live families whose deadline its cutoff precedes.
LEMMA LastBatch ==
    ASSUME RowsOK, RestOK, CleanupBatch, cutoff' = None, NEW f \in Families
    PROVE  \/ session'[f] \in {"absent", "deleted"}
           \/ f \in states' /\ cutoff < deadline'[f]
  <1>1. PICK expired \in SUBSET states, terminal \in SUBSET Families :
          /\ cutoff # None
          /\ IsBatch(expired, {x \in Families : Expired(x)})
          /\ IsBatch(terminal, {x \in Families : Terminal(x, states \ expired)})
          /\ session' = [x \in Families |-> IF x \in terminal THEN "deleted" ELSE session[x]]
          /\ states' = (states \ expired) \ terminal
          /\ cutoff' = IF MayHaveMore(expired, terminal) THEN cutoff ELSE None
          /\ deadline' = deadline
    BY DEF CleanupBatch
  <1>2. Cardinality(expired) # BatchSize /\ Cardinality(terminal) # BatchSize
    BY <1>1 DEF MayHaveMore
  <1>3. /\ expired = {x \in Families : Expired(x)}
        /\ terminal = {x \in Families : Terminal(x, states \ expired)}
    BY <1>1, <1>2, LastPage
  <1>4. CASE f \in terminal
    BY <1>1, <1>4
  <1>5. CASE f \notin terminal
    <2>1. session[f] # "ended" /\ (session[f] = "active" => f \in states \ expired)
      BY <1>3, <1>5 DEF Terminal
    <2>2. session'[f] = session[f]
      BY <1>1, <1>5
    <2>3. CASE session[f] = "active"
      <3>1. f \in states' /\ f \in states /\ f \notin expired
        BY <1>1, <1>5, <2>1, <2>3
      <3>2. ~(deadline[f] <= cutoff)
        BY <1>3, <3>1 DEF Expired
      <3>3. deadline[f] \in Int /\ cutoff \in Int
        BY <1>1 DEF RowsOK, RestOK
      <3>4. QED
        BY <1>1, <3>1, <3>2, <3>3
    <2>4. QED
      BY <2>1, <2>2, <2>3 DEF RowsOK
  <1>6. QED
    BY <1>4, <1>5

\* For any batch size, a pass that ends of itself leaves nothing dead at its cutoff.
THEOREM PurgesComplete == Spec => PurgesAreComplete
  <1> DEFINE Complete ==
        CleanupBatch /\ cutoff' = None =>
          \A f \in Families : \/ session'[f] \in {"absent", "deleted"}
                              \/ f \in states' /\ cutoff < deadline'[f]
  <1>1. TypeOK => [Complete]_vars
    BY TypeSplit, LastBatch
  <1>2. QED
    BY <1>1, TypeCorrect, PTL DEF Spec, PurgesAreComplete

-----------------------------------------------------------------------------
(* A token family implements the authority it stands for.                  *)

\* What a family stands for, by the state of its rows.
LEMMA StandingIs ==
    ASSUME NEW f \in Families
    PROVE  /\ Standing[f] = IF session[f] = "absent" THEN "none"
                            ELSE IF f \in states THEN "live" ELSE "dead"
           /\ Standing'[f] = IF session'[f] = "absent" THEN "none"
                             ELSE IF f \in states' THEN "live" ELSE "dead"
  BY DEF Standing

\* Every step is a step of the authority or leaves it alone.
LEMMA AuthorityStep ==
    ASSUME TypeOK, FamilyInv, [Next]_vars
    PROVE  [Authority!Next]_(Authority!authorityVars)
  <1>a. RowsOK /\ RequestOK /\ RestOK
    BY TypeSplit
  <1>1. CASE Shrinks /\ UNCHANGED <<redeemed, now>>
    <2> DEFINE ending == states \ states'
    <2>1. ending \in SUBSET Families /\ \A f \in ending : session[f] = "active"
      BY <1>a DEF RowsOK
    <2>2. /\ UNCHANGED deadline /\ states' \subseteq states
          /\ \A f \in Families : session'[f] = "absent" <=> session[f] = "absent"
      BY <1>1 DEF Shrinks
    <2>3. \A f \in ending : Standing[f] = "live"
      BY <2>1, StandingIs
    <2>4. Standing' = [f \in Families |-> IF f \in ending THEN "dead" ELSE Standing[f]]
      BY <2>1, <2>2 DEF Standing
    <2> HIDE DEF ending
    <2>5. Authority!Lapse(ending)
      BY <1>1, <2>2, <2>3, <2>4 DEF Authority!Lapse
    <2>6. QED
      BY <2>1, <2>5 DEF Authority!Next
  <1>2. CASE Tick
    <2>1. UNCHANGED <<session, states, deadline, redeemed>> /\ now' = now + 1
      BY <1>2 DEF Tick, rows, ghosts
    <2>2. UNCHANGED Standing
      BY <2>1 DEF Standing
    <2>3. QED
      BY <2>1, <2>2 DEF Authority!Tick, Authority!Next
  <1>3. ASSUME NEW r \in Requests, NEW f \in Families, Issue(r, f)
        PROVE  Authority!Next
    <2> DEFINE until == now + (IF f \in AccessOnly THEN AccessLifetime ELSE RefreshLifetime)
    <2>1. /\ session[f] = "absent" /\ session' = [session EXCEPT ![f] = "active"]
          /\ states' = states \cup {f}
          /\ deadline' = [deadline EXCEPT ![f] = until]
          /\ UNCHANGED <<redeemed, now>>
      BY <1>3 DEF Issue, ghosts
    <2>2. now < until
      BY <1>a, TokenFamilyAssumption DEF RestOK
    <2> HIDE DEF until
    <2>3. Standing[f] = "none" /\ Standing' = [Standing EXCEPT ![f] = "live"]
      BY <2>1, <1>a, StandingIs DEF Standing, RowsOK
    <2>4. now < deadline'[f] /\ deadline' = [deadline EXCEPT ![f] = deadline'[f]]
      BY <2>1, <2>2, <1>a DEF RowsOK
    <2>5. Authority!Grant(f)
      BY <2>1, <2>3, <2>4 DEF Authority!Grant
    <2>6. QED
      BY <2>5 DEF Authority!Next
  <1>4. ASSUME NEW r \in Requests, Rotates(r)
        PROVE  Authority!Next
    <2> DEFINE f == family[r]
               g == generation[r]
    <2>1. f \in states /\ f \in Families /\ gen[f] = g /\ g \in Generations /\ g \in Nat
      BY <1>4, <1>a, RotatesRows, TokenFamilyAssumption DEF RequestOK, Generations
    <2>2. /\ redeemed' = [redeemed EXCEPT ![f][g] = @ + 1]
          /\ now < deadline[f]
          /\ UNCHANGED <<session, states, deadline, now>>
      BY <1>4 DEF Rotates, Rotated, MayRotate
    <2> HIDE DEF f, g
    <2>3. redeemed[f][g] = 0 /\ \A h \in Generations : h < g => redeemed[f][h] = 1
      <3>1. \A h \in Generations : redeemed[f][h] = IF h < g THEN 1 ELSE 0
        BY <2>1 DEF FamilyInv, RecordInv
      <3>2. ~(g < g)
        BY <2>1
      <3>3. QED
        BY <2>1, <3>1, <3>2
    <2>4. redeemed' = [redeemed EXCEPT ![f][g] = 1]
      BY <2>2, <2>3
    <2>5. Standing[f] = "live" /\ UNCHANGED Standing
      BY <2>1, <2>2, <1>a, StandingIs DEF Standing, RowsOK
    <2>6. Authority!Renew(f, g)
      BY <2>2, <2>3, <2>4, <2>5 DEF Authority!Renew
    <2>7. QED
      BY <2>1, <2>6 DEF Authority!Next
  <1>5. QED
    BY <1>1, <1>2, <1>3, <1>4, RowSteps, TimeSteps

\* A family is granted once, lives until a deadline that never moves, is renewed by
\* its newest token only, and never returns.
THEOREM FamilyIsAuthority == Spec => ImplementsAuthority
  <1>1. Init => Authority!Init
    BY DEF Init, Authority!Init, Standing
  <1>2. QED
    BY <1>1, AuthorityStep, FamilyInvHolds, PTL DEF Spec, ImplementsAuthority, Authority!Spec
=============================================================================
