-------------------------- MODULE DeviceFlowProofs --------------------------
(* Theorems about DeviceFlow, for every value of its constants.            *)
EXTENDS DeviceFlow, TLAPS

-----------------------------------------------------------------------------
(* The type invariant in parts, and the shapes a step can have.            *)

RowOK ==
    /\ stage \in [Codes -> {"absent", "open", "approved", "denied", "used", "gone"}]
    /\ owner \in [Codes -> Users \cup {None}]
    /\ expires \in [Codes -> Nat]
    /\ \A c \in Codes :
         /\ stage[c] \in {"absent", "open"} => owner[c] = None
         /\ stage[c] \in {"approved", "denied", "used"} => owner[c] # None

PaceOK ==
    /\ interval \in [Codes -> Nat]
    /\ polled \in [Codes -> Nat \cup {None}]
    /\ slowed \in [Codes -> 0..MaxSlowDowns]
    /\ contact \in [Codes -> Nat \cup {None}]

RegistryOK ==
    /\ policy \in [Clients -> {"permits", "narrowed", "inactive", "deleted"}]
    /\ secret \in [Clients -> Nat]
    /\ admits \in [Clients -> SUBSET Users]
    /\ account \in [Users -> {"eligible", "ineligible", "deleted"}]
    /\ changes \in 0..MaxChanges

RequestOK ==
    /\ pc \in [Requests -> {"idle", "polling", "approved"}]
    /\ client \in [Requests -> Clients \cup {None}]
    /\ seen \in [Requests -> Nat \cup {None}]
    /\ code \in [Requests -> Codes \cup {None}]
    /\ subject \in [Requests -> Users \cup {None}]

RestOK ==
    /\ now \in 0..MaxNow
    /\ sessions \in [Codes -> [Users -> Nat]]
    /\ refusals \subseteq Codes

\* TypeOK is the conjunction of its parts.
LEMMA TypeSplit == TypeOK <=> RowOK /\ PaceOK /\ RegistryOK /\ RequestOK /\ RestOK
  BY DEF TypeOK, RowOK, PaceOK, RegistryOK, RequestOK, RestOK

\* A request carries what it authenticated with and the code it presented; once
\* its poll found the code approved, the code was decided by its subject, for the
\* client that polled, and can only be used or deleted since.
Carries(r) ==
    /\ pc[r] # "idle" => client[r] \in Clients /\ seen[r] \in Nat /\ code[r] \in Codes
    /\ pc[r] = "approved" =>
         /\ subject[r] \in Users /\ subject[r] = owner[code[r]]
         /\ stage[code[r]] \in {"approved", "used", "gone"}
         /\ ClientOf[code[r]] = client[r]

RequestInv == \A r \in Requests : Carries(r)

\* A code has opened no session unless it is used, and then one for its owner.
Opened(c) ==
    /\ stage[c] \in {"absent", "open", "approved", "denied"} =>
         \A u \in Users : sessions[c][u] = 0
    /\ stage[c] = "used" => \A u \in Users : sessions[c][u] = IF u = owner[c] THEN 1 ELSE 0
    /\ \A u \in Users : sessions[c][u] > 0 => u = owner[c]

SessionInv == \A c \in Codes : Opened(c)

\* The row remembers the last poll, and every slow_down lengthened the interval.
PaceInv ==
    /\ contact = polled
    /\ \A c \in Codes : interval[c] = Interval + Backoff * slowed[c]

FlowInv == RequestInv /\ SessionInv /\ PaceInv

\* What a step does to the rows.
RowsAsBefore == UNCHANGED <<stage, owner, expires, sessions>>
Removes == \E removed \in SUBSET Codes : Remove(removed) /\ UNCHANGED <<owner, expires, sessions>>

\* What a step does to the requests.
Requesting ==
    \/ UNCHANGED request
    \/ \E r \in Requests :
         \/ Finish(r) /\ UNCHANGED <<stage, owner>>
         \/ Exchange(r)
         \/ PollApproved(r)
         \/ \E k \in Clients, c \in Codes : Authenticate(r, k, c)

\* A change of the registry touches nothing else, but for the codes it deletes.
LEMMA ChangeSteps ==
    ASSUME RegistryOK, Administer
    PROVE  /\ RegistryOK' /\ UNCHANGED <<pace, now, request, refusals>>
           /\ RowsAsBefore \/ Removes
  <1>1. ASSUME Change
        PROVE  changes' \in 0..MaxChanges /\ UNCHANGED <<owner, expires, pace, now, request, sessions, refusals>>
    BY <1>1, DeviceFlowAssumption DEF Change, RegistryOK
  <1>2. ASSUME NEW k \in Clients, NEW p \in {"permits", "narrowed", "inactive"}, ReplaceClient(k, p)
        PROVE  RegistryOK' /\ RowsAsBefore
    BY <1>1, <1>2 DEF ReplaceClient, RegistryOK, RowsAsBefore
  <1>3. ASSUME NEW k \in Clients, NEW U \in SUBSET Users, ReplaceUserOrganizations(k, U)
        PROVE  RegistryOK' /\ RowsAsBefore
    BY <1>1, <1>3 DEF ReplaceUserOrganizations, RegistryOK, RowsAsBefore
  <1>4. ASSUME NEW k \in Clients, RotateSecret(k)
        PROVE  RegistryOK' /\ RowsAsBefore
    BY <1>1, <1>4 DEF RotateSecret, RegistryOK, RowsAsBefore
  <1>5. ASSUME NEW k \in Clients, DeleteClient(k)
        PROVE  RegistryOK' /\ Removes
    BY <1>1, <1>5 DEF DeleteClient, RegistryOK, Removes
  <1>6. ASSUME NEW u \in Users, NEW a \in {"eligible", "ineligible"}, ChangeUser(u, a)
        PROVE  RegistryOK' /\ RowsAsBefore
    BY <1>1, <1>6 DEF ChangeUser, RegistryOK, RowsAsBefore
  <1>7. ASSUME NEW u \in Users, DeleteUser(u)
        PROVE  RegistryOK' /\ Removes
    BY <1>1, <1>7 DEF DeleteUser, RegistryOK, Removes
  <1>8. Administer => Change
    BY DEF Administer, ReplaceClient, ReplaceUserOrganizations, RotateSecret, DeleteClient,
           ChangeUser, DeleteUser
  <1>9. QED
    BY <1>1, <1>2, <1>3, <1>4, <1>5, <1>6, <1>7, <1>8 DEF Administer

\* Every step leaves the rows alone, creates, decides on or redeems one, or
\* deletes some.
LEMMA RowSteps ==
    ASSUME RegistryOK, [Next]_vars
    PROVE  \/ RowsAsBefore
           \/ Removes
           \/ \E c \in Codes : CreateCode(c)
           \/ \E u \in Users, c \in Codes, approve \in BOOLEAN : Decide(u, c, approve)
           \/ \E r \in Requests : Exchange(r)
  <1>1. ASSUME NEW c \in Codes, Cleanup(c)
        PROVE  Removes
    BY <1>1 DEF Cleanup, Removes
  <1>2. ASSUME NEW r \in Requests, Serve(r)
        PROVE  RowsAsBefore \/ Exchange(r)
    BY <1>2 DEF Serve, Authenticate, PollRefused, PollSlowDown, PollPending, PollApproved, Abandon,
               RowsAsBefore, row
  <1>3. Tick \/ UNCHANGED vars => RowsAsBefore
    BY DEF Tick, vars, row, RowsAsBefore
  <1>4. QED
    BY <1>1, <1>2, <1>3, ChangeSteps DEF Next

\* A step concerns one token request, or none.
LEMMA RequestSteps ==
    ASSUME RegistryOK, [Next]_vars
    PROVE  Requesting
  <1>1. ASSUME NEW r \in Requests, Serve(r)
        PROVE  Requesting
    BY <1>1 DEF Serve, PollRefused, PollSlowDown, PollPending, Abandon, Requesting, row
  <1>2. ASSUME NEW c \in Codes, CreateCode(c) \/ Cleanup(c) \/ \E u \in Users, approve \in BOOLEAN : Decide(u, c, approve)
        PROVE  UNCHANGED request
    BY <1>2 DEF CreateCode, Cleanup, Decide
  <1>3. Tick \/ UNCHANGED vars => UNCHANGED request
    BY DEF Tick, vars
  <1>4. QED
    BY <1>1, <1>2, <1>3, ChangeSteps DEF Next, Requesting

\* Only a slow_down or a pending answer writes the pacing columns.
LEMMA PaceSteps ==
    ASSUME RegistryOK, [Next]_vars
    PROVE  UNCHANGED pace \/ \E r \in Requests : PollSlowDown(r) \/ PollPending(r)
  <1>1. ASSUME NEW r \in Requests, Serve(r)
        PROVE  UNCHANGED pace \/ PollSlowDown(r) \/ PollPending(r)
    BY <1>1 DEF Serve, Authenticate, PollRefused, PollApproved, Exchange, Abandon
  <1>2. ASSUME NEW c \in Codes, CreateCode(c) \/ Cleanup(c) \/ \E u \in Users, approve \in BOOLEAN : Decide(u, c, approve)
        PROVE  UNCHANGED pace
    BY <1>2 DEF CreateCode, Cleanup, Decide
  <1>3. Tick \/ UNCHANGED vars => UNCHANGED pace
    BY DEF Tick, vars
  <1>4. QED
    BY <1>1, <1>2, <1>3, ChangeSteps DEF Next

\* Every step keeps the types of clients and users.
LEMMA RegistrySteps ==
    ASSUME RegistryOK, [Next]_vars
    PROVE  RegistryOK'
  <1>1. ASSUME NEW r \in Requests, Serve(r)
        PROVE  UNCHANGED registry
    BY <1>1 DEF Serve, Authenticate, PollRefused, PollSlowDown, PollPending, PollApproved, Exchange, Abandon
  <1>2. ASSUME NEW c \in Codes, CreateCode(c) \/ Cleanup(c) \/ \E u \in Users, approve \in BOOLEAN : Decide(u, c, approve)
        PROVE  UNCHANGED registry
    BY <1>2 DEF CreateCode, Cleanup, Decide
  <1>3. Tick \/ UNCHANGED vars => UNCHANGED registry
    BY DEF Tick, vars
  <1>4. UNCHANGED registry => RegistryOK'
    BY DEF registry, RegistryOK
  <1>5. QED
    BY <1>1, <1>2, <1>3, <1>4, ChangeSteps DEF Next

-----------------------------------------------------------------------------
(* The invariant.                                                          *)

\* The initial state satisfies the invariant.
LEMMA InitFlow ==
    ASSUME Init
    PROVE  TypeOK /\ FlowInv
  <1>1. TypeOK
    BY DeviceFlowAssumption DEF Init, TypeOK
  <1>2. RequestInv /\ SessionInv
    BY DEF Init, RequestInv, Carries, SessionInv, Opened
  <1>3. PaceInv
    BY DeviceFlowAssumption DEF Init, PaceInv
  <1>4. QED
    BY <1>1, <1>2, <1>3 DEF FlowInv

\* The rows keep their types and decision_state_valid.
LEMMA RowsTyped ==
    ASSUME TypeOK, [Next]_vars
    PROVE  RowOK'
  <1>1. RegistryOK /\ RowOK /\ RestOK
    BY TypeSplit
  <1>2. CASE RowsAsBefore
    BY <1>1, <1>2 DEF RowsAsBefore, RowOK
  <1>3. CASE Removes
    BY <1>1, <1>3 DEF Removes, Remove, RowOK
  <1>4. ASSUME NEW c \in Codes, CreateCode(c)
        PROVE  RowOK'
    <2>1. now + Lifetime \in Nat
      BY <1>1, DeviceFlowAssumption DEF RestOK
    <2>2. QED
      BY <1>1, <1>4, <2>1 DEF CreateCode, RowOK
  <1>5. ASSUME NEW u \in Users, NEW c \in Codes, NEW approve \in BOOLEAN, Decide(u, c, approve)
        PROVE  RowOK'
    BY <1>1, <1>5, DeviceFlowAssumption DEF Decide, Undecided, RowOK
  <1>6. ASSUME NEW r \in Requests, Exchange(r)
        PROVE  RowOK'
    BY <1>1, <1>6 DEF Exchange, Consumable, RowOK
  <1>7. QED
    BY <1>1, <1>2, <1>3, <1>4, <1>5, <1>6, RowSteps

\* Every step keeps the account of the polls.
LEMMA PaceKept ==
    ASSUME TypeOK, FlowInv, [Next]_vars
    PROVE  PaceOK' /\ PaceInv'
  <1>1. RegistryOK /\ PaceOK /\ PaceInv /\ now \in Nat
    BY TypeSplit DEF FlowInv, RestOK
  <1>2. CASE UNCHANGED pace
    BY <1>1, <1>2 DEF pace, PaceOK, PaceInv
  <1>3. ASSUME NEW r \in Requests, PollPending(r)
        PROVE  PaceOK' /\ PaceInv'
    BY <1>1, <1>3 DEF PollPending, PaceOK, PaceInv
  <1>4. ASSUME NEW r \in Requests, PollSlowDown(r)
        PROVE  PaceOK' /\ PaceInv'
    <2>1. PaceOK'
      <3>0. code[r] \in Codes
        BY <1>4, TypeSplit DEF FlowInv, PollSlowDown, Pollable, RequestInv, Carries
      <3>1. interval' \in [Codes -> Nat]
        <4>1. interval[code[r]] + Backoff \in Nat
          BY <1>1, <3>0, DeviceFlowAssumption DEF PaceOK
        <4>2. interval' = [interval EXCEPT ![code[r]] = interval[code[r]] + Backoff]
          BY <1>4 DEF PollSlowDown
        <4>3. QED
          BY <1>1, <4>1, <4>2 DEF PaceOK
      <3>2. slowed' \in [Codes -> 0..MaxSlowDowns]
        <4>1. slowed[code[r]] + 1 \in 0..MaxSlowDowns
          BY <1>1, <1>4, <3>0, DeviceFlowAssumption DEF PollSlowDown, PaceOK
        <4>2. slowed' = [slowed EXCEPT ![code[r]] = slowed[code[r]] + 1]
          BY <1>4 DEF PollSlowDown
        <4>3. QED
          BY <1>1, <4>1, <4>2 DEF PaceOK
      <3>3. polled' \in [Codes -> Nat \cup {None}] /\ contact' \in [Codes -> Nat \cup {None}]
        BY <1>1, <1>4 DEF PollSlowDown, PaceOK
      <3>4. QED
        BY <3>1, <3>2, <3>3 DEF PaceOK
    <2>2. contact' = polled'
      BY <1>1, <1>4 DEF PollSlowDown, PaceInv
    <2>3. ASSUME NEW c \in Codes
          PROVE  interval'[c] = Interval + Backoff * slowed'[c]
      <3>1. slowed[c] \in Nat /\ interval[c] = Interval + Backoff * slowed[c]
        BY <1>1, DeviceFlowAssumption DEF PaceOK, PaceInv
      <3>2. Backoff * (slowed[c] + 1) = Backoff * slowed[c] + Backoff
        BY <3>1, DeviceFlowAssumption
      <3>3. \/ interval'[c] = interval[c] /\ slowed'[c] = slowed[c]
            \/ interval'[c] = interval[c] + Backoff /\ slowed'[c] = slowed[c] + 1
        BY <1>1, <1>4 DEF PollSlowDown, PaceOK
      <3>4. Backoff * slowed[c] \in Nat
        BY <3>1, DeviceFlowAssumption
      <3>5. QED
        BY <3>1, <3>2, <3>3, <3>4, DeviceFlowAssumption
    <2>4. QED
      BY <2>1, <2>2, <2>3 DEF PaceInv
  <1>5. QED
    BY <1>1, <1>2, <1>3, <1>4, PaceSteps

\* A decided code keeps its owner, and from approved it is only used or deleted.
LEMMA DecisionsStand ==
    ASSUME TypeOK, [Next]_vars, NEW c \in Codes
    PROVE  /\ stage[c] \in {"approved", "denied", "used", "gone"} => owner'[c] = owner[c]
           /\ stage[c] \in {"approved", "used", "gone"} => stage'[c] \in {"approved", "used", "gone"}
  <1>1. RegistryOK /\ RowOK
    BY TypeSplit
  <1>2. RowsAsBefore \/ Removes =>
           /\ stage[c] \in {"approved", "denied", "used", "gone"} => owner'[c] = owner[c]
           /\ stage[c] \in {"approved", "used", "gone"} => stage'[c] \in {"approved", "used", "gone"}
    BY DEF RowsAsBefore, Removes, Remove
  <1>3. QED
    BY <1>1, <1>2, RowSteps DEF RowOK, CreateCode, Decide, Undecided, Exchange, Consumable

\* Every step keeps what the requests carry.
LEMMA RequestsKept ==
    ASSUME TypeOK, FlowInv, [Next]_vars
    PROVE  RequestOK' /\ RequestInv'
  <1>1. RegistryOK /\ RowOK /\ RequestOK /\ RequestInv
    BY TypeSplit DEF FlowInv
  <1>2. CASE UNCHANGED request
    <2>1. RequestOK'
      BY <1>1, <1>2 DEF request, RequestOK
    <2>2. ASSUME NEW r \in Requests
          PROVE  Carries(r)'
      BY <1>1, <1>2, <2>2, DecisionsStand DEF request, RequestInv, Carries
    <2>3. QED
      BY <2>1, <2>2 DEF RequestInv
  <1>3. ASSUME NEW r \in Requests, Finish(r)
        PROVE  RequestOK' /\ RequestInv'
    <2>1. RequestOK'
      BY <1>1, <1>3 DEF Finish, RequestOK
    <2>2. ASSUME NEW s \in Requests
          PROVE  Carries(s)'
      BY <1>1, <1>3, <2>2, DecisionsStand DEF Finish, RequestOK, RequestInv, Carries
    <2>3. QED
      BY <2>1, <2>2 DEF RequestInv
  <1>4. ASSUME NEW r \in Requests, PollApproved(r)
        PROVE  RequestOK' /\ RequestInv'
    <2>1. /\ code[r] \in Codes /\ client[r] \in Clients /\ seen[r] \in Nat
          /\ ClientOf[code[r]] = client[r]
          /\ owner[code[r]] \in Users
      BY <1>1, <1>4 DEF PollApproved, Pollable, Presented, RequestInv, Carries, RowOK
    <2>2. RequestOK'
      BY <1>1, <1>4, <2>1 DEF PollApproved, RequestOK
    <2>3. ASSUME NEW s \in Requests
          PROVE  Carries(s)'
      BY <1>1, <1>4, <2>1, <2>3 DEF PollApproved, row, RequestOK, RequestInv, Carries
    <2>4. QED
      BY <2>2, <2>3 DEF RequestInv
  <1>5. ASSUME NEW r \in Requests, NEW k \in Clients, NEW c \in Codes, Authenticate(r, k, c)
        PROVE  RequestOK' /\ RequestInv'
    <2>1. RequestOK'
      BY <1>1, <1>5 DEF Authenticate, RequestOK, RegistryOK
    <2>2. ASSUME NEW s \in Requests
          PROVE  Carries(s)'
      BY <1>1, <1>5, <2>2 DEF Authenticate, row, RegistryOK, RequestOK, RequestInv, Carries
    <2>3. QED
      BY <2>1, <2>2 DEF RequestInv
  <1>6. QED
    BY <1>1, <1>2, <1>3, <1>4, <1>5, RequestSteps DEF Requesting, Exchange

\* The one session of a code is opened when it is used.
LEMMA SessionsKept ==
    ASSUME TypeOK, FlowInv, [Next]_vars
    PROVE  RestOK' /\ SessionInv'
  <1>1. RegistryOK /\ RowOK /\ RestOK /\ RequestInv /\ SessionInv
    BY TypeSplit DEF FlowInv
  <1>2. now' \in 0..MaxNow /\ refusals' \subseteq Codes
    <2>1. Administer => UNCHANGED <<now, refusals>>
      BY <1>1, ChangeSteps
    <2>2. ASSUME NEW r \in Requests, Serve(r)
          PROVE  UNCHANGED <<now, refusals>>
      BY <2>2 DEF Serve, Authenticate, PollRefused, PollSlowDown, PollPending, PollApproved,
                 Exchange, Abandon
    <2>3. Tick => now' \in 0..MaxNow /\ refusals' = refusals
      BY <1>1, DeviceFlowAssumption DEF Tick, RestOK
    <2>4. QED
      BY <1>1, <2>1, <2>2, <2>3 DEF Next, vars, RestOK, CreateCode, Cleanup, Decide
  <1>3. sessions' \in [Codes -> [Users -> Nat]] /\ SessionInv'
    <2>1. CASE RowsAsBefore
      BY <1>1, <2>1 DEF RowsAsBefore, RestOK, SessionInv, Opened
    <2>2. CASE Removes
      BY <1>1, <2>2 DEF Removes, Remove, RowOK, RestOK, SessionInv, Opened
    <2>3. ASSUME NEW c \in Codes, CreateCode(c)
          PROVE  sessions' \in [Codes -> [Users -> Nat]] /\ SessionInv'
      BY <1>1, <2>3 DEF CreateCode, RowOK, RestOK, SessionInv, Opened
    <2>4. ASSUME NEW u \in Users, NEW c \in Codes, NEW approve \in BOOLEAN, Decide(u, c, approve)
          PROVE  sessions' \in [Codes -> [Users -> Nat]] /\ SessionInv'
      BY <1>1, <2>4 DEF Decide, Undecided, RowOK, RestOK, SessionInv, Opened
    <2>5. ASSUME NEW r \in Requests, Exchange(r)
          PROVE  sessions' \in [Codes -> [Users -> Nat]] /\ SessionInv'
      <3>1. code[r] \in Codes /\ subject[r] \in Users /\ subject[r] = owner[code[r]]
        BY <1>1, <2>5 DEF Exchange, RequestInv, Carries
      <3>2. \A u \in Users : sessions[code[r]][u] = 0
        BY <1>1, <2>5, <3>1 DEF Exchange, Consumable, SessionInv, Opened
      <3>3. sessions' = [sessions EXCEPT ![code[r]] =
                            [sessions[code[r]] EXCEPT ![subject[r]] = sessions[code[r]][subject[r]] + 1]]
        BY <2>5 DEF Exchange
      <3>4. sessions' \in [Codes -> [Users -> Nat]]
        BY <1>1, <3>1, <3>3 DEF RestOK
      <3>5. ASSUME NEW c \in Codes
            PROVE  Opened(c)'
        <4>1. CASE c = code[r]
          <5>1. \A u \in Users : sessions'[c][u] = IF u = owner[c] THEN 1 ELSE 0
            BY <1>1, <3>1, <3>2, <3>3, <4>1 DEF RestOK
          <5>2. stage'[c] = "used" /\ owner'[c] = owner[c]
            BY <1>1, <2>5, <3>1, <4>1 DEF Exchange, RowOK
          <5>3. QED
            BY <5>1, <5>2 DEF Opened
        <4>2. CASE c # code[r]
          <5>1. stage'[c] = stage[c] /\ owner'[c] = owner[c] /\ sessions'[c] = sessions[c]
            BY <1>1, <2>5, <3>1, <3>3, <4>2 DEF Exchange, RowOK, RestOK
          <5>2. QED
            BY <1>1, <5>1 DEF SessionInv, Opened
        <4>3. QED
          BY <4>1, <4>2
      <3>6. QED
        BY <3>4, <3>5 DEF SessionInv
    <2>6. QED
      BY <1>1, <2>1, <2>2, <2>3, <2>4, <2>5, RowSteps
  <1>4. QED
    BY <1>2, <1>3 DEF RestOK

\* Every step keeps the invariant.
LEMMA NextFlow ==
    ASSUME TypeOK, FlowInv, [Next]_vars
    PROVE  TypeOK' /\ FlowInv'
  <1>1. RowOK' /\ PaceOK' /\ RegistryOK' /\ RequestOK' /\ RestOK'
    BY RowsTyped, PaceKept, RegistrySteps, RequestsKept, SessionsKept, TypeSplit
  <1>2. TypeOK'
    BY <1>1 DEF TypeOK, RowOK, PaceOK, RegistryOK, RequestOK, RestOK
  <1>3. QED
    BY <1>2, PaceKept, RequestsKept, SessionsKept DEF FlowInv

-----------------------------------------------------------------------------
(* The theorems.                                                           *)

\* The inductive invariant: what a request carries, what the history of sessions
\* says of a row, and what the pacing columns say of the polls.
THEOREM FlowInvHolds == Spec => [](TypeOK /\ FlowInv)
  <1>1. Init => TypeOK /\ FlowInv
    BY InitFlow
  <1>2. TypeOK /\ FlowInv /\ [Next]_vars => (TypeOK /\ FlowInv)'
    BY NextFlow
  <1>3. QED
    BY <1>1, <1>2, PTL DEF Spec

\* Every variable has its type and every row obeys its CHECK constraint.
THEOREM TypeCorrect == Spec => []TypeOK
  BY FlowInvHolds, PTL

\* Issuance rests on what the client, its secret and the user are at the commit.
THEOREM IssuedCurrent == Spec => IssuanceIsCurrent
  <1>1. ASSUME TypeOK, FlowInv, [Next]_vars
        PROVE  [\A r \in Requests : LET k == client[r] IN
                 sessions' # sessions /\ pc'[r] # pc[r] =>
                    /\ k = ClientOf[code[r]]
                    /\ policy[k] = "permits" /\ seen[r] = secret[k]
                    /\ account[subject[r]] = "eligible" /\ subject[r] \in admits[k]]_vars
    <2>1. RegistryOK /\ RequestOK /\ RequestInv
      BY <1>1, TypeSplit DEF FlowInv
    <2>2. SUFFICES ASSUME NEW r \in Requests, sessions' # sessions, pc'[r] # pc[r]
                   PROVE  /\ client[r] = ClientOf[code[r]]
                          /\ policy[client[r]] = "permits" /\ seen[r] = secret[client[r]]
                          /\ account[subject[r]] = "eligible" /\ subject[r] \in admits[client[r]]
      OBVIOUS
    <2>3. PICK s \in Requests : Exchange(s)
      BY <1>1, <2>1, <2>2, RowSteps DEF RowsAsBefore, Removes, CreateCode, Decide
    <2>4. r = s
      BY <2>1, <2>2, <2>3 DEF Exchange, Finish, RequestOK
    <2>5. QED
      BY <2>1, <2>3, <2>4 DEF Exchange, Reloads, Identity, RequestInv, Carries
  <1>2. QED
    BY <1>1, FlowInvHolds, PTL DEF Spec, IssuanceIsCurrent

\* However polls interleave, a client is told to go on only at the pace that the
\* slow_down answers it received demand.
THEOREM PendingPaced == Spec => PendingIsPaced
  <1>1. ASSUME TypeOK, FlowInv
        PROVE  \A r \in Requests : LET c == code[r] IN
                 PollPending(r) /\ contact[c] # None =>
                    now - contact[c] >= Interval + Backoff * slowed[c]
    <2>1. PaceOK /\ RequestInv /\ PaceInv /\ now \in Nat
      BY <1>1, TypeSplit DEF FlowInv, RestOK
    <2>2. SUFFICES ASSUME NEW r \in Requests, PollPending(r), contact[code[r]] # None
                   PROVE  now - contact[code[r]] >= Interval + Backoff * slowed[code[r]]
      OBVIOUS
    <2>3. code[r] \in Codes
      BY <2>1, <2>2 DEF PollPending, Pollable, RequestInv, Carries
    <2>4. ~(now - polled[code[r]] < interval[code[r]]) /\ contact[code[r]] = polled[code[r]]
      BY <2>1, <2>2 DEF PollPending, TooFast, PaceInv
    <2>5. polled[code[r]] \in Nat /\ interval[code[r]] \in Nat
      BY <2>1, <2>2, <2>3, <2>4 DEF PaceOK
    <2>6. interval[code[r]] = Interval + Backoff * slowed[code[r]]
      BY <2>1, <2>3 DEF PaceInv
    <2>7. now - polled[code[r]] >= interval[code[r]]
      BY <2>1, <2>4, <2>5
    <2>8. QED
      BY <2>4, <2>6, <2>7
  <1>2. QED
    BY <1>1, FlowInvHolds, PTL DEF Spec, PendingIsPaced

-----------------------------------------------------------------------------
(* The flow implements OneTimeGrant.                                       *)

\* What a code is as a grant, at each stage of its row.
Mapped(c) ==
    /\ stage[c] \in {"absent", "open"} => Phase[c] = "open" /\ Holder[c] = None
    /\ stage[c] = "approved" => Phase[c] = "held" /\ Holder[c] = owner[c]
    /\ stage[c] = "denied" => Phase[c] = "void" /\ Holder[c] = None
    /\ stage[c] = "used" => Phase[c] = "redeemed" /\ Holder[c] = owner[c]
    /\ stage[c] = "gone" => \/ Phase[c] = "void" /\ Holder[c] = None
                            \/ Phase[c] = "redeemed" /\ Holder[c] = owner[c]

\* The stage of a row decides what the code is as a grant.
LEMMA Maps ==
    ASSUME TypeOK, FlowInv, NEW c \in Codes
    PROVE  Mapped(c)
  <1>1. RowOK /\ Opened(c) /\ sessions[c] \in [Users -> Nat]
    BY TypeSplit DEF FlowInv, SessionInv, RestOK
  <1>2. stage[c] \in {"absent", "open", "approved", "denied"} => ~Redeemed(c)
    BY <1>1 DEF Opened, Redeemed
  <1>3. stage[c] = "used" => Redeemed(c)
    <2>1. SUFFICES ASSUME stage[c] = "used"
                   PROVE  Redeemed(c)
      OBVIOUS
    <2>2. owner[c] \in Users
      BY <1>1, <2>1 DEF RowOK
    <2>3. sessions[c][owner[c]] = 1
      BY <1>1, <2>1, <2>2 DEF Opened
    <2>4. QED
      BY <2>2, <2>3 DEF Redeemed
  <1>4. QED
    BY <1>2, <1>3 DEF Mapped, Phase, Holder

\* A code whose row and sessions stay as they are stays the grant it is.
LEMMA SameGrant ==
    ASSUME NEW c \in Codes, stage'[c] = stage[c], owner'[c] = owner[c], sessions'[c] = sessions[c]
    PROVE  Phase'[c] = Phase[c] /\ Holder'[c] = Holder[c]
  <1>1. Redeemed(c)' <=> Redeemed(c)
    BY DEF Redeemed
  <1>2. QED
    BY <1>1 DEF Phase, Holder

\* Deleting rows voids the grants among them that are open or held.
LEMMA RemovedGrants ==
    ASSUME TypeOK, FlowInv, Removes
    PROVE  Grant!Next \/ UNCHANGED Grant!grantVars
  <1>1. RowOK
    BY TypeSplit
  <1>2. PICK removed \in SUBSET Codes : Remove(removed) /\ UNCHANGED <<owner, expires, sessions>>
    BY DEF Removes
  <1>3. DEFINE lost == {c \in removed : stage[c] # "absent" /\ Phase[c] \in {"open", "held"}}
  <1>4. ASSUME NEW c \in Codes
        PROVE  /\ c \in lost => Phase'[c] = "void" /\ Holder'[c] = None
               /\ c \notin lost => Phase'[c] = Phase[c] /\ Holder'[c] = Holder[c]
    <2>1. Mapped(c) /\ (Redeemed(c)' <=> Redeemed(c)) /\ owner'[c] = owner[c]
      BY <1>2, Maps DEF Redeemed
    <2>2. CASE c \in removed /\ stage[c] # "absent"
      <3>1. stage'[c] = "gone"
        BY <1>2, <2>2 DEF Remove
      <3>2. QED
        BY <2>1, <2>2, <3>1 DEF Mapped, Phase, Holder
    <2>3. CASE ~(c \in removed /\ stage[c] # "absent")
      <3>1. stage'[c] = stage[c] /\ sessions'[c] = sessions[c]
        BY <1>2, <2>3 DEF Remove
      <3>2. QED
        BY <2>1, <2>3, <3>1, SameGrant
    <2>4. QED
      BY <2>2, <2>3
  <1>5. lost \in SUBSET Codes /\ \A c \in lost : Phase[c] \in {"open", "held"}
    OBVIOUS
  <1>6. Phase' = [c \in Codes |-> IF c \in lost THEN "void" ELSE Phase[c]]
    <2>1. Phase' = [c \in Codes |-> Phase'[c]]
      BY DEF Phase
    <2>2. QED
      BY <1>4, <2>1
  <1>7. Holder' = [c \in Codes |-> IF c \in lost THEN None ELSE Holder[c]]
    <2>1. Holder' = [c \in Codes |-> Holder'[c]]
      BY DEF Holder
    <2>2. QED
      BY <1>4, <2>1
  <1>8. Grant!Void(lost)
    BY <1>2, <1>5, <1>6, <1>7 DEF Grant!Void
  <1>9. QED
    BY <1>5, <1>8 DEF Grant!Next

\* A decision takes the grant for the user, or voids it.
LEMMA DecidedGrant ==
    ASSUME TypeOK, FlowInv, NEW u \in Users, NEW c \in Codes, NEW approve \in BOOLEAN,
           Decide(u, c, approve)
    PROVE  Grant!Next
  <1>1. RowOK /\ Mapped(c) /\ stage[c] = "open"
    BY TypeSplit, Maps DEF Decide, Undecided
  <1>2. ~Redeemed(c) /\ ~Redeemed(c)'
    BY <1>1, TypeSplit DEF FlowInv, SessionInv, Opened, Decide, Redeemed
  <1>3. Phase[c] = "open"
    BY <1>1 DEF Mapped
  <1>4. stage'[c] = (IF approve THEN "approved" ELSE "denied") /\ owner'[c] = u /\ sessions' = sessions
    BY <1>1 DEF Decide, RowOK
  <1>5. ASSUME NEW d \in Codes, d # c
        PROVE  Phase'[d] = Phase[d] /\ Holder'[d] = Holder[d]
    BY <1>1, <1>5, SameGrant DEF Decide, RowOK
  <1>6. CASE approve
    <2>1. Phase'[c] = "held" /\ Holder'[c] = u
      BY <1>2, <1>4, <1>6 DEF Phase, Holder
    <2>2. Phase' = [Phase EXCEPT ![c] = "held"]
      BY <1>5, <2>1 DEF Phase
    <2>3. Holder' = [Holder EXCEPT ![c] = u]
      BY <1>5, <2>1 DEF Holder
    <2>4. Grant!Take(c, u)
      BY <1>3, <1>4, <2>2, <2>3 DEF Grant!Take
    <2>5. QED
      BY <2>4 DEF Grant!Next
  <1>7. CASE ~approve
    <2>1. Phase'[c] = "void" /\ Holder'[c] = None
      BY <1>2, <1>4, <1>7 DEF Phase, Holder
    <2>2. Phase' = [d \in Codes |-> IF d \in {c} THEN "void" ELSE Phase[d]]
      BY <1>5, <2>1 DEF Phase
    <2>3. Holder' = [d \in Codes |-> IF d \in {c} THEN None ELSE Holder[d]]
      BY <1>5, <2>1 DEF Holder
    <2>4. Grant!Void({c})
      BY <1>3, <1>4, <2>2, <2>3 DEF Grant!Void
    <2>5. QED
      BY <2>4 DEF Grant!Next
  <1>8. QED
    BY <1>6, <1>7

\* An exchange redeems the grant for its holder.
LEMMA RedeemedGrant ==
    ASSUME TypeOK, FlowInv, NEW r \in Requests, Exchange(r)
    PROVE  Grant!Next
  <1>1. RowOK /\ sessions \in [Codes -> [Users -> Nat]] /\ RequestInv /\ SessionInv
    BY TypeSplit DEF FlowInv, RestOK
  <1>2. PICK c \in Codes, u \in Users : c = code[r] /\ u = subject[r]
    BY <1>1 DEF Exchange, RequestInv, Carries
  <1>3. u = owner[c] /\ stage[c] = "approved"
    BY <1>2, <1>1 DEF Exchange, Consumable, RequestInv, Carries
  <1>4. Phase[c] = "held" /\ Holder[c] = u
    BY <1>3, Maps DEF Mapped
  <1>5. sessions[c][u] = 0
    BY <1>1, <1>3 DEF SessionInv, Opened
  <1>6. sessions' = [sessions EXCEPT ![c] = [sessions[c] EXCEPT ![u] = sessions[c][u] + 1]]
    BY <1>2 DEF Exchange
  <1>7. stage' = [stage EXCEPT ![c] = "used"] /\ owner' = owner
    BY <1>2 DEF Exchange
  <1>8. sessions'[c][u] = 1
    BY <1>1, <1>3, <1>5, <1>6
  <1>9. Phase'[c] = "redeemed" /\ Holder'[c] = u
    <2>1. Redeemed(c)'
      BY <1>8 DEF Redeemed
    <2>2. QED
      BY <1>1, <1>3, <1>7, <2>1 DEF RowOK, Phase, Holder
  <1>10. ASSUME NEW d \in Codes, d # c
         PROVE  Phase'[d] = Phase[d] /\ Holder'[d] = Holder[d]
    BY <1>1, <1>6, <1>7, <1>10, SameGrant DEF RowOK
  <1>11. Phase' = [Phase EXCEPT ![c] = "redeemed"]
    BY <1>9, <1>10 DEF Phase
  <1>12. Holder' = Holder
    BY <1>4, <1>9, <1>10 DEF Holder
  <1>13. sessions' = [sessions EXCEPT ![c] = [sessions[c] EXCEPT ![Holder[c]] = 1]]
    BY <1>1, <1>4, <1>5, <1>6
  <1>14. Grant!Redeem(c)
    BY <1>4, <1>11, <1>12, <1>13 DEF Grant!Redeem
  <1>15. QED
    BY <1>3, <1>14 DEF Grant!Next

\* Every step is a step of the grant or leaves it alone.
LEMMA GrantStep ==
    ASSUME TypeOK, FlowInv, [Next]_vars
    PROVE  [Grant!Next]_(Grant!grantVars)
  <1>1. RegistryOK /\ RowOK
    BY TypeSplit
  <1>2. ASSUME \A c \in Codes : Phase'[c] = Phase[c] /\ Holder'[c] = Holder[c], sessions' = sessions
        PROVE  UNCHANGED Grant!grantVars
    <2>1. Phase' = Phase
      BY <1>2 DEF Phase
    <2>2. Holder' = Holder
      BY <1>2 DEF Holder
    <2>3. QED
      BY <1>2, <2>1, <2>2 DEF Grant!grantVars
  <1>3. CASE RowsAsBefore
    <2>1. sessions' = sessions /\ \A c \in Codes : Phase'[c] = Phase[c] /\ Holder'[c] = Holder[c]
      BY <1>3, SameGrant DEF RowsAsBefore
    <2>2. QED
      BY <1>2, <2>1
  <1>4. ASSUME NEW c \in Codes, CreateCode(c)
        PROVE  UNCHANGED Grant!grantVars
    <2>1. sessions' = sessions /\ owner' = owner /\ stage'[c] = "open" /\ stage[c] = "absent"
      BY <1>1, <1>4 DEF CreateCode, RowOK
    <2>2. Phase'[c] = Phase[c] /\ Holder'[c] = Holder[c]
      <3>1. Redeemed(c)' <=> Redeemed(c)
        BY <2>1 DEF Redeemed
      <3>2. QED
        BY <2>1, <3>1 DEF Phase, Holder
    <2>3. ASSUME NEW d \in Codes, d # c
          PROVE  Phase'[d] = Phase[d] /\ Holder'[d] = Holder[d]
      BY <1>1, <1>4, <2>3, SameGrant DEF CreateCode, RowOK
    <2>4. QED
      BY <1>2, <2>1, <2>2, <2>3
  <1>5. QED
    BY <1>1, <1>3, <1>4, RowSteps, RemovedGrants, DecidedGrant, RedeemedGrant

\* The rows and the requests together are a one-time grant: one user takes it, and
\* it opens at most one session, of that user.
THEOREM DeviceIsGrant == Spec => ImplementsGrant
  <1>1. Init => Grant!Init
    BY DEF Init, Grant!Init, Phase, Holder, Redeemed
  <1>2. QED
    BY <1>1, GrantStep, FlowInvHolds, PTL DEF Spec, ImplementsGrant, Grant!Spec
=============================================================================
