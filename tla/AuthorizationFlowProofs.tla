------------------------ MODULE AuthorizationFlowProofs ------------------------
(* Theorems about AuthorizationFlow, for every value of its constants.     *)
EXTENDS AuthorizationFlow, TLAPS

-----------------------------------------------------------------------------
(* The type invariant in parts, and the inductive invariant.               *)

FlowOK ==
    /\ handle \in [Flows -> {"absent", "open", "used", "gone"}]
    /\ bound \in [Flows -> Users \cup {None}]
    /\ handleUntil \in [Flows -> Nat]
    /\ code \in [Flows -> {"absent", "live", "used", "gone"}]
    /\ subject \in [Flows -> Users \cup {None}]
    /\ codeUntil \in [Flows -> Nat]
    /\ started \in [Flows -> Nat]

SessionOK == sessions \in [Flows -> [Users -> Nat]] /\ denied \subseteq Flows /\ now \in 0..MaxNow

RegistryOK ==
    /\ policy \in [Clients -> {"permits", "narrowed", "inactive", "deleted"}]
    /\ secret \in [Clients -> Nat]
    /\ consent \in [Clients -> BOOLEAN]
    /\ admits \in [Clients -> SUBSET Users]
    /\ account \in [Users -> {"eligible", "ineligible", "deleted"}]
    /\ changes \in 0..MaxChanges

RequestOK ==
    /\ pc \in [Requests -> {"idle", "authenticated"}]
    /\ client \in [Requests -> Clients \cup {None}]
    /\ seen \in [Requests -> Nat \cup {None}]
    /\ presented \in [Requests -> Flows \cup {None}]

\* A consumed handle names its user, and so does a code issued through a handle.
Named(f) ==
    /\ handle[f] = "used" => bound[f] # None
    /\ handle[f] # "absent" /\ code[f] # "absent" => subject[f] = bound[f]

\* TypeOK is the conjunction of its parts.
LEMMA TypeSplit ==
    TypeOK <=> FlowOK /\ SessionOK /\ RegistryOK /\ RequestOK /\ \A f \in Flows : Named(f)
  BY DEF TypeOK, FlowOK, SessionOK, RegistryOK, RequestOK, Named

\* A code is issued to a user once the handle is used up, within the lifetime of
\* the handle; until the code is used there is no session.
Sound(f) ==
    /\ handle[f] = "absent" => bound[f] = None
    /\ handle[f] # "absent" => handleUntil[f] = started[f] + Lifetime
    /\ code[f] # "absent" =>
         /\ handle[f] # "open" /\ subject[f] \in Users
         /\ codeUntil[f] <= started[f] + 2 * Lifetime
    /\ code[f] \in {"absent", "live"} => \A u \in Users : sessions[f][u] = 0

\* A request at work carries what it authenticated with and a code.
Carries(r) ==
    pc[r] # "idle" => client[r] \in Clients /\ seen[r] \in Nat /\ presented[r] \in Flows

FlowInv == /\ \A f \in Flows : Sound(f)
           /\ \A r \in Requests : Carries(r)

-----------------------------------------------------------------------------
(* The shapes a step can have.                                             *)

Same(f) ==
    /\ handle'[f] = handle[f] /\ bound'[f] = bound[f] /\ handleUntil'[f] = handleUntil[f]
    /\ code'[f] = code[f] /\ subject'[f] = subject[f] /\ codeUntil'[f] = codeUntil[f]
    /\ started'[f] = started[f]

\* The request waits behind a fresh handle, for any user or for one.
Opens(f) ==
    /\ New(f)
    /\ handle'[f] = "open" /\ bound'[f] \in Users \cup {None}
    /\ handleUntil'[f] = now + Lifetime /\ started'[f] = now
    /\ code'[f] = code[f] /\ subject'[f] = subject[f] /\ codeUntil'[f] = codeUntil[f]

\* The code is issued.
Issues(f, u) ==
    code'[f] = "live" /\ subject'[f] = u /\ codeUntil'[f] = now + Lifetime

\* The request is answered with a code at once.
Answers(f) ==
    /\ New(f)
    /\ handle'[f] = handle[f] /\ bound'[f] = bound[f] /\ handleUntil'[f] = handleUntil[f]
    /\ started'[f] = now
    /\ \E u \in Users : Issues(f, u)

\* The handle is bound to u, stays open, is refused or is turned into a code.
Advances(f, u) ==
    /\ handle[f] = "open" /\ now < handleUntil[f] /\ bound[f] \in {None, u}
    /\ bound'[f] = u /\ handleUntil'[f] = handleUntil[f] /\ started'[f] = started[f]
    /\ \/ /\ handle'[f] \in {"open", "used"}
          /\ code'[f] = code[f] /\ subject'[f] = subject[f] /\ codeUntil'[f] = codeUntil[f]
       \/ handle'[f] = "used" /\ Issues(f, u)

Interaction(f) ==
    /\ UNCHANGED <<registry, now, request, sessions>>
    /\ \A g \in Flows \ {f} : Same(g)
    /\ Opens(f) \/ Answers(f) \/ \E u \in Users : Advances(f, u)

\* Rows are deleted.
Deletes ==
    /\ \E lost \in SUBSET Flows, spent \in SUBSET Flows :
         handle' = Removed(handle, lost) /\ code' = Removed(code, spent)
    /\ UNCHANGED <<bound, handleUntil, subject, codeUntil, sessions, started>>

FlowsAsBefore == UNCHANGED <<handles, codes, sessions, started>>

\* Every interaction keeps the types and has one of the shapes.
LEMMA InteractTyped ==
    ASSUME TypeOK, NEW f \in Flows, Interact(f)
    PROVE  FlowOK' /\ SessionOK' /\ Interaction(f)
  <1>1. FlowOK /\ SessionOK
    BY TypeSplit
  <1>2. now \in Nat /\ now + Lifetime \in Nat
    BY <1>1, AuthorizationFlowAssumption DEF SessionOK
  <1>3. ASSUME NEW u \in Users \cup {None}, OpenHandle(f, u)
        PROVE  FlowOK' /\ SessionOK' /\ Interaction(f)
    <2>1. FlowOK' /\ SessionOK'
      BY <1>1, <1>2, <1>3 DEF OpenHandle, codes, FlowOK, SessionOK
    <2>2. Opens(f) /\ \A g \in Flows \ {f} : Same(g)
      BY <1>1, <1>3 DEF OpenHandle, codes, FlowOK, Opens, Same
    <2>3. QED
      BY <1>3, <2>1, <2>2 DEF OpenHandle, Interaction
  <1>4. ASSUME NEW u \in Users, AuthorizeDirectly(f, u)
        PROVE  FlowOK' /\ SessionOK' /\ Interaction(f)
    <2>1. FlowOK' /\ SessionOK'
      BY <1>1, <1>2, <1>4 DEF AuthorizeDirectly, IssueCode, handles, FlowOK, SessionOK
    <2>2. Answers(f) /\ \A g \in Flows \ {f} : Same(g)
      BY <1>1, <1>4 DEF AuthorizeDirectly, IssueCode, handles, FlowOK, Answers, Issues, Same
    <2>3. QED
      BY <1>4, <2>1, <2>2 DEF AuthorizeDirectly, Interaction
  <1>5. ASSUME NEW u \in Users, ContinueBound(f, u)
        PROVE  FlowOK' /\ SessionOK' /\ Interaction(f)
    <2>1. FlowOK' /\ SessionOK'
      BY <1>1, <1>5 DEF ContinueBound, Bind, codes, history, FlowOK, SessionOK
    <2>2. Advances(f, u) /\ \A g \in Flows \ {f} : Same(g)
      BY <1>1, <1>5 DEF ContinueBound, Bind, Bindable, codes, history, FlowOK, Advances, Same
    <2>3. QED
      BY <1>5, <2>1, <2>2 DEF ContinueBound, Bind, history, Interaction
  <1>6. ASSUME NEW u \in Users, ContinueRefused(f, u)
        PROVE  FlowOK' /\ SessionOK' /\ Interaction(f)
    <2>1. FlowOK' /\ SessionOK'
      BY <1>1, <1>6 DEF ContinueRefused, Bind, codes, history, FlowOK, SessionOK
    <2>2. Advances(f, u) /\ \A g \in Flows \ {f} : Same(g)
      BY <1>1, <1>6 DEF ContinueRefused, Bind, Bindable, codes, history, FlowOK, Advances, Same
    <2>3. QED
      BY <1>6, <2>1, <2>2 DEF ContinueRefused, Bind, history, Interaction
  <1>7. ASSUME NEW u \in Users, ContinueWithoutConsent(f, u)
        PROVE  FlowOK' /\ SessionOK' /\ Interaction(f)
    <2>1. FlowOK' /\ SessionOK'
      BY <1>1, <1>2, <1>7 DEF ContinueWithoutConsent, Bind, IssueCode, history, FlowOK, SessionOK
    <2>2. Advances(f, u) /\ \A g \in Flows \ {f} : Same(g)
      BY <1>1, <1>7 DEF ContinueWithoutConsent, Bind, Bindable, IssueCode, history, FlowOK,
                        Advances, Issues, Same
    <2>3. QED
      BY <1>7, <2>1, <2>2 DEF ContinueWithoutConsent, Bind, history, Interaction
  <1>8. ASSUME NEW u \in Users, NEW decision \in {"approve", "deny"}, DecideRefused(f, u, decision)
        PROVE  FlowOK' /\ SessionOK' /\ Interaction(f)
    <2>1. FlowOK' /\ SessionOK'
      BY <1>1, <1>8 DEF DecideRefused, Consume, codes, FlowOK, SessionOK
    <2>2. Advances(f, u) /\ \A g \in Flows \ {f} : Same(g)
      BY <1>1, <1>8 DEF DecideRefused, Consume, Consumable, codes, FlowOK, Advances, Same
    <2>3. QED
      BY <1>8, <2>1, <2>2 DEF DecideRefused, Consume, Interaction
  <1>9. ASSUME NEW u \in Users, NEW decision \in {"approve", "deny"}, DecideAccepted(f, u, decision)
        PROVE  FlowOK' /\ SessionOK' /\ Interaction(f)
    <2>1. FlowOK' /\ SessionOK'
      BY <1>1, <1>2, <1>9 DEF DecideAccepted, Consume, IssueCode, FlowOK, SessionOK
    <2>2. Advances(f, u) /\ \A g \in Flows \ {f} : Same(g)
      BY <1>1, <1>9 DEF DecideAccepted, Consume, Consumable, IssueCode, FlowOK, Advances, Issues, Same
    <2>3. QED
      BY <1>9, <2>1, <2>2 DEF DecideAccepted, Consume, Interaction
  <1>10. QED
    BY <1>3, <1>4, <1>5, <1>6, <1>7, <1>8, <1>9 DEF Interact, AuthorizeAnonymous, AuthorizeForConsent

\* A change of the registry touches nothing else, but for the rows it deletes.
LEMMA ChangeSteps ==
    ASSUME TypeOK, Administer
    PROVE  RegistryOK' /\ UNCHANGED <<now, request, denied>> /\ (FlowsAsBefore \/ Deletes)
  <1>1. RegistryOK
    BY TypeSplit
  <1>2. ASSUME Change
        PROVE  /\ changes' \in 0..MaxChanges
               /\ UNCHANGED <<bound, handleUntil, subject, codeUntil, now, request, sessions, started, denied>>
    BY <1>1, <1>2, AuthorizationFlowAssumption DEF Change, history, RegistryOK
  <1>3. ASSUME NEW k \in Clients, NEW p \in {"permits", "narrowed", "inactive"},
               NEW required \in BOOLEAN, ReplaceClient(k, p, required)
        PROVE  RegistryOK' /\ FlowsAsBefore
    BY <1>1, <1>2, <1>3 DEF ReplaceClient, RegistryOK, FlowsAsBefore, handles, codes
  <1>4. ASSUME NEW k \in Clients, NEW U \in SUBSET Users, ReplaceUserOrganizations(k, U)
        PROVE  RegistryOK' /\ FlowsAsBefore
    BY <1>1, <1>2, <1>4 DEF ReplaceUserOrganizations, RegistryOK, FlowsAsBefore, handles, codes
  <1>5. ASSUME NEW k \in Clients, RotateSecret(k)
        PROVE  RegistryOK' /\ FlowsAsBefore
    BY <1>1, <1>2, <1>5 DEF RotateSecret, RegistryOK, FlowsAsBefore, handles, codes
  <1>6. ASSUME NEW k \in Clients, DeleteClient(k)
        PROVE  RegistryOK' /\ Deletes
    BY <1>1, <1>2, <1>6 DEF DeleteClient, RegistryOK, Deletes
  <1>7. ASSUME NEW u \in Users, NEW a \in {"eligible", "ineligible"}, ChangeUser(u, a)
        PROVE  RegistryOK' /\ FlowsAsBefore
    BY <1>1, <1>2, <1>7 DEF ChangeUser, RegistryOK, FlowsAsBefore, handles, codes
  <1>8. ASSUME NEW u \in Users, DeleteUser(u)
        PROVE  RegistryOK' /\ Deletes
    BY <1>1, <1>2, <1>8 DEF DeleteUser, RegistryOK, Deletes
  <1>9. Administer => Change
    BY DEF Administer, ReplaceClient, ReplaceUserOrganizations, RotateSecret, DeleteClient,
           ChangeUser, DeleteUser
  <1>10. QED
    BY <1>2, <1>3, <1>4, <1>5, <1>6, <1>7, <1>8, <1>9 DEF Administer

\* Every step leaves the flows alone, deletes rows, interacts with one flow, or
\* exchanges a code.
LEMMA FlowSteps ==
    ASSUME TypeOK, [Next]_vars
    PROVE  \/ FlowsAsBefore
           \/ Deletes
           \/ \E f \in Flows : Interact(f)
           \/ \E r \in Requests : Exchange(r)
  <1>1. FlowOK
    BY TypeSplit
  <1>2. ASSUME NEW f \in Flows, CleanupHandle(f) \/ CleanupCode(f)
        PROVE  Deletes
    <2>1. code = Removed(code, {}) /\ handle = Removed(handle, {})
      BY <1>1 DEF FlowOK, Removed
    <2>2. QED
      BY <1>2, <2>1 DEF CleanupHandle, CleanupCode, handles, codes, history, Deletes
  <1>3. ASSUME NEW r \in Requests, Serve(r)
        PROVE  FlowsAsBefore \/ Exchange(r)
    BY <1>3 DEF Serve, Authenticate, Abandon, history, FlowsAsBefore
  <1>4. Tick \/ UNCHANGED vars => FlowsAsBefore
    BY DEF Tick, vars, history, FlowsAsBefore
  <1>5. QED
    BY <1>2, <1>3, <1>4, ChangeSteps DEF Next

\* The registry and the requests keep their types, and a request its luggage.
LEMMA RequestsKept ==
    ASSUME TypeOK, \A r \in Requests : Carries(r), [Next]_vars
    PROVE  RegistryOK' /\ RequestOK' /\ \A r \in Requests : Carries(r)'
  <1>1. RegistryOK /\ RequestOK
    BY TypeSplit
  <1>2. ASSUME UNCHANGED registry
        PROVE  RegistryOK'
    BY <1>1, <1>2 DEF registry, RegistryOK
  <1>3. ASSUME UNCHANGED request
        PROVE  RequestOK' /\ \A r \in Requests : Carries(r)'
    BY <1>1, <1>3 DEF request, RequestOK, Carries
  <1>4. ASSUME NEW r \in Requests, Finish(r)
        PROVE  RequestOK' /\ \A s \in Requests : Carries(s)'
    <2>1. RequestOK'
      BY <1>1, <1>4 DEF Finish, RequestOK
    <2>2. \A s \in Requests : Carries(s)'
      BY <1>1, <1>4 DEF Finish, RequestOK, Carries
    <2>3. QED
      BY <2>1, <2>2
  <1>5. ASSUME NEW r \in Requests, NEW k \in Clients, NEW f \in Flows, Authenticate(r, k, f)
        PROVE  RequestOK' /\ \A s \in Requests : Carries(s)'
    <2>1. RequestOK'
      BY <1>1, <1>5 DEF Authenticate, RegistryOK, RequestOK
    <2>2. \A s \in Requests : Carries(s)'
      BY <1>1, <1>5 DEF Authenticate, RegistryOK, RequestOK, Carries
    <2>3. QED
      BY <2>1, <2>2
  <1>6. ASSUME NEW r \in Requests, Serve(r)
        PROVE  UNCHANGED registry /\ (Finish(r) \/ \E k \in Clients, f \in Flows : Authenticate(r, k, f))
    BY <1>6 DEF Serve, Exchange, Abandon, Authenticate
  <1>7. ASSUME NEW f \in Flows, Interact(f) \/ CleanupHandle(f) \/ CleanupCode(f)
        PROVE  UNCHANGED registry /\ UNCHANGED request
    BY <1>7, InteractTyped DEF Interaction, CleanupHandle, CleanupCode
  <1>8. Tick \/ UNCHANGED vars => UNCHANGED registry /\ UNCHANGED request
    BY DEF Tick, vars
  <1>9. QED
    BY <1>2, <1>3, <1>4, <1>5, <1>6, <1>7, <1>8, ChangeSteps DEF Next

\* So do the flows, the sessions and the clock.
LEMMA FlowsTyped ==
    ASSUME TypeOK, [Next]_vars
    PROVE  FlowOK' /\ SessionOK'
  <1>1. FlowOK /\ SessionOK
    BY TypeSplit
  <1>2. FlowOK' /\ sessions' \in [Flows -> [Users -> Nat]]
    <2>1. CASE FlowsAsBefore
      BY <1>1, <2>1 DEF FlowsAsBefore, handles, codes, FlowOK, SessionOK
    <2>2. CASE Deletes
      BY <1>1, <2>2 DEF Deletes, Removed, FlowOK, SessionOK
    <2>3. ASSUME NEW f \in Flows, Interact(f)
          PROVE  FlowOK' /\ SessionOK'
      BY <2>3, InteractTyped
    <2>4. ASSUME NEW r \in Requests, Exchange(r)
          PROVE  FlowOK' /\ sessions' \in [Flows -> [Users -> Nat]]
      <3>1. FlowOK'
        BY <1>1, <2>4 DEF Exchange, handles, FlowOK
      <3>2. sessions' = [sessions EXCEPT ![presented[r]] =
                            [sessions[presented[r]] EXCEPT ![subject[presented[r]]] =
                                sessions[presented[r]][subject[presented[r]]] + 1]]
        BY <2>4 DEF Exchange
      <3>3. sessions' \in [Flows -> [Users -> Nat]]
        <4>1. CASE presented[r] \notin Flows
          BY <1>1, <3>2, <4>1 DEF SessionOK
        <4>2. CASE presented[r] \in Flows /\ subject[presented[r]] \in Users
          BY <1>1, <3>2, <4>2 DEF SessionOK
        <4>3. CASE presented[r] \in Flows /\ subject[presented[r]] \notin Users
          BY <1>1, <3>2, <4>3 DEF SessionOK
        <4>4. QED
          BY <4>1, <4>2, <4>3
      <3>4. QED
        BY <3>1, <3>3
    <2>5. QED
      BY <2>1, <2>2, <2>3, <2>4, FlowSteps DEF SessionOK
  <1>3. denied' \subseteq Flows /\ now' \in 0..MaxNow
    <2>1. Administer => UNCHANGED <<now, denied>>
      BY ChangeSteps
    <2>2. ASSUME NEW r \in Requests, Serve(r)
          PROVE  UNCHANGED <<now, denied>>
      BY <2>2 DEF Serve, Authenticate, Exchange, Abandon, history
    <2>3. Tick => now' \in 0..MaxNow /\ denied' = denied
      BY <1>1, AuthorizationFlowAssumption DEF Tick, history, SessionOK
    <2>4. ASSUME NEW f \in Flows, CleanupHandle(f) \/ CleanupCode(f)
          PROVE  UNCHANGED <<now, denied>>
      BY <2>4 DEF CleanupHandle, CleanupCode, history
    <2>5. QED
      BY <1>1, <2>1, <2>2, <2>3, <2>4, InteractTyped DEF Next, vars, history, SessionOK
  <1>4. QED
    BY <1>2, <1>3 DEF SessionOK

\* Every flow stays sound and named.
LEMMA SoundKept ==
    ASSUME TypeOK, FlowInv, [Next]_vars, NEW f \in Flows
    PROVE  Named(f)' /\ Sound(f)'
  <1>1. FlowOK /\ SessionOK /\ Named(f) /\ Sound(f)
    BY TypeSplit DEF FlowInv
  <1>2. now \in Nat /\ Lifetime \in Nat \ {0} /\ started[f] \in Nat
    BY <1>1, AuthorizationFlowAssumption DEF FlowOK, SessionOK
  <1>3. CASE FlowsAsBefore
    BY <1>1, <1>3 DEF FlowsAsBefore, handles, codes, Named, Sound
  <1>4. CASE Deletes
    BY <1>1, <1>4 DEF Deletes, Removed, FlowOK, Named, Sound
  <1>5. ASSUME NEW g \in Flows, Interact(g)
        PROVE  Named(f)' /\ Sound(f)'
    <2>1. Interaction(g) /\ FlowOK'
      BY <1>5, InteractTyped
    <2>2. CASE f # g
      <3>1. Same(f) /\ sessions' = sessions
        BY <2>1, <2>2 DEF Interaction
      <3>2. QED
        BY <1>1, <3>1 DEF Same, Named, Sound
    <2>3. CASE f = g /\ Opens(f)
      BY <1>1, <1>2, <2>1, <2>3, AuthorizationFlowAssumption DEF Interaction, Opens, New, Named, Sound
    <2>4. CASE f = g /\ Answers(f)
      BY <1>1, <1>2, <2>1, <2>4, AuthorizationFlowAssumption
         DEF Interaction, Answers, Issues, New, Named, Sound
    <2>5. ASSUME NEW u \in Users, f = g, Advances(f, u)
          PROVE  Named(f)' /\ Sound(f)'
      <3>1. handleUntil[f] = started[f] + Lifetime /\ code[f] = "absent"
        BY <1>1, <2>5 DEF Advances, Sound, FlowOK
      <3>2. sessions' = sessions /\ u # None
        BY <2>1, AuthorizationFlowAssumption DEF Interaction
      <3>3. QED
        BY <1>1, <1>2, <2>5, <3>1, <3>2 DEF Advances, Issues, Named, Sound
    <2>6. QED
      BY <2>1, <2>2, <2>3, <2>4, <2>5 DEF Interaction
  <1>6. ASSUME NEW r \in Requests, Exchange(r)
        PROVE  Named(f)' /\ Sound(f)'
    <2>1. UNCHANGED <<handle, bound, handleUntil, subject, codeUntil, started>>
      BY <1>6 DEF Exchange, handles
    <2>2. CASE f # presented[r]
      <3>1. code'[f] = code[f] /\ sessions'[f] = sessions[f]
        BY <1>1, <1>6, <2>2 DEF Exchange, FlowOK, SessionOK
      <3>2. QED
        BY <1>1, <2>1, <3>1 DEF Named, Sound
    <2>3. CASE f = presented[r]
      <3>1. code[f] = "live" /\ code'[f] = "used"
        BY <1>1, <1>6, <2>3 DEF Exchange, Redeemable, FlowOK
      <3>2. QED
        BY <1>1, <2>1, <3>1 DEF Named, Sound
    <2>4. QED
      BY <2>2, <2>3
  <1>7. QED
    BY <1>3, <1>4, <1>5, <1>6, FlowSteps

-----------------------------------------------------------------------------
(* The theorems.                                                           *)

\* The inductive invariant: a code is issued to the user its handle was bound to,
\* once the handle is used up and within its lifetime; only a used code has had a
\* session.
THEOREM FlowInvHolds == Spec => [](TypeOK /\ FlowInv)
  <1>1. Init => TypeOK /\ FlowInv
    <2>1. Init => TypeOK
      BY AuthorizationFlowAssumption DEF Init, TypeOK
    <2>2. Init => FlowInv
      BY DEF Init, FlowInv, Sound, Carries
    <2>3. QED
      BY <2>1, <2>2
  <1>2. TypeOK /\ FlowInv /\ [Next]_vars => (TypeOK /\ FlowInv)'
    <2>1. SUFFICES ASSUME TypeOK, FlowInv, [Next]_vars
                   PROVE  TypeOK' /\ FlowInv'
      OBVIOUS
    <2>2. FlowOK' /\ SessionOK'
      BY <2>1, FlowsTyped
    <2>3. RegistryOK' /\ RequestOK' /\ \A r \in Requests : Carries(r)'
      BY <2>1, RequestsKept DEF FlowInv
    <2>4. \A f \in Flows : Named(f)' /\ Sound(f)'
      BY <2>1, SoundKept
    <2>5. TypeOK'
      BY <2>2, <2>3, <2>4 DEF TypeOK, FlowOK, SessionOK, RegistryOK, RequestOK, Named
    <2>6. QED
      BY <2>3, <2>4, <2>5 DEF FlowInv
  <1>3. QED
    BY <1>1, <1>2, PTL DEF Spec

\* Every variable has its type, a consumed handle names its user and the code that
\* came of it is the same user's.
THEOREM TypeCorrect == Spec => []TypeOK
  BY FlowInvHolds, PTL

\* A request turns into a session within two lifetimes or never.
THEOREM FlowsBrief == Spec => FlowsAreBrief
  <1>1. ASSUME TypeOK, FlowInv, [Next]_vars
        PROVE  [\A f \in Flows : sessions'[f] # sessions[f] => now < started[f] + 2 * Lifetime]_vars
    <2>1. FlowOK /\ SessionOK
      BY <1>1, TypeSplit
    <2>2. SUFFICES ASSUME NEW f \in Flows, sessions'[f] # sessions[f]
                   PROVE  now < started[f] + 2 * Lifetime
      OBVIOUS
    <2>3. PICK r \in Requests : Exchange(r)
      BY <1>1, <2>2, FlowSteps, InteractTyped DEF FlowsAsBefore, Deletes, Interaction
    <2>4. presented[r] = f
      BY <2>1, <2>2, <2>3 DEF Exchange, SessionOK
    <2>5. code[f] = "live" /\ now < codeUntil[f]
      BY <2>3, <2>4 DEF Exchange, Redeemable
    <2>6. codeUntil[f] <= started[f] + 2 * Lifetime
      BY <1>1, <2>5 DEF FlowInv, Sound
    <2>7. now \in Nat /\ codeUntil[f] \in Nat /\ started[f] + 2 * Lifetime \in Nat
      BY <2>1, AuthorizationFlowAssumption DEF FlowOK, SessionOK
    <2>8. QED
      BY <2>5, <2>6, <2>7
  <1>2. QED
    BY <1>1, FlowInvHolds, PTL DEF Spec, FlowsAreBrief

-----------------------------------------------------------------------------
(* The flow implements OneTimeGrant.                                       *)

\* A flow whose rows and sessions stay as they are stays the grant it is.
LEMMA SameGrant ==
    ASSUME NEW f \in Flows, Same(f), sessions'[f] = sessions[f]
    PROVE  Phase'[f] = Phase[f] /\ Holder'[f] = Holder[f]
  <1>1. Redeemed(f)' <=> Redeemed(f)
    BY DEF Redeemed
  <1>2. (Held(f)' <=> Held(f)) /\ (Open(f)' <=> Open(f))
    BY DEF Held, Open, Same
  <1>3. QED
    BY <1>1, <1>2 DEF Phase, Holder, Same

\* If no grant changes, the step is a stutter.
LEMMA NoGrantChanges ==
    ASSUME \A f \in Flows : Phase'[f] = Phase[f] /\ Holder'[f] = Holder[f], sessions' = sessions
    PROVE  UNCHANGED Grant!grantVars
  <1>1. Phase' = Phase
    BY DEF Phase
  <1>2. Holder' = Holder
    BY DEF Holder
  <1>3. QED
    BY <1>1, <1>2 DEF Grant!grantVars

\* An interaction leaves the grant open or as the user's who held it already, or
\* gives it to the user, or voids it.
LEMMA InteractionOutcome ==
    ASSUME TypeOK, FlowInv, NEW f \in Flows, Interaction(f)
    PROVE  \/ Phase'[f] = Phase[f] /\ Holder'[f] = Holder[f]
           \/ \E u \in Users : Phase[f] = "open" /\ Phase'[f] = "held" /\ Holder'[f] = u
           \/ Phase[f] \in {"open", "held"} /\ Phase'[f] = "void" /\ Holder'[f] = None
  <1>1. FlowOK /\ SessionOK /\ Named(f) /\ Sound(f)
    BY TypeSplit DEF FlowInv
  <1>2. sessions' = sessions
    BY DEF Interaction
  <1>3. code[f] = "absent" => ~Redeemed(f) /\ ~Redeemed(f)'
    BY <1>1, <1>2 DEF Sound, Redeemed
  <1>4. CASE Opens(f)
    <2>1. code[f] = "absent" /\ Phase[f] = "open"
      BY <1>1, <1>3, <1>4 DEF Opens, New, Sound, Phase, Held, Open
    <2>2. CASE bound'[f] = None
      BY <1>3, <1>4, <2>1, <2>2 DEF Opens, Phase, Holder, Held, Open
    <2>3. CASE bound'[f] \in Users
      <3>1. bound'[f] # None
        BY <2>3, AuthorizationFlowAssumption
      <3>2. Phase'[f] = "held" /\ Holder'[f] = bound'[f]
        BY <1>3, <1>4, <2>1, <3>1 DEF Opens, Phase, Holder, Held
      <3>3. QED
        BY <2>1, <2>3, <3>2
    <2>4. QED
      BY <1>4, <2>2, <2>3 DEF Opens
  <1>5. CASE Answers(f)
    <2>1. code[f] = "absent" /\ Phase[f] = "open"
      BY <1>1, <1>3, <1>5 DEF Answers, New, Sound, Phase, Held, Open
    <2>2. \E u \in Users : Phase'[f] = "held" /\ Holder'[f] = u
      BY <1>3, <1>5, <2>1 DEF Answers, Issues, Phase, Holder, Held
    <2>3. QED
      BY <2>1, <2>2
  <1>6. ASSUME NEW u \in Users, Advances(f, u)
        PROVE  \/ Phase'[f] = Phase[f] /\ Holder'[f] = Holder[f]
               \/ Phase[f] = "open" /\ Phase'[f] = "held" /\ Holder'[f] = u
               \/ Phase[f] \in {"open", "held"} /\ Phase'[f] = "void" /\ Holder'[f] = None
    <2>1. code[f] = "absent" /\ ~Redeemed(f) /\ ~Redeemed(f)' /\ u # None
      BY <1>1, <1>3, <1>6, AuthorizationFlowAssumption DEF Advances, Sound, FlowOK
    <2>2. \/ bound[f] = None /\ Phase[f] = "open" /\ Holder[f] = None
          \/ bound[f] = u /\ Phase[f] = "held" /\ Holder[f] = u
      BY <1>6, <2>1 DEF Advances, Phase, Holder, Held, Open
    <2>3. \/ Phase'[f] = "held" /\ Holder'[f] = u
          \/ Phase'[f] = "void" /\ Holder'[f] = None
      BY <1>6, <2>1 DEF Advances, Issues, Phase, Holder, Held, Open
    <2>4. QED
      BY <2>2, <2>3
  <1>7. QED
    BY <1>4, <1>5, <1>6 DEF Interaction

\* So every interaction is a Take, a Void or a stutter.
LEMMA InteractionGrant ==
    ASSUME TypeOK, FlowInv, NEW f \in Flows, Interact(f)
    PROVE  [Grant!Next]_(Grant!grantVars)
  <1>1. Interaction(f) /\ sessions' = sessions
    BY InteractTyped DEF Interaction
  <1>2. ASSUME NEW g \in Flows, g # f
        PROVE  Phase'[g] = Phase[g] /\ Holder'[g] = Holder[g]
    BY <1>1, <1>2, SameGrant DEF Interaction
  <1>3. CASE Phase'[f] = Phase[f] /\ Holder'[f] = Holder[f]
    BY <1>1, <1>2, <1>3, NoGrantChanges
  <1>4. ASSUME NEW u \in Users, Phase[f] = "open", Phase'[f] = "held", Holder'[f] = u
        PROVE  Grant!Next
    <2>1. Phase' = [Phase EXCEPT ![f] = "held"]
      BY <1>2, <1>4 DEF Phase
    <2>2. Holder' = [Holder EXCEPT ![f] = u]
      BY <1>2, <1>4 DEF Holder
    <2>3. Grant!Take(f, u)
      BY <1>1, <1>4, <2>1, <2>2 DEF Grant!Take
    <2>4. QED
      BY <2>3 DEF Grant!Next
  <1>5. CASE Phase[f] \in {"open", "held"} /\ Phase'[f] = "void" /\ Holder'[f] = None
    <2>1. Phase' = [g \in Flows |-> IF g \in {f} THEN "void" ELSE Phase[g]]
      BY <1>2, <1>5 DEF Phase
    <2>2. Holder' = [g \in Flows |-> IF g \in {f} THEN None ELSE Holder[g]]
      BY <1>2, <1>5 DEF Holder
    <2>3. Grant!Void({f})
      BY <1>1, <1>5, <2>1, <2>2 DEF Grant!Void
    <2>4. QED
      BY <2>3 DEF Grant!Next
  <1>6. QED
    BY <1>1, <1>3, <1>4, <1>5, InteractionOutcome

\* Deleting rows voids the grants that lose them while open or held.
LEMMA DeletedGrants ==
    ASSUME TypeOK, FlowInv, Deletes
    PROVE  Grant!Next
  <1>1. FlowOK
    BY TypeSplit
  <1>2. DEFINE lost == {f \in Flows : Phase'[f] # Phase[f]}
  <1>3. sessions' = sessions
    BY DEF Deletes
  <1>4. ASSUME NEW f \in Flows
        PROVE  \/ Phase'[f] = Phase[f] /\ Holder'[f] = Holder[f]
               \/ Phase[f] \in {"open", "held"} /\ Phase'[f] = "void" /\ Holder'[f] = None
    <2>1. Redeemed(f)' <=> Redeemed(f)
      BY <1>3 DEF Redeemed
    <2>2. /\ handle'[f] = handle[f] \/ (handle[f] # "absent" /\ handle'[f] = "gone")
          /\ code'[f] = code[f] \/ (code[f] # "absent" /\ code'[f] = "gone")
          /\ bound'[f] = bound[f] /\ subject'[f] = subject[f]
      BY <1>1 DEF Deletes, Removed, FlowOK
    <2>3. CASE Redeemed(f)
      BY <2>1, <2>2, <2>3 DEF Phase, Holder
    <2>4. CASE ~Redeemed(f)
      <3>1. (Held(f)' => Held(f)) /\ (Open(f)' => Open(f)) /\ ~(Held(f) /\ Open(f))
        BY <2>2 DEF Held, Open
      <3>2. QED
        BY <2>1, <2>2, <2>4, <3>1 DEF Phase, Holder
    <2>5. QED
      BY <2>3, <2>4
  <1>5. Phase' = [f \in Flows |-> IF f \in lost THEN "void" ELSE Phase[f]]
    <2>1. Phase' = [f \in Flows |-> Phase'[f]]
      BY DEF Phase
    <2>2. QED
      BY <1>4, <2>1
  <1>6. Holder' = [f \in Flows |-> IF f \in lost THEN None ELSE Holder[f]]
    <2>1. Holder' = [f \in Flows |-> Holder'[f]]
      BY DEF Holder
    <2>2. QED
      BY <1>4, <2>1
  <1>7. Grant!Void(lost)
    BY <1>3, <1>4, <1>5, <1>6 DEF Grant!Void
  <1>8. QED
    BY <1>7 DEF Grant!Next

\* An exchange redeems the grant for its holder.
LEMMA ExchangedGrant ==
    ASSUME TypeOK, FlowInv, NEW r \in Requests, Exchange(r)
    PROVE  Grant!Next
  <1>1. FlowOK /\ SessionOK
    BY TypeSplit
  <1>2. PICK f \in Flows : f = presented[r]
    BY DEF Exchange, FlowInv, Carries
  <1>3. code[f] = "live" /\ Sound(f)
    BY <1>2 DEF Exchange, Redeemable, FlowInv
  <1>4. PICK u \in Users : u = subject[f]
    BY <1>3 DEF Sound
  <1>5. sessions[f][u] = 0 /\ ~Redeemed(f)
    BY <1>3, <1>4 DEF Sound, Redeemed
  <1>6. sessions' = [sessions EXCEPT ![f] = [sessions[f] EXCEPT ![u] = sessions[f][u] + 1]]
    BY <1>2, <1>4 DEF Exchange
  <1>7. code' = [code EXCEPT ![f] = "used"] /\ UNCHANGED <<handle, bound, handleUntil, subject, codeUntil, started>>
    BY <1>2 DEF Exchange, handles
  <1>8. Phase[f] = "held" /\ Holder[f] = u
    BY <1>3, <1>4, <1>5 DEF Phase, Holder, Held
  <1>9. Phase'[f] = "redeemed" /\ Holder'[f] = u
    <2>1. sessions'[f][u] = 1
      BY <1>1, <1>5, <1>6 DEF SessionOK
    <2>2. Redeemed(f)'
      BY <2>1 DEF Redeemed
    <2>3. QED
      BY <1>1, <1>4, <1>7, <2>2 DEF FlowOK, Phase, Holder
  <1>10. ASSUME NEW g \in Flows, g # f
         PROVE  Phase'[g] = Phase[g] /\ Holder'[g] = Holder[g]
    <2>1. Same(g) /\ sessions'[g] = sessions[g]
      BY <1>1, <1>6, <1>7, <1>10 DEF Same, FlowOK, SessionOK
    <2>2. QED
      BY <2>1, SameGrant
  <1>11. Phase' = [Phase EXCEPT ![f] = "redeemed"]
    BY <1>9, <1>10 DEF Phase
  <1>12. Holder' = Holder
    BY <1>8, <1>9, <1>10 DEF Holder
  <1>13. sessions' = [sessions EXCEPT ![f] = [sessions[f] EXCEPT ![Holder[f]] = 1]]
    BY <1>1, <1>5, <1>6, <1>8
  <1>14. Grant!Redeem(f)
    BY <1>8, <1>11, <1>12, <1>13 DEF Grant!Redeem
  <1>15. QED
    BY <1>14 DEF Grant!Next

\* Every step is a step of the grant or leaves it alone.
LEMMA GrantStep ==
    ASSUME TypeOK, FlowInv, [Next]_vars
    PROVE  [Grant!Next]_(Grant!grantVars)
  <1>1. CASE FlowsAsBefore
    <2>1. sessions' = sessions /\ \A f \in Flows : Same(f)
      BY <1>1 DEF FlowsAsBefore, handles, codes, Same
    <2>2. QED
      BY <2>1, SameGrant, NoGrantChanges
  <1>2. QED
    BY <1>1, FlowSteps, DeletedGrants, InteractionGrant, ExchangedGrant

\* Handle and code together are a one-time grant: the first user bound to the
\* request is the only one its code can open a session for, and opens one at most.
THEOREM FlowIsGrant == Spec => ImplementsGrant
  <1>1. Init => Grant!Init
    BY DEF Init, Grant!Init, Phase, Holder, Redeemed, Held, Open
  <1>2. QED
    BY <1>1, GrantStep, FlowInvHolds, PTL DEF Spec, ImplementsGrant, Grant!Spec
=============================================================================
