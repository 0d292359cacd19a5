--------------------------- MODULE OutboxContract ---------------------------
(***************************************************************************)
(* What the notification outbox promises, without claims, leases, workers  *)
(* or time: a published row stays until it is closed with an outcome, a    *)
(* "delivered" outcome is true, mail may go out more than once, also after *)
(* the row was closed, and only closed rows are removed.                   *)
(***************************************************************************)
CONSTANTS Events, Results, Delivered

VARIABLES state, mailed
contractVars == <<state, mailed>>

Init ==
    /\ state = [e \in Events |-> "absent"]
    /\ mailed = {}

Publish(e) ==
    /\ state[e] = "absent"
    /\ state' = [state EXCEPT ![e] = "pending"]
    /\ UNCHANGED mailed

Mail(e) ==
    /\ state[e] # "absent"
    /\ mailed' = mailed \cup {e}
    /\ UNCHANGED state

Close(e) ==
    /\ state[e] = "pending"
    /\ \E r \in Results :
         /\ r = Delivered => e \in mailed
         /\ state' = [state EXCEPT ![e] = r]
    /\ UNCHANGED mailed

Purge(S) ==
    /\ \A e \in S : state[e] \in Results
    /\ state' = [e \in Events |-> IF e \in S THEN "purged" ELSE state[e]]
    /\ UNCHANGED mailed

Next ==
    \/ \E e \in Events : Publish(e) \/ Mail(e) \/ Close(e)
    \/ \E S \in SUBSET Events : Purge(S)

Spec == Init /\ [][Next]_contractVars
FairSpec == Spec /\ \A e \in Events : WF_contractVars(Close(e))
=============================================================================
