---------------------------- MODULE OneTimeGrant ----------------------------
(***************************************************************************)
(* What an interactive grant promises, whether it travels as a device code *)
(* or as an authorization code: one user takes it, it is then that user's  *)
(* for good, it turns into at most one session, and the session is the     *)
(* user's who took it.                                                     *)
(***************************************************************************)
EXTENDS Naturals

CONSTANTS Grants, Users, None

VARIABLES
    phase,    \* "open", "held" by a user, "redeemed" or "void"
    holder,   \* the user who took it, None otherwise
    sessions  \* how many sessions it opened, by user
grantVars == <<phase, holder, sessions>>

Init ==
    /\ phase = [g \in Grants |-> "open"]
    /\ holder = [g \in Grants |-> None]
    /\ sessions = [g \in Grants |-> [u \in Users |-> 0]]

Take(g, u) ==
    /\ phase[g] = "open"
    /\ phase' = [phase EXCEPT ![g] = "held"]
    /\ holder' = [holder EXCEPT ![g] = u]
    /\ UNCHANGED sessions

Redeem(g) ==
    /\ phase[g] = "held"
    /\ phase' = [phase EXCEPT ![g] = "redeemed"]
    /\ sessions' = [sessions EXCEPT ![g][holder[g]] = 1]
    /\ UNCHANGED holder

\* Grants are denied, deleted, or given up with the user or the client.
Void(lost) ==
    /\ \A g \in lost : phase[g] \in {"open", "held"}
    /\ phase' = [g \in Grants |-> IF g \in lost THEN "void" ELSE phase[g]]
    /\ holder' = [g \in Grants |-> IF g \in lost THEN None ELSE holder[g]]
    /\ UNCHANGED sessions

Next ==
    \/ \E g \in Grants : Redeem(g) \/ \E u \in Users : Take(g, u)
    \/ \E lost \in SUBSET Grants : Void(lost)

Spec == Init /\ [][Next]_grantVars
=============================================================================
