--------------------------- MODULE TokenAuthority ---------------------------
(***************************************************************************)
(* What a token family promises its user and its client, without requests, *)
(* clients, transactions or cleanup: authority is granted once with a      *)
(* fixed deadline, is renewed by handing in its newest token, each token   *)
(* counts once, and authority that has ended never returns.                *)
(***************************************************************************)
EXTENDS Integers

CONSTANTS Families, Generations

VARIABLES
    standing,  \* "none", "live" or "dead"
    until,     \* the deadline set with the grant
    used,      \* how often each token was handed in successfully
    now
authorityVars == <<standing, until, used, now>>

Init ==
    /\ standing = [f \in Families |-> "none"]
    /\ until = [f \in Families |-> 0]
    /\ used = [f \in Families |-> [g \in Generations |-> 0]]
    /\ now = 0

Grant(f) ==
    /\ standing[f] = "none"
    /\ standing' = [standing EXCEPT ![f] = "live"]
    /\ now < until'[f]
    /\ until' = [until EXCEPT ![f] = until'[f]]
    /\ UNCHANGED <<used, now>>

\* g is the newest token: the ones before it are used, it is not.
Renew(f, g) ==
    /\ standing[f] = "live"
    /\ now < until[f]
    /\ used[f][g] = 0
    /\ \A h \in Generations : h < g => used[f][h] = 1
    /\ used' = [used EXCEPT ![f][g] = 1]
    /\ UNCHANGED <<standing, until, now>>

\* Live families may end, and only live ones can.
Lapse(ending) ==
    /\ \A f \in ending : standing[f] = "live"
    /\ standing' = [f \in Families |-> IF f \in ending THEN "dead" ELSE standing[f]]
    /\ UNCHANGED <<until, used, now>>

Tick == now' = now + 1 /\ UNCHANGED <<standing, until, used>>

Next ==
    \/ \E f \in Families : Grant(f) \/ \E g \in Generations : Renew(f, g)
    \/ \E ending \in SUBSET Families : Lapse(ending)
    \/ Tick

Spec == Init /\ [][Next]_authorityVars
=============================================================================
