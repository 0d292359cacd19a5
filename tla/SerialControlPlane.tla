------------------------- MODULE SerialControlPlane -------------------------
(***************************************************************************)
(* What the control plane promises its callers: requests take effect one   *)
(* at a time, each on the rows its predecessors left.  A request that      *)
(* changes nothing is a stutter.                                           *)
(***************************************************************************)
CONSTANTS
    Start,       \* the databases a history may begin with
    Serve(_, _)  \* Serve(d, e): some request, served alone on d, leaves e

VARIABLE db

Init == db \in Start
Next == Serve(db, db')

Spec == Init /\ [][Next]_db
=============================================================================
