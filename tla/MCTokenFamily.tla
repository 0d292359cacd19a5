--------------------------- MODULE MCTokenFamily ---------------------------
(* Small instances of TokenFamily for TLC.                                 *)
EXTENDS TokenFamily, TLC

CONSTANTS web, spa, alice, r1, r2

PublicOnly == [f \in Families |-> spa]
OneClient == [f \in Families |-> web]
OneUser == [f \in Families |-> alice]

\* Family 2 is a machine's.
UserAndMachine == [f \in Families |-> IF f = 2 THEN None ELSE alice]

Interchangeable == Permutations(Requests)
=============================================================================
