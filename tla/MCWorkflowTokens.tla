-------------------------- MODULE MCWorkflowTokens --------------------------
(* Small instances of WorkflowTokens for TLC.                              *)
EXTENDS WorkflowTokens, TLC

CONSTANTS alice, r1, r2, m1, m2, m3

OneUser == [m \in Emails |-> alice]
OneTick == [p \in Purposes |-> 1]

Interchangeable == Permutations(Requests) \cup Permutations(Emails)
=============================================================================
