------------------------- MODULE MCAuthorizationFlow -------------------------
(* One authorize request of one of two clients, two users who may be bound  *)
(* to it, and two token requests at a time.                                 *)
EXTENDS AuthorizationFlow, TLC

CONSTANTS k1, k2, u1, u2, f1, r1, r2

MCClientOf == (f1 :> k1)
MCSymmetry == Permutations(Requests) \cup Permutations(Users)
=============================================================================
