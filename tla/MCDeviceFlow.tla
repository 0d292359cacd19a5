---------------------------- MODULE MCDeviceFlow ----------------------------
(* One code of one of two clients, two users who may decide on it, and two  *)
(* token requests at a time.                                                *)
EXTENDS DeviceFlow, TLC

CONSTANTS k1, k2, u1, u2, c1, r1, r2

MCClientOf == (c1 :> k1)
MCSymmetry == Permutations(Requests) \cup Permutations(Users)
=============================================================================
