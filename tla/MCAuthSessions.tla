----------------------------- MODULE MCAuthSessions -----------------------------
(* A small instance of AuthSessions for TLC.                                     *)
EXTENDS AuthSessions, TLC

CONSTANTS s1, s2, c1, c2, c3, r1, w

MCSymmetry == Permutations(Sessions) \cup Permutations(Calls)
=================================================================================
