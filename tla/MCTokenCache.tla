------------------------------ MODULE MCTokenCache ------------------------------
(* A small instance of TokenCache for TLC.                                       *)
EXTENDS TokenCache

CONSTANTS c1, c2, c3
=================================================================================
