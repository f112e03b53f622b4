---------------------------- MODULE MCConnection ----------------------------
(* Small instances of Connection for TLC. *)
EXTENDS ConnectionExchange, TLC

CONSTANTS r1, r2, r3

\* Calls with the same constants are interchangeable (safety runs only).
Calls  == Permutations(Req)
Others == Permutations(Req \ Abandon)
=============================================================================
