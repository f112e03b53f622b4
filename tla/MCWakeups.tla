----------------------------- MODULE MCWakeups ------------------------------
(* Small instances of Wakeups for TLC; no symmetry, the runs check liveness. *)
EXTENDS Wakeups

CONSTANTS r1, r2
=============================================================================
