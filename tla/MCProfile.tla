------------------------------ MODULE MCProfile ------------------------------
(* Instance of ProfileSeed for TLC: three processes with a runtime each, so   *)
(* that two can reclaim the lock the third left when it was killed.           *)
EXTENDS ProfileSeed, TLC

CONSTANTS r1, r2, r3, p1, p2, p3
ProcessTable == (r1 :> p1) @@ (r2 :> p2) @@ (r3 :> p3)
=============================================================================
