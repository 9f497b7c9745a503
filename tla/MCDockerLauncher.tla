-------------------------- MODULE MCDockerLauncher --------------------------
(* Instance of DockerLauncher for TLC: two display requests, so that they can *)
(* share a startup, and two health checks, so that an answer can be late.     *)
EXTENDS DockerLauncher, TLC
CONSTANTS r1, r2
Symmetry == Permutations({r1, r2})
=============================================================================
