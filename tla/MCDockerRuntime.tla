-------------------------- MODULE MCDockerRuntime --------------------------
(* The small instances of DockerRuntime.                                   *)
EXTENDS DockerRuntime, TLC

Symmetry == Permutations(Sandboxes)
=============================================================================
