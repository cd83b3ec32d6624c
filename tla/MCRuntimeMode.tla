--------------------------- MODULE MCRuntimeMode ---------------------------
(* Model checking of RuntimeMode: the processes are interchangeable.           *)
EXTENDS RuntimeMode, TLC

ProcSymmetry == Permutations(Procs)
============================================================================
