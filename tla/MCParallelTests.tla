--------------------------- MODULE MCParallelTests --------------------------
(* Model checking of the parallel test runner: every set of failing tests. *)
EXTENDS ParallelTests
=============================================================================
