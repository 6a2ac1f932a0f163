------------------------------ MODULE MCFetch ------------------------------
(* Model checking of the fetch stage. *)
EXTENDS Fetch
=============================================================================
