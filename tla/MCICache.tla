------------------------------ MODULE MCICache ------------------------------
(* Model checking of the instruction cache.                                *)
EXTENDS ICache
=============================================================================
