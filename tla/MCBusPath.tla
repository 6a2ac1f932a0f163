----------------------------- MODULE MCBusPath -----------------------------
(* Model checking of the bus path with short lines: MaxLen + 1 words. *)
EXTENDS BusPath
=============================================================================
