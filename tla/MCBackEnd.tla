----------------------------- MODULE MCBackEnd ------------------------------
(* Model checking of the back end: a loop with every kind of instruction,  *)
(* a store behind each exception of an older one, and one in a delay slot. *)
EXTENDS BackEnd

MCProgram ==
  [p \in 0..6 |-> CASE p = 0 -> "alu"
                    [] p \in {1, 3, 6} -> "store"
                    [] p = 2 -> "load"
                    [] p = 4 -> "mul"
                    [] p = 5 -> "branch"]

MCFaults ==
  [p \in 0..6 |-> CASE p = 0 -> {"overflow", "trap", "syscall"}
                    [] p \in {2, 3, 6} -> {"misalign"}
                    [] OTHER -> {}]
=============================================================================
