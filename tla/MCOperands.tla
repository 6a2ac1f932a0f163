----------------------------- MODULE MCOperands -----------------------------
(* Model checking of the operands: an instruction of each sort.  The one   *)
(* that only reads is divu.                                                *)
EXTENDS Operands

Instr(write, reads, unit, branch) ==
  [write |-> write, reads |-> reads, unit |-> unit, branch |-> branch]

nop  == Instr("none", FALSE, "none", FALSE)
add  == Instr("alu", TRUE, "none", FALSE)
load == Instr("delay", FALSE, "none", FALSE)
movz == Instr("cond", TRUE, "none", FALSE)

mul  == Instr("alu", TRUE, "mul", FALSE)
divu == Instr("none", TRUE, "div", FALSE)
jal  == Instr("alu", FALSE, "none", TRUE)

MCDecoded == {nop, add, load, movz, mul, divu, jal}
=============================================================================
