---------------------------- MODULE MCIssueQueue ----------------------------
(* Model checking of the issue stage.  Banks of Size entries; of the       *)
(* decoded instructions one that depends on every other of its sort, and   *)
(* one that issues only with its delay slot.                               *)
EXTENDS IssueQueue

alu   == [ctl |-> {"regwrite"}, rdst |-> 1, ra |-> {1}]
jump  == [ctl |-> {"jump"}, rdst |-> 0, ra |-> {}]

MCDecoded == {alu, jump}

MCHazardInputs ==
  {{}, {"excpW"}, {"d_wait", "branchM"}, {"branchM"}, {"e_wait"}}
=============================================================================
