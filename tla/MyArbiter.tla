----------------------------- MODULE MyArbiter -----------------------------
(***************************************************************************)
(* The cache-bus arbiter of source/mycpu/MyArbiter.sv, with the default    *)
(* NUM_INPUTS = 2 that cache_manage.sv uses: input 0 is the data cache,    *)
(* input 1 the instruction cache.  The two registers are the variables;    *)
(* the always_comb blocks are operators over the requests `ireqs' (a       *)
(* function from inputs to cache-bus requests) and the response `oresp'.   *)
(* ArbClock is one rising edge with resetn high.                           *)
(***************************************************************************)
EXTENDS Naturals

VARIABLES
  astate,   \* FSM register `state'
  index     \* register `index': the input being served

arbVars == <<astate, index>>

Inputs == {0, 1}

(* An all-zero cbus_req_t and cbus_resp_t ('0 in the source). *)
NoReq  == [valid |-> FALSE, is_write |-> FALSE, addr |-> 0, len |-> 0, data |-> 0]
NoResp == [ready |-> FALSE, last |-> FALSE]

(* The first input with a valid request, input 0 when there is none. *)
Select(ireqs) == IF ireqs[0].valid \/ ~ireqs[1].valid THEN 0 ELSE 1

(* The input whose wires are connected to the output in this cycle. *)
Granted(ireqs) == IF astate = "JUDGE" THEN Select(ireqs) ELSE index

Oreq(ireqs) == IF astate = "IDLE" THEN NoReq ELSE ireqs[Granted(ireqs)]

Iresp(ireqs, oresp, i) ==
  IF astate # "IDLE" /\ Granted(ireqs) = i THEN oresp ELSE NoResp

ArbInit == astate = "IDLE" /\ index = 0

(* Fault: index is only loaded in IDLE. *)
ArbChooseKeepsIndex(ireqs) ==
  /\ astate \in {"IDLE", "JUDGE"}
  /\ astate' = IF ireqs[Select(ireqs)].valid THEN "BUSY" ELSE "IDLE"
  /\ index' = IF astate = "IDLE" THEN Select(ireqs) ELSE index

ArbChoose(ireqs) ==
  /\ astate \in {"IDLE", "JUDGE"}
  /\ astate' = IF ireqs[Select(ireqs)].valid THEN "BUSY" ELSE "IDLE"
  /\ index' = Select(ireqs)

(* Fault: the grant is not given back after the last beat. *)
ArbServeKeepsGrant(oresp) ==
  astate = "BUSY" /\ UNCHANGED <<astate, index>>

ArbServe(oresp) ==
  /\ astate = "BUSY"
  /\ astate' = IF oresp.last THEN "JUDGE" ELSE "BUSY"
  /\ UNCHANGED index

ArbClock(ireqs, oresp) == ArbChoose(ireqs) \/ ArbServe(oresp)

ArbTypeOK == astate \in {"IDLE", "BUSY", "JUDGE"} /\ index \in Inputs
=============================================================================
