----------------------------- MODULE CBusToAXI -----------------------------
(***************************************************************************)
(* The cache-bus to AXI bridge of source/util/CBusToAXI.sv.  `in_issue' is *)
(* the set of AXI channels on which the current request still has to       *)
(* shake hands.  The AXI side is an input of every cycle: `axi' is the set *)
(* of channels whose ready (AR, AW, W) or valid (R, B) the slave asserts,  *)
(* `rlast' the slave's rlast wire.  BridgeClock is one rising edge with    *)
(* aresetn high.  MaxLen is the largest value of mlen_t, 2^4 - 1 in the    *)
(* source.                                                                 *)
(***************************************************************************)
EXTENDS Naturals

CONSTANT MaxLen

ASSUME MaxLenAssumption == MaxLen \in Nat \ {0}

VARIABLES in_issue, saved_req, count

bridgeVars == <<in_issue, saved_req, count>>

Channels == {"AR", "R", "AW", "W", "B"}

(* Fault: a write does not wait for its response. *)
NextIssueNoB(creq) == IF creq.is_write THEN {"AW", "W"} ELSE {"AR", "R"}

NextIssue(creq) == IF creq.is_write THEN {"AW", "W", "B"} ELSE {"AR", "R"}

IsLast == count = 0

Handshake(axi) == in_issue \intersect axi

(* Fault: the write response is not taken as the end of its channel. *)
EndedNoB(axi, rlast) ==
  {c \in Handshake(axi) \ {"B"} : (c = "R" => rlast) /\ (c = "W" => IsLast)}

Ended(axi, rlast) ==
  {c \in Handshake(axi) : (c = "R" => rlast) /\ (c = "W" => IsLast)}

Ready(axi) == "W" \in Handshake(axi) \/ "R" \in Handshake(axi)

Cresp(axi, rlast) ==
  [ready |-> Ready(axi),
   last  |-> Ready(axi) /\ ("R" \notin in_issue \/ rlast) /\ IsLast]

BridgeInit(noreq) ==
  in_issue = {} /\ saved_req = noreq /\ count = 0

(* While busy only the beat counter and the pending channels move. *)
BridgeRun(axi, rlast) ==
  /\ in_issue # {}
  /\ in_issue' = in_issue \ Ended(axi, rlast)
  /\ LET resp == Cresp(axi, rlast)
     IN  count' = IF resp.ready /\ ~resp.last
                  THEN (count + MaxLen) % (MaxLen + 1)
                  ELSE count
  /\ UNCHANGED saved_req

(* When idle the bridge samples the request wires, valid or not. *)
BridgeAccept(creq) ==
  /\ in_issue = {}
  /\ in_issue' = IF creq.valid THEN NextIssue(creq) ELSE {}
  /\ saved_req' = creq
  /\ count' = creq.len

BridgeClock(creq, axi, rlast) == BridgeRun(axi, rlast) \/ BridgeAccept(creq)

BridgeTypeOK ==
  /\ in_issue \subseteq Channels
  /\ saved_req \in [valid : BOOLEAN, is_write : BOOLEAN, addr : Nat,
                    len : 0..MaxLen, data : Nat]
  /\ count \in 0..MaxLen
=============================================================================
