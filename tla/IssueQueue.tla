----------------------------- MODULE IssueQueue -----------------------------
(***************************************************************************)
(* The issue stage of source/mycpu/issue/issue.sv between its two pipeline *)
(* registers: DIreg (dataD) in front of the queue and IXreg (dataI) behind *)
(* it (MyCore.sv), under the stalls and flushes of hazard.sv.              *)
(*                                                                         *)
(* The queue is two banks of Size entries, `odd' and `even', filled and    *)
(* drained alternately; the pointers count down and wrap.  A decoded       *)
(* instruction keeps what the issue rules look at: `ctl' is the set of its *)
(* control bits that are high ("exc": cp0_ctl.ctype is EXCEPTION or ERET), *)
(* `rdst' and `ra' its destination and its source registers.  `serial' is  *)
(* its position in the instruction stream since the last flush.  dataD and *)
(* dataI are the valid instructions of the two slots, oldest first: slot 1 *)
(* is the older one and slot 0 is never valid alone (MyCore.sv:211-217).   *)
(***************************************************************************)
EXTENDS Integers, Sequences, FiniteSets, Hazard

CONSTANTS
  Size,           \* entries of a bank: ISSUE_QUEUE_SIZE
  Decoded,        \* the decoded instructions fetch may deliver
  HazardInputs,   \* the sets of hazard inputs considered (overflowI excluded)
  MaxFetch        \* bound: instructions of one stream

CtlBits == {"branch", "jump", "regwrite", "multi", "cp0write", "cp0toreg",
            "lowrite", "lotoreg", "hiwrite", "hitoreg", "exc", "single_issue"}

ASSUME SizeAssumption == Size \in Nat /\ Size > 2
ASSUME MaxFetchAssumption == MaxFetch \in Nat
ASSUME DecodedAssumption ==
  \A d \in Decoded : d.ctl \subseteq CtlBits
ASSUME HazardInputsAssumption ==
  HazardInputs \subseteq SUBSET (Conditions \ {"overflowI"})

VARIABLES
  queue_odd, queue_even,   \* the banks' memories
  head_odd, head_even, tail_odd, tail_even,
  dataD, dataI,
  dataE,                   \* XM1reg, where a branch is resolved (branchM)
  nfetch,                  \* instructions fetched in this stream
  slot_next,               \* the next instruction fetched is a delay slot
  popped                   \* instructions taken out of the queue since then

ptrVars == <<head_odd, head_even, tail_odd, tail_even>>
vars == <<queue_odd, queue_even, ptrVars, dataD, dataI, dataE, nfetch,
          slot_next, popped>>

Index == 0..(Size - 1)

Instr == [serial : Nat, d : Decoded]

NoInstr == [serial |-> -1]     \* the all-zero entry, valid = 0

-----------------------------------------------------------------------------

Push(tail) == IF tail = 0 THEN Size - 1 ELSE tail - 1
Pop(head)  == IF head = 0 THEN Size - 1 ELSE head - 1

OddLarger(odd, even) == odd = even

(* Fault: only both banks together count as full. *)
OverflowBoth == Push(tail_odd) = head_odd /\ Push(tail_even) = head_even

Overflow == Push(tail_odd) = head_odd \/ Push(tail_even) = head_even

OddFirst == OddLarger(head_odd, head_even)

HeadOdd  == IF head_odd # tail_odd THEN queue_odd[head_odd] ELSE NoInstr
HeadEven == IF head_even # tail_even THEN queue_even[head_even] ELSE NoInstr

Candidate1 == IF OddFirst THEN HeadOdd ELSE HeadEven
Candidate2 == IF OddFirst THEN HeadEven ELSE HeadOdd

Valid(c) == c # NoInstr

Redirect(d) == d.ctl \intersect {"branch", "jump"} # {}

Redirecting(c) == Valid(c) /\ Redirect(c.d)

(* Fault: a branch does not wait for its delay slot. *)
IssueEn1NoSlot(r1, r2) == Valid(Candidate1) /\ r1

(* r1 and r2: the bypass network has the operands of candidate 1 and 2. *)
IssueEn1(r1, r2) ==
  /\ Valid(Candidate1)
  /\ r1
  /\ Redirecting(Candidate1) => Valid(Candidate2) /\ r2

(* Why the second candidate may not go together with the first. *)
Conflict(c1, c2) ==
  \/ /\ "regwrite" \in c1.d.ctl
     /\ c1.d.rdst \in c2.d.ra
     /\ ~Redirecting(c1)
  \/ "multi" \in c1.d.ctl \intersect c2.d.ctl
  \/ "cp0write" \in c1.d.ctl \union c2.d.ctl
  \/ Redirecting(c2)
  \/ "lowrite" \in c1.d.ctl /\ "lotoreg" \in c2.d.ctl
  \/ "hiwrite" \in c1.d.ctl /\ "hitoreg" \in c2.d.ctl
  \/ "cp0toreg" \in c1.d.ctl \intersect c2.d.ctl
  \/ "exc" \in c1.d.ctl
  \/ "single_issue" \in c1.d.ctl \union c2.d.ctl

IssueEn2(r1, r2) ==
  /\ IssueEn1(r1, r2)
  /\ Valid(Candidate2)
  /\ r2
  /\ ~Conflict(Candidate1, Candidate2)

(* The bundle offered to the execute register. *)
Issued(r1, r2) ==
  CASE IssueEn2(r1, r2) -> <<Candidate1, Candidate2>>
    [] IssueEn1(r1, r2) /\ ~IssueEn2(r1, r2) -> <<Candidate1>>
    [] OTHER -> <<>>

-----------------------------------------------------------------------------
(* The parts of a clock cycle; `s' is the set of hazard outputs.           *)

(* Fault: the older instruction always goes to the odd bank. *)
ToOddFixed == 1

(* Which instruction of dataD goes to which bank. *)
ToOdd  == IF OddLarger(tail_odd, tail_even) THEN 1 ELSE 2
ToEven == 3 - ToOdd

WriteBanks(s) ==
  LET odd_en  == "stallI" \notin s /\ ToOdd <= Len(dataD)
      even_en == "stallI" \notin s /\ ToEven <= Len(dataD)
  IN  /\ queue_odd' = IF odd_en
                      THEN [queue_odd EXCEPT ![tail_odd] = dataD[ToOdd]]
                      ELSE queue_odd
      /\ queue_even' = IF even_en
                       THEN [queue_even EXCEPT ![tail_even] = dataD[ToEven]]
                       ELSE queue_even

MoveTails(s) ==
  /\ tail_odd' = IF "flush_que" \in s THEN 0
                 ELSE IF "stallI" \notin s /\ ToOdd <= Len(dataD)
                      THEN Push(tail_odd) ELSE tail_odd
  /\ tail_even' = IF "flush_que" \in s THEN 0
                  ELSE IF "stallI" \notin s /\ ToEven <= Len(dataD)
                       THEN Push(tail_even) ELSE tail_even

(* Fault: a full queue drains while the execute register is held. *)
DrainingHeld(s) == "stallI" \notin s \/ Overflow

(* Fault: a full queue does not drain, since it stalls its own input. *)
DrainingStuck(s) == "stallI" \notin s

Draining(s) == "stallI" \notin s \/ (Overflow /\ "stallI_de" \notin s)

MoveHeads(s, en1, en2) ==
  /\ head_odd' = IF "flush_que" \in s THEN 0
                 ELSE IF Draining(s) /\ ((OddFirst /\ en1) \/ (~OddFirst /\ en2))
                      THEN Pop(head_odd) ELSE head_odd
  /\ head_even' = IF "flush_que" \in s THEN 0
                  ELSE IF Draining(s) /\ ((~OddFirst /\ en1) \/ (OddFirst /\ en2))
                       THEN Pop(head_even) ELSE head_even
  /\ popped' = IF "flush_que" \in s THEN 0
               ELSE IF ~Draining(s) THEN popped
               ELSE popped + (IF en1 THEN 1 ELSE 0) + (IF en2 THEN 1 ELSE 0)

(* DIreg: the decoder delivers the bundle ds.  Programs have no branch in  *)
(* a delay slot, which MIPS leaves unpredictable.                          *)
Legal(ds) ==
  /\ nfetch + Len(ds) <= MaxFetch
  /\ ds # <<>> /\ slot_next => ~Redirect(ds[1])
  /\ Len(ds) = 2 => ~(Redirect(ds[1]) /\ Redirect(ds[2]))

Numbered(ds) == [k \in 1..Len(ds) |-> [serial |-> nfetch + k - 1, d |-> ds[k]]]

LoadD(s, ds) ==
  /\ dataD' = IF "flushI" \in s THEN <<>>
              ELSE IF "stallI" \notin s THEN Numbered(ds) ELSE dataD
  /\ nfetch' = IF "flushI" \in s THEN 0
               ELSE IF "stallI" \notin s THEN nfetch + Len(ds) ELSE nfetch
  /\ slot_next' = IF "flushI" \in s THEN FALSE
                  ELSE IF "stallI" \notin s /\ ds # <<>>
                       THEN Redirect(ds[Len(ds)]) ELSE slot_next

(* IXreg and XM1reg. *)
LoadIE(s, bundle) ==
  /\ dataI' = IF "flushE" \in s THEN <<>>
              ELSE IF "stallE" \notin s THEN bundle ELSE dataI
  /\ dataE' = IF "flushM" \in s THEN <<>>
              ELSE IF "stallM" \notin s THEN dataI ELSE dataE

-----------------------------------------------------------------------------

Init ==
  /\ queue_odd = [k \in Index |-> NoInstr]
  /\ queue_even = [k \in Index |-> NoInstr]
  /\ head_odd = 0 /\ head_even = 0 /\ tail_odd = 0 /\ tail_even = 0
  /\ dataD = <<>> /\ dataI = <<>> /\ dataE = <<>>
  /\ nfetch = 0 /\ slot_next = FALSE /\ popped = 0

Bundles ==
  {<<>>} \union {<<d>> : d \in Decoded}
         \union {<<d, e>> : d \in Decoded, e \in Decoded}

(* The hazard outputs when hz are the conditions raised elsewhere. *)
Control(hz) == Chain(hz \union (IF Overflow THEN {"overflowI"} ELSE {}))

(* One clock cycle: r1 and r2 are the readiness of the operands, ds the    *)
(* bundle leaving the decoder.                                             *)
Tick(hz, r1, r2, ds) ==
  LET s == Control(hz)
  IN  /\ "branchM" \in hz => dataE # <<>> /\ Redirecting(dataE[1])
      /\ Legal(ds)
      /\ WriteBanks(s)
      /\ MoveTails(s)
      /\ MoveHeads(s, IssueEn1(r1, r2), IssueEn2(r1, r2))
      /\ LoadD(s, ds)
      /\ LoadIE(s, Issued(r1, r2))

Next ==
  \E hz \in HazardInputs, r1, r2 \in BOOLEAN, ds \in Bundles :
    Tick(hz, r1, r2, ds)

Spec == Init /\ [][Next]_vars

(* The waits end and operands arrive: again and again there is a cycle     *)
(* without a stall in which both candidates have their operands.           *)
FairSpec ==
  Spec /\ WF_vars(\E ds \in Bundles : Tick({}, TRUE, TRUE, ds))

-----------------------------------------------------------------------------
(* Occupancy of a bank, from its pointers. *)
Occupied(head, tail) ==
  IF head >= tail THEN head - tail ELSE head - tail + Size

Pushed == nfetch - Len(dataD)

(* Registers and banks hold values of their types. *)
TypeOK ==
  /\ queue_odd \in [Index -> Instr \union {NoInstr}]
  /\ queue_even \in [Index -> Instr \union {NoInstr}]
  /\ head_odd \in Index /\ head_even \in Index
  /\ tail_odd \in Index /\ tail_even \in Index
  /\ dataD \in Seq(Instr) /\ Len(dataD) <= 2
  /\ dataI \in Seq(Instr) /\ Len(dataI) <= 2
  /\ dataE \in Seq(Instr) /\ Len(dataE) <= 2
  /\ nfetch \in Nat /\ slot_next \in BOOLEAN /\ popped \in Nat

(* No instruction is overwritten or lost (issue.sv:120): the entries that  *)
(* the wrapped pointers delimit are exactly the instructions pushed and    *)
(* not yet popped, so a bank never fills up to the point where it would    *)
(* look empty.                                                             *)
CountsAgree ==
  Occupied(head_odd, tail_odd) + Occupied(head_even, tail_even)
    = Pushed - popped

(* The candidates are the two oldest instructions in the queue, in program *)
(* order, whichever bank they sit in (issue.sv:81-101).                    *)
CandidatesInOrder ==
  /\ Valid(Candidate1) <=> popped < Pushed
  /\ Valid(Candidate2) <=> popped + 1 < Pushed
  /\ Valid(Candidate1) => Candidate1.serial = popped
  /\ Valid(Candidate2) => Candidate2.serial = popped + 1

(* A branch or jump leaves the queue without its delay slot only when the  *)
(* slot is there and one that the pairing rules refuse, never because the  *)
(* slot has not been fetched yet (issue.sv:103-104).                       *)
BranchWithSlot ==
  dataI # <<>> /\ Redirecting(dataI[1]) =>
    IF Len(dataI) = 2
    THEN dataI[2].serial = dataI[1].serial + 1
    ELSE /\ Valid(Candidate1)
         /\ Candidate1.serial = dataI[1].serial + 1
         /\ Conflict(dataI[1], Candidate1)

(* A full queue stops fetch (hazard.sv:88-89) but never for good: it can   *)
(* drain while it stalls its own input.                                    *)
OverflowDrains == Overflow ~> ~Overflow

(* The stage issues in program order, each instruction exactly once,       *)
(* through every combination of stalls, overflow and flushes.              *)
Abs == INSTANCE InOrderIssue
         WITH fetched <- Pushed, issued <- popped,
              ex <- [k \in 1..Len(dataI) |-> dataI[k].serial]

IssuesInOrder == Abs!ASpec
=============================================================================
