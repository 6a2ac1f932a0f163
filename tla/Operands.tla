------------------------------ MODULE Operands ------------------------------
(***************************************************************************)
(* How an instruction gets its operands: the register file, the bypass     *)
(* networks of the issue and the execute stage, the values execute saves   *)
(* while it waits, and the multiplier and divider it waits for             *)
(* (bypassI.sv, bypassE.sv, regfile.sv, execute.sv, multi.sv, div.sv).     *)
(*                                                                         *)
(* One register is followed; others do not interact with it.  A value of   *)
(* it is named by its age: how many writers of the register were issued    *)
(* after the one that produced it, flushed ones and conditional moves that *)
(* fail not counted.  So the newest value has age 0, and every age grows   *)
(* when a writer is issued.  A negative age is that of a flushed writer's  *)
(* value.                                                                  *)
(***************************************************************************)
EXTENDS Integers, FiniteSets, FiniteSetsExt, Hazard

CONSTANTS
  Decoded,        \* the instructions the queue may offer
  DivDelay,       \* cycles the divider counts: 33 shifts of DIV_DELAY
  MaxWriters,     \* bound: writers of the register in the pipeline
  FlushDividing,  \* whether a redirect may meet a divide in execute
  None            \* model value

VARIABLES
  head,           \* candidate 1 of the issue queue
  dataI,          \* IXreg: in execute
  dataE, dataM1, dataM2, dataM3,  \* the writers in the later registers
  taken,          \* dataE[1].branch_taken
  regs,           \* the register in the register file
  saved,          \* bypass_rd_saved and bypass_save_rd, by slot
  mult, mult_of,  \* multiplier: state, and whether its product is that of
                  \* the instruction in execute
  count, div_of,  \* divider: its counter (0: INIT), and the same
  moved           \* history: "issued" if in the last cycle the candidate was
                  \* issued, flushed or missing, "free" if there was no wait
                  \* and an instruction without operands for a delay slot

later == <<dataE, dataM1, dataM2, dataM3>>
vars == <<head, dataI, later, taken, regs, saved, mult, mult_of, count,
          div_of, moved>>

Slots == {0, 1}                   \* 1 is the older one
Ages  == -10..10

(* write: whether it writes the register, "delay" if its result comes with *)
(* the last stage (memtoreg, lotoreg, hitoreg, cp0toreg), "cond" if execute *)
(* may find that it does not write it (MOVZ, MOVN).                        *)
Instructions ==
  [write : {"none", "alu", "cond", "delay"}, reads : BOOLEAN,
   unit : {"none", "mul", "div"}, branch : BOOLEAN]

(* An entry of IXreg: `age' is that of its result, `need' that of the value *)
(* it must read, `rd' that of the value it read.  `missed' is history: when *)
(* it was issued, the writer it was to read from was a conditional move    *)
(* that failed in that cycle, and an older writer was still on its way.    *)
Entries ==
  [write : {"none", "alu", "cond", "delay"}, reads : BOOLEAN,
   unit : {"none", "mul", "div"}, branch : BOOLEAN,
   age : 0..1, need : 0..2, rd : 0..10, missed : BOOLEAN]

(* A writer in the later registers. *)
LaterEntries == [write : {"alu", "delay"}, age : 0..9]

ASSUME DecodedAssumption == Decoded \subseteq Instructions
ASSUME BoundsAssumption ==
  DivDelay \in Nat \ {0} /\ MaxWriters \in 1..10 /\ FlushDividing \in BOOLEAN
ASSUME NoneAssumption ==
  None \notin UNION {Instructions, Entries, LaterEntries, Ages}

IsWriter(x) == x # None /\ x.write # "none"
Writers(b)  == {i \in Slots : IsWriter(b[i])}

NoBundle == [i \in Slots |-> None]

-----------------------------------------------------------------------------
(* The bypass networks see the writers in dataE, dataM1, dataM2 and dataM3 *)
(* (dataW) as eight places, youngest first.                                *)

Place(k) == later[(k + 1) \div 2][(k + 1) % 2]

Matches == {k \in 1..8 : IsWriter(Place(k))}
First   == Place(Min(Matches))

InE(k)  == k \in 1..2
InM1(k) == k \in 3..4
InM3(k) == k \in 7..8

Delayed(x) == x.write = "delay"

(* bypassI: a candidate may read the register unless the result it needs   *)
(* comes later than execute asks for it.                                   *)

Ready ==
  CASE Writers(dataI) # {} -> ~Delayed(dataI[Min(Writers(dataI))])
    [] Writers(dataI) = {} /\ Matches # {} ->
         InE(Min(Matches)) \/ InM1(Min(Matches)) => ~Delayed(First)
    [] OTHER -> TRUE

(* What it reads; from dataI nothing is bypassed yet. *)
BypassI ==
  /\ Writers(dataI) = {} /\ Matches # {}
  /\ ~Delayed(First) \/ InM3(Min(Matches))

Read == IF BypassI THEN First.age ELSE regs

(* bypassE, for an instruction in execute: a late result from dataM3, any  *)
(* other from the stages before.                                           *)

BypassE(i) ==
  /\ dataI[i] # None /\ dataI[i].reads /\ Matches # {}
  /\ Delayed(First) <=> InM3(Min(Matches))

(* The operand execute uses in this cycle. *)
Rd(i) ==
  CASE BypassE(i) -> First.age
    [] ~BypassE(i) /\ saved[i] # None -> saved[i]
    [] OTHER -> dataI[i].rd

(* The operand is that of the youngest older writer. *)
Right(i) == dataI[i].reads => Rd(i) = dataI[i].need

-----------------------------------------------------------------------------
(* The multi-cycle units; a bundle has at most one instruction for them.   *)

Uses(u) == {i \in Slots : dataI[i] # None /\ dataI[i].unit = u}

MultNext == IF mult = "INIT" /\ Uses("mul") # {} THEN "DOING" ELSE "INIT"

CountNext ==
  CASE count > 0 -> count - 1
    [] count = 0 /\ Uses("div") # {} -> DivDelay
    [] OTHER -> 0

(* Fault: execute does not wait for the multiplier. *)
EWaitDiv == Uses("div") # {} /\ CountNext > 0

EWait ==
  \/ Uses("div") # {} /\ CountNext > 0
  \/ Uses("mul") # {} /\ MultNext = "DOING"

(* hold: the instruction in execute stays there.  The multiplier loads its *)
(* products in every cycle, the divider its dividend when it starts, and   *)
(* it looks at the divisor in every cycle.                                 *)
UnitsClock(hold) ==
  /\ mult' = MultNext /\ count' = CountNext
  /\ mult_of' = (hold /\ \A i \in Uses("mul") : Right(i))
  /\ div_of' = (hold /\ (count > 0 => div_of) /\ \A i \in Uses("div") : Right(i))

-----------------------------------------------------------------------------
(* Issue.                                                                  *)

ReadyFor(c) == c # None /\ (c.reads => Ready)

(* Candidate 2 goes beside candidate 1, a delay slot always. *)
PairAllowed(c1, c2) ==
  /\ ~(c1.write # "none" /\ c2.reads) \/ c1.branch
  /\ ~(c1.unit # "none" /\ c2.unit # "none")
  /\ ~c2.branch

Issued(c2) ==
  CASE ~ReadyFor(head) \/ (head.branch /\ ~ReadyFor(c2)) -> {}
    [] ReadyFor(head) /\ ReadyFor(c2) /\ PairAllowed(head, c2) -> {0, 1}
    [] OTHER -> {1}

Weight(c) == IF IsWriter(c) THEN 1 ELSE 0

InFlight == Cardinality(Writers(dataI)) + Cardinality(Matches)

(* What the queue may show as candidate 2: within MaxWriters, no branch in *)
(* a delay slot, and no delay slot that reads its jump's link register.    *)
Candidates ==
  {None} \union
  {c \in Decoded :
     /\ IsWriter(c) => InFlight + Weight(head) < MaxWriters
     /\ head # None /\ head.branch => ~c.branch /\ ~(IsWriter(head) /\ c.reads)}

-----------------------------------------------------------------------------
(* The clock.                                                              *)

(* The conditional moves in execute, whose condition may not hold. *)
Conditional == {i \in Slots : dataI[i] # None /\ dataI[i].write = "cond"}

(* Of an entry of IXreg the later registers keep what it writes. *)
Result(x) ==
  IF IsWriter(x)
  THEN [write |-> IF Delayed(x) THEN "delay" ELSE "alu", age |-> x.age] ELSE None

(* The conditional moves `failed' write nothing; the caller makes every    *)
(* value younger by their number, but for the value of an older slot that  *)
(* is right: a failed one in a younger slot had aged it, an older had not. *)
Results(b, failed) ==
  LET Older(i) == Cardinality({j \in failed : j > i})
  IN  [i \in Slots |->
         IF i \in failed \/ ~IsWriter(b[i]) THEN None
         ELSE [Result(b[i]) EXCEPT !.age = @ + Older(i)]]

(* n writers more were issued than flushed or failed. *)
Aged(b, n) == [i \in Slots |-> IF b[i] = None THEN None ELSE [b[i] EXCEPT !.age = @ + n]]

Register(old, in, flush, en) ==
  CASE flush -> NoBundle [] ~flush /\ en -> in [] OTHER -> old

(* The youngest writer of the bundle in execute fails, and there is an     *)
(* older one: bypassI found the former, whose result bypassE was to supply. *)
Misses(failed) ==
  /\ Writers(dataI) # {} /\ Min(Writers(dataI)) \in failed
  /\ Writers(dataI) \ failed # {} \/ Matches # {}

(* The bundle loaded into IXreg, with its operands as read. *)
IssuedBundle(c2, failed) ==
  LET issued == Issued(c2)
      c      == [i \in Slots |-> IF i \notin issued THEN None
                                 ELSE IF i = 1 THEN head ELSE c2]
      n      == Cardinality(Writers(c))
      Newer(i) == Cardinality({j \in Writers(c) : j < i})
      At(i)  == [write |-> c[i].write, reads |-> c[i].reads, unit |-> c[i].unit,
                 branch |-> c[i].branch, age |-> Newer(i),
                 need |-> Newer(i) + (IF i \in Writers(c) THEN 1 ELSE 0),
                 rd |-> IF c[i].reads THEN Read + n - Cardinality(failed) ELSE 0,
                 missed |-> c[i].reads /\ Misses(failed)]
  IN  [i \in Slots |-> IF c[i] = None THEN None ELSE At(i)]

(* Fault: an empty bundle does not replace the one in dataM1. *)
PipelineClockBubble(out, new, failed, n) ==
  /\ dataI' = Register(dataI, new, "flushE" \in out, "stallE" \notin out)
  /\ dataE' = Aged(Register(dataE, Results(dataI, failed), "flushM" \in out, "stallM" \notin out), n)
  /\ dataM1' = Aged(Register(dataM1, dataE, "flushM2" \in out, "stallM2" \notin out /\ dataE # NoBundle), n)
  /\ dataM2' = Aged(Register(dataM2, dataM1, "flushM3" \in out, TRUE), n)
  /\ dataM3' = Aged(Register(dataM3, dataM2, "flushW" \in out, TRUE), n)

(* The pipeline registers; n more writers were issued than flushed or      *)
(* failed, which the ages in the new bundle include.                       *)
PipelineClock(out, new, failed, n) ==
  /\ dataI' = Register(dataI, new, "flushE" \in out, "stallE" \notin out)
  /\ dataE' = Aged(Register(dataE, Results(dataI, failed), "flushM" \in out, "stallM" \notin out), n)
  /\ dataM1' = Aged(Register(dataM1, dataE, "flushM2" \in out, "stallM2" \notin out), n)
  /\ dataM2' = Aged(Register(dataM2, dataM1, "flushM3" \in out, TRUE), n)
  /\ dataM3' = Aged(Register(dataM3, dataM2, "flushW" \in out, TRUE), n)

(* Fault: the older write of a bundle stays. *)
RegfileClockOlder(kept, n) ==
  LET w == kept \intersect Writers(dataM3)
  IN  regs' = n + (IF w = {} THEN regs ELSE dataM3[Max(w)].age)

(* Of two writes the younger one stays. *)
RegfileClock(kept, n) ==
  LET w == kept \intersect Writers(dataM3)
  IN  regs' = n + (IF w = {} THEN regs ELSE dataM3[Min(w)].age)

(* Fault: a value is saved only in the first cycle of a wait and lost in   *)
(* the next.                                                               *)
SavedClockLost(wait, n) ==
  saved' = [i \in Slots |-> IF wait /\ BypassE(i) THEN First.age + n ELSE None]

(* A bypassed value is kept while execute waits, since its writer goes on. *)
SavedClock(wait, n) ==
  saved' = [i \in Slots |->
              CASE wait /\ BypassE(i) -> First.age + n
                [] wait /\ ~BypassE(i) /\ saved[i] # None -> saved[i] + n
                [] OTHER -> None]

(* The queue shows its next instruction, within MaxWriters. *)
HeadClock ==
  head' \in {None} \union {c \in Decoded : IsWriter(c) => InFlight' < MaxWriters}

(* One cycle: d_wait of the data cache, and a redirect from the last stage *)
(* (an exception, ERET or an interrupt), where only the slots `kept' of    *)
(* dataM3 are still written; the conditional moves `failed' leave execute  *)
(* without regwrite.                                                       *)
Clock(d_wait, excpW, kept) ==
  LET in     == {c \in Conditions : \/ c = "excpW" /\ excpW
                                    \/ c = "d_wait" /\ d_wait
                                    \/ c = "branchM" /\ taken
                                    \/ c = "e_wait" /\ EWait}
      out    == Signals(in, FALSE)
      loads  == {"flushE", "stallE"} \intersect out = {}
      leaves == {"flushM", "stallM"} \intersect out = {}
      killed == CASE excpW -> InFlight - Cardinality(kept \intersect Writers(dataM3))
                  [] ~excpW /\ "flushE" \in out -> Cardinality(Writers(dataI))
                  [] OTHER -> 0
  IN  /\ excpW /\ Uses("div") # {} => FlushDividing
      /\ \E c2 \in IF loads THEN Candidates ELSE {None},
           failed \in IF leaves THEN SUBSET Conditional ELSE {{}} :
           LET new == IF loads THEN IssuedBundle(c2, failed) ELSE NoBundle
               n   == Cardinality(Writers(new)) - killed - Cardinality(failed)
           IN  /\ PipelineClock(out, new, failed, n)
               /\ RegfileClock(kept, n)
               /\ SavedClock(d_wait \/ EWait, n)
               /\ UnitsClock("stallE" \in out)
               /\ taken' \in CASE "flushM" \in out -> {FALSE}
                               [] out \intersect {"flushM", "stallM"} = {"stallM"} -> {taken}
                               [] OTHER -> {FALSE, dataI[1] # None /\ dataI[1].branch}
               /\ taken' => FlushDividing \/ Uses("div")' = {}
               /\ IF head = None \/ "flush_que" \in out \/ new[1] # None
                  THEN HeadClock /\ moved' = "issued"
                  ELSE /\ UNCHANGED head
                       /\ moved' = IF loads /\ c2 # None /\ ~c2.reads
                                   THEN "free" ELSE "stalled"

Init ==
  /\ head = None
  /\ dataI = NoBundle /\ dataE = NoBundle /\ dataM1 = NoBundle
  /\ dataM2 = NoBundle /\ dataM3 = NoBundle
  /\ taken = FALSE /\ regs = 0 /\ saved = NoBundle
  /\ mult = "INIT" /\ mult_of = FALSE /\ count = 0 /\ div_of = FALSE
  /\ moved = "issued"

Next ==
  \E d_wait \in BOOLEAN :
     \/ Clock(d_wait, FALSE, Slots)
     \/ \E kept \in {{}, {1}, {0, 1}} : Clock(d_wait, TRUE, kept)

Spec == Init /\ [][Next]_vars

(* Again and again there is a cycle without a wait in which a delay slot   *)
(* would find its operands: accesses of the data cache end (DCache), and   *)
(* so do multiplications and divisions.                                    *)
FairSpec == Spec /\ []<><<moved' # "stalled">>_vars

-----------------------------------------------------------------------------

(* Registers hold values of their types. *)
TypeOK ==
  /\ head \in Decoded \union {None}
  /\ dataI \in [Slots -> Entries \union {None}]
  /\ {dataE, dataM1, dataM2, dataM3} \subseteq [Slots -> LaterEntries \union {None}]
  /\ regs \in 0..10 /\ saved \in [Slots -> Ages \union {None}]
  /\ mult \in {"INIT", "DOING"} /\ count \in 0..DivDelay
  /\ {taken, mult_of, div_of} \subseteq BOOLEAN
  /\ moved \in {"issued", "free", "stalled"}

(* What execute read when the instruction was issued, and a conditional    *)
(* move it then waited for in vain: no result was bypassed at issue, and   *)
(* none has been since.                                                    *)
ReadBehindFailed(i) ==
  dataI[i].missed /\ ~BypassE(i) /\ saved[i] = None

(* In every cycle an instruction spends in execute, each operand it uses   *)
(* has the value of the youngest older writer: whatever the writer's kind, *)
(* the distance, redirects, and waits during which writers move on and     *)
(* leave the pipeline (bypassE.sv:34, execute.sv:52).  With exactly one    *)
(* exception: an operand read behind a conditional move that failed        *)
(* (execute.sv:366) and not bypassed since is that of a writer too old.    *)
OperandsCurrent ==
  \A i \in Slots : dataI[i] # None => (Right(i) <=> ~ReadBehindFailed(i))

(* The same without the exception, as data hazards are to be resolved by   *)
(* forwarding (bypassE.sv:57): it does not hold.                           *)
OperandsForwarded == \A i \in Slots : dataI[i] # None => Right(i)

(* The register file holds the value of the youngest instruction that left *)
(* the pipeline: the writers still in it are exactly the ones it lacks     *)
(* (regfile.sv:42, hazard.sv:50); all registers hold values of their types. *)
RegfileInOrder == TypeOK /\ regs = InFlight

(* The unit works for an instruction with operands that execute can tell. *)
Judged(u) == Uses(u) # {} /\ \A i \in Uses(u) : ~dataI[i].missed

(* When the multiplier or the divider reports that it is done, its result  *)
(* is that of the operands the instruction in execute must have            *)
(* (multi.sv:57, div.sv:27), although a product restarts if the pipeline   *)
(* is held; but for an instruction issued behind a conditional move that   *)
(* failed, whose operands may be wrong (execute.sv:366).                   *)
ResultOfOperands ==
  ~EWait => /\ Judged("mul") => mult_of
            /\ Judged("div") => div_of

(* A candidate is not blocked for ever: the results it waits for come, so  *)
(* that the pipeline cannot wait for itself (bypassI.sv:35).               *)
HeadIssues == []<>(moved = "issued")
=============================================================================
