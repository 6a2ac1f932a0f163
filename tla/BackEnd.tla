------------------------------ MODULE BackEnd -------------------------------
(***************************************************************************)
(* The stages behind the issue queue and the exceptions and interrupts of  *)
(* CP0 (execute.sv, memory.sv, writeback.sv, cp0.sv, MyCore.sv), one step  *)
(* per clock cycle, under the stalls and flushes of Hazard.                *)
(*                                                                         *)
(* A bundle has an older instruction in slot 1 and a younger one in slot   *)
(* 0.  The program is a loop, pc p being followed by Succ(p), and each     *)
(* execution of an instruction may raise an exception of its kind.  Data   *)
(* are left out: an instruction writes its register in the last stage,     *)
(* and a load or store is sent to the data cache from dataE.  Interrupts   *)
(* are enabled (Status.IE, IM).  Left out are TLB exceptions, the other    *)
(* CP0 registers and their instructions, and WAIT.                         *)
(***************************************************************************)
EXTENDS Integers, FiniteSets, Hazard

CONSTANTS
  Program,        \* [0..n -> Kinds]: the interrupted program
  Faults,         \* [0..n -> SUBSET EType]: the exceptions its executions
                  \* may raise; syscall stands for what the decoder raises
  None            \* model value

VARIABLES
  next, front,    \* front end: the next pc it issues, and whether it can
  dataI, dataE, dataM1, dataM2, dataM3,     \* the pipeline registers
  dbusy,          \* the data cache (external) works on what it accepted
  ext_int,        \* an interrupt line
  int_saved, int_pc_save, int_pc_saved, int_slot,
  epc, bd, exl,   \* CP0
  arch,           \* history: the pc that must be completed next
  resume,         \* history: `arch' when EPC was set last, and
  entered,        \* by what
  sent,           \* history: stores sent but not completed, by pc
  delivered       \* history: the last cycle was one without waits in which
                  \* the front end did its part, or no interrupt is latched

pipeline == <<dataI, dataE, dataM1, dataM2, dataM3>>
vars == <<next, front, pipeline, dbusy, ext_int, int_saved, int_pc_save,
          int_pc_saved, int_slot, epc, bd, exl, arch, resume, entered, sent,
          delivered>>

Kinds   == {"alu", "mul", "load", "store", "branch"}
EType   == {"overflow", "trap", "syscall", "misalign"}
Slots   == {0, 1}
User    == DOMAIN Program
Handler == Cardinality(User)      \* the entrance: one instruction and ERET
Pcs     == 0..(Handler + 1)

ASSUME ProgramAssumption ==
  /\ Handler \in Nat \ {0}
  /\ Program \in [0..(Handler - 1) -> Kinds] /\ Program[Handler - 1] # "branch"
  /\ \A p \in User : Program[p] = "branch" => Program[p + 1] # "branch"
ASSUME FaultsAssumption ==
  /\ Faults \in [User -> SUBSET EType]
  /\ \A p \in User : "misalign" \in Faults[p] => Program[p] \in {"load", "store"}
  /\ \A p \in User : Program[p] = "store" => Faults[p] \subseteq {"misalign"}
ASSUME NoneAssumption == None \notin EType \union {"INT", "EXC"}

Kind(p) ==
  CASE p \in User -> Program[p]
    [] p = Handler -> "alu"
    [] OTHER -> "eret"

(* What follows ERET is on a wrong path. *)
Succ(p) == IF p \in {Handler - 1, Handler + 1} THEN 0 ELSE p + 1

Instructions ==
  [valid : BOOLEAN, pc : Pcs, mem : {"none", "load", "store"},
   regwrite : BOOLEAN, ctype : {"NO_EXC", "EXCEPTION", "ERET"},
   etype : EType \union {None}, is_slot : BOOLEAN, branch_taken : BOOLEAN]

Empty ==
  [valid |-> FALSE, pc |-> 0, mem |-> "none", regwrite |-> FALSE,
   ctype |-> "NO_EXC", etype |-> None, is_slot |-> FALSE,
   branch_taken |-> FALSE]

Bundle(older, younger) == [i \in Slots |-> IF i = 1 THEN older ELSE younger]
NoBundle == Bundle(Empty, Empty)

-----------------------------------------------------------------------------
(* The front end, as the issue queue presents it.                          *)

(* The exceptions an execution may meet; the handler meets none. *)
Raises(p) == {None} \union (IF p \in User THEN Faults[p] ELSE {})

Decoded(p, f, mispredicted) ==
  [Empty EXCEPT
     !.valid = TRUE, !.pc = p,
     !.mem = IF Kind(p) \in {"load", "store"} THEN Kind(p) ELSE "none",
     !.regwrite = Kind(p) \in {"alu", "mul", "load"},
     !.ctype = CASE f = "syscall" -> "EXCEPTION"
                 [] Kind(p) = "eret" -> "ERET"
                 [] OTHER -> "NO_EXC",
     !.etype = f, !.branch_taken = mispredicted]

Alone(p) ==
  {[bundle |-> Bundle(Decoded(p, f, FALSE), Empty), next |-> Succ(p)] :
     f \in Raises(p)}

(* Behind a mispredicted branch the wrong pc follows. *)
Pair(p, f, g, mispredicted) ==
  [bundle |-> Bundle(Decoded(p, f, mispredicted),
                     [Decoded(Succ(p), g, FALSE) EXCEPT
                        !.is_slot = Kind(p) = "branch"]),
   next |-> IF mispredicted THEN Succ(Succ(Succ(p))) ELSE Succ(Succ(p))]

Mispredicts(p) == IF Kind(p) = "branch" THEN BOOLEAN ELSE {FALSE}

Pairs(p) ==
  {Pair(p, f, g, m) : f \in Raises(p) \ {"syscall"}, g \in Raises(Succ(p)),
                      m \in Mispredicts(p)}

(* A branch comes with its delay slot; an exception or ERET only alone or  *)
(* as the younger one.                                                     *)
Issues(p) ==
  {[bundle |-> NoBundle, next |-> p]} \union
  (IF Kind(p) = "branch" THEN {} ELSE Alone(p)) \union
  (IF Kind(p) = "eret" \/ Kind(Succ(p)) = "branch" THEN {} ELSE Pairs(p))

-----------------------------------------------------------------------------
(* Execute: exceptions are found, and the younger instruction's access to  *)
(* memory is dropped for those of the older one.                           *)

Misaligned(b, i) == b[i].etype = "misalign"

(* Fault: an overflow of the older instruction does not stop a store. *)
YoungerMemOverflow(b) ==
  CASE Misaligned(b, 1) \/ Misaligned(b, 0) -> "none"
    [] b[1].ctype = "EXCEPTION" /\ b[0].mem = "store" -> "none"
    [] OTHER -> b[0].mem

YoungerMem(b) ==
  CASE Misaligned(b, 1) \/ Misaligned(b, 0) -> "none"
    [] /\ b[1].ctype = "EXCEPTION" \/ b[1].etype = "overflow"
       /\ b[0].mem = "store" -> "none"
    [] OTHER -> b[0].mem

(* The younger exception is not reported beside one of the same kind. *)
Found(b, i) ==
  \/ b[i].etype \in {"overflow", "trap"} /\ (i = 0 => b[1].etype # b[0].etype)
  \/ Misaligned(b, i) /\ (i = 0 => ~Misaligned(b, 1) \/ b[1].mem # b[0].mem)

ExecuteType(b, i) == IF Found(b, i) THEN "EXCEPTION" ELSE b[i].ctype

Execute(b) ==
  Bundle([b[1] EXCEPT !.mem = IF Misaligned(b, 1) THEN "none" ELSE @,
                      !.ctype = ExecuteType(b, 1)],
         [b[0] EXCEPT !.mem = YoungerMem(b),
                      !.valid = @ /\ b[1].etype # "overflow",
                      !.ctype = ExecuteType(b, 0)])

-----------------------------------------------------------------------------
(* Memory: the accesses of dataE are sent in a cycle without d_wait; an    *)
(* exception found so far stops the younger one's writes.                  *)

(* Fault: the younger one's access is forgotten beside another. *)
DreqsOlder == {i \in Slots : dataE[i].mem # "none" /\ (i = 0 => dataE[1].mem = "none")}

Dreqs == {i \in Slots : dataE[i].mem # "none"}

ExcpM == \E i \in Slots : dataE[i].ctype # "NO_EXC"

(* Fault: only exceptions of the younger instruction itself are regarded. *)
MemoryNoClear(b) == b

Memory(b) ==
  Bundle(b[1], [b[0] EXCEPT !.regwrite = @ /\ b[1].ctype = "NO_EXC"])

-----------------------------------------------------------------------------
(* The last stage and CP0.                                                 *)

(* dataW.valid *)
Writes(i) ==
  dataM3[i].ctype = "NO_EXC" /\ dataM3[i].regwrite /\ dataM3[i].valid

(* Fault: the older instruction's exception does not come first. *)
ValidNYounger == IF dataM3[0].ctype # "NO_EXC" THEN 0 ELSE 1

ValidN == IF dataM3[1].ctype # "NO_EXC" THEN 1 ELSE 0

IsEXC  == dataM3[ValidN].ctype = "EXCEPTION"
IsEret == \E i \in Slots : dataM3[i].ctype = "ERET"

Interrupt          == ext_int /\ ~exl
IsInt              == Interrupt \/ int_saved
InterValid(i_wait) == ~i_wait /\ int_pc_saved
IntEntry(i_wait)   == IsInt /\ InterValid(i_wait)
ExcpW(i_wait)      == IsEret \/ IsEXC \/ IntEntry(i_wait)

(* Fault: only a bundle of two instructions gives a pc to come back to. *)
IntPcClockPairs ==
  CASE dataM3[0].valid /\ IsInt ->
         /\ int_pc_save' = dataM3[0].pc /\ int_pc_saved' = TRUE
         /\ int_slot' = dataM3[0].is_slot
    [] ~IsInt -> int_pc_save' = 0 /\ int_pc_saved' = FALSE /\ int_slot' = FALSE
    [] OTHER -> UNCHANGED <<int_pc_save, int_pc_saved, int_slot>>

(* Fault: the delay slot is not told apart. *)
IntPcClockNoSlot ==
  CASE (dataM3[0].valid \/ dataM3[1].valid) /\ IsInt ->
         /\ int_pc_save' = dataM3[IF dataM3[0].valid THEN 0 ELSE 1].pc
         /\ int_pc_saved' = TRUE /\ int_slot' = FALSE
    [] ~IsInt -> int_pc_save' = 0 /\ int_pc_saved' = FALSE /\ int_slot' = FALSE
    [] OTHER -> UNCHANGED <<int_pc_save, int_pc_saved, int_slot>>

(* Fault: it is taken two stages early. *)
IntPcClockEarly ==
  CASE (dataM1[0].valid \/ dataM1[1].valid) /\ IsInt ->
         LET youngest == dataM1[IF dataM1[0].valid THEN 0 ELSE 1]
         IN  /\ int_pc_save' = youngest.pc /\ int_pc_saved' = TRUE
             /\ int_slot' = (dataM1[0].valid /\ youngest.is_slot)
    [] ~IsInt -> int_pc_save' = 0 /\ int_pc_saved' = FALSE /\ int_slot' = FALSE
    [] OTHER -> UNCHANGED <<int_pc_save, int_pc_saved, int_slot>>

(* While an interrupt waits, the youngest instruction to pass the last     *)
(* stage is the one to come back to.                                       *)
IntPcClock ==
  CASE (dataM3[0].valid \/ dataM3[1].valid) /\ IsInt ->
         LET youngest == dataM3[IF dataM3[0].valid THEN 0 ELSE 1]
         IN  /\ int_pc_save' = youngest.pc /\ int_pc_saved' = TRUE
             /\ int_slot' = (dataM3[0].valid /\ youngest.is_slot)
    [] ~IsInt -> int_pc_save' = 0 /\ int_pc_saved' = FALSE /\ int_slot' = FALSE
    [] OTHER -> UNCHANGED <<int_pc_save, int_pc_saved, int_slot>>

IntSavedClock(i_wait) ==
  int_saved' = CASE InterValid(i_wait) -> FALSE
                 [] ~InterValid(i_wait) /\ Interrupt -> TRUE
                 [] OTHER -> int_saved

(* An interrupt comes before an exception of the same cycle, ERET last.    *)
Cp0Clock(i_wait) ==
  LET slot == IF IntEntry(i_wait) THEN int_slot ELSE dataM3[ValidN].is_slot
      pc   == IF IntEntry(i_wait) THEN int_pc_save ELSE dataM3[ValidN].pc
  IN  /\ IF (IntEntry(i_wait) \/ IsEXC) /\ ~exl
         THEN epc' = (IF slot THEN pc - 1 ELSE pc) /\ bd' = slot
         ELSE UNCHANGED <<epc, bd>>
      /\ exl' = (~IsEret /\ (exl \/ IsEXC \/ IntEntry(i_wait)))

-----------------------------------------------------------------------------
(* The clock.                                                              *)

(* A register is emptied, loaded or kept. *)
Register(old, in, flush, en) ==
  CASE flush -> NoBundle [] ~flush /\ en -> in [] OTHER -> old

PipelineClock(out, issued) ==
  /\ dataI' = Register(dataI, issued.bundle, "flushE" \in out, "stallE" \notin out)
  /\ dataE' = Register(dataE, Execute(dataI), "flushM" \in out, "stallM" \notin out)
  /\ dataM1' = Register(dataM1, Memory(dataE), "flushM2" \in out, "stallM2" \notin out)
  /\ dataM2' = Register(dataM2, dataM1, "flushM3" \in out, TRUE)
  /\ dataM3' = Register(dataM3, dataM2, "flushW" \in out, TRUE)

(* pcselect.  After a redirect fetch must have been answered once (i_wait  *)
(* low) before an instruction comes; behind an exception in dataE nothing  *)
(* comes before it has reached the last stage, which is fewer stages away. *)
FrontClock(out, in, issued) ==
  LET branch == "excpW" \notin in /\ "flushE" \in out /\ dataE[1].branch_taken
  IN  /\ next' = CASE IsEret -> epc
                   [] ~IsEret /\ "excpW" \in in -> Handler
                   [] branch -> Succ(Succ(dataE[1].pc))
                   [] {"flushE", "stallE"} \intersect out = {} -> issued.next
                   [] OTHER -> next
      /\ front' = CASE "excpW" \in in -> "fetch"
                    [] "excpW" \notin in /\ "flushE" \in out /\ ExcpM -> "shut"
                    [] branch /\ ~ExcpM -> "fetch"
                    [] "flushE" \notin out /\ front = "fetch" /\ "i_wait" \notin in ->
                         "open"
                    [] OTHER -> front

(* Completion in program order: what the last stage holds, up to the first *)
(* exception.                                                              *)
Completes(i) ==
  /\ dataM3[i].valid /\ dataM3[i].ctype = "NO_EXC"
  /\ i = 0 => dataM3[1].ctype = "NO_EXC"

Completed == {i \in Slots : Completes(i)}

Passed == CASE Completed = {} -> arch
            [] Completed = {1} -> Succ(arch)
            [] OTHER -> Succ(Succ(arch))

HistoryClock(i_wait, d_wait) ==
  /\ arch' = CASE IsEret -> epc
               [] ~IsEret /\ ExcpW(i_wait) -> Handler
               [] OTHER -> Passed
  /\ IF (IntEntry(i_wait) \/ IsEXC) /\ ~exl
     THEN resume' = Passed /\ entered' = IF IntEntry(i_wait) THEN "INT" ELSE "EXC"
     ELSE /\ resume' = IF IsEret THEN 0 ELSE resume
          /\ entered' = IF IsEret THEN None ELSE entered
  /\ sent' = IF ExcpW(i_wait) THEN {}
             ELSE (sent \ {dataM3[i].pc : i \in Completed}) \union
                  {dataE[i].pc : i \in {j \in Dreqs : ~d_wait /\ dataE[j].mem = "store"}}

Conds(i_wait, d_wait, e_wait) ==
  {c \in Conditions :
     \/ c = "excpW" /\ ExcpW(i_wait)
     \/ c = "excpM" /\ ExcpM
     \/ c = "branchM" /\ dataE[1].branch_taken
     \/ c = "i_wait" /\ i_wait
     \/ c = "d_wait" /\ d_wait
     \/ c = "e_wait" /\ e_wait}

(* What the queue offers, looked at only if dataI is loaded. *)
Offered(out) ==
  IF front = "open" /\ {"flushE", "stallE"} \intersect out = {} THEN Issues(next)
  ELSE {[bundle |-> NoBundle, next |-> next]}

(* d_wait while the data cache works on an access, e_wait while a          *)
(* multiplication is in dataI.                                             *)
Clock(i_wait, d_wait, e_wait) ==
  LET in  == Conds(i_wait, d_wait, e_wait)
      out == Signals(in, FALSE)
  IN  /\ d_wait => dbusy
      /\ e_wait => \E i \in Slots : dataI[i].valid /\ Kind(dataI[i].pc) = "mul"
      /\ IntPcClock /\ IntSavedClock(i_wait) /\ Cp0Clock(i_wait)
      /\ HistoryClock(i_wait, d_wait)
      /\ dbusy' = (d_wait \/ Dreqs # {})
      /\ \E issued \in Offered(out) :
            PipelineClock(out, issued) /\ FrontClock(out, in, issued)
      /\ delivered' =
            (int_saved' => /\ ~i_wait /\ ~d_wait /\ ~e_wait
                           /\ front = "open" /\ front' = "open" => next' # next)
      /\ ext_int' \in BOOLEAN

Init ==
  /\ next = 0 /\ front = "fetch"
  /\ dataI = NoBundle /\ dataE = NoBundle /\ dataM1 = NoBundle
  /\ dataM2 = NoBundle /\ dataM3 = NoBundle
  /\ dbusy = FALSE /\ ext_int = FALSE
  /\ int_saved = FALSE /\ int_pc_save = 0 /\ int_pc_saved = FALSE /\ int_slot = FALSE
  /\ epc = 0 /\ bd = FALSE /\ exl = FALSE
  /\ arch = 0 /\ resume = 0 /\ entered = None /\ sent = {}
  /\ delivered = TRUE

Next == \E i_wait, d_wait, e_wait \in BOOLEAN : Clock(i_wait, d_wait, e_wait)

Spec == Init /\ [][Next]_vars

(* Again and again there is a cycle without a wait in which the front end  *)
(* delivers a bundle if it is not redirected: accesses of both caches end  *)
(* (ICache, DCache), multiplications end, and fetch goes on (Fetch).  Such *)
(* a cycle is possible in every state.                                     *)
FairSpec == Spec /\ []<><<delivered'>>_vars

-----------------------------------------------------------------------------

(* Registers hold values of their types. *)
TypeOK ==
  /\ next \in Pcs /\ front \in {"open", "fetch", "shut"}
  /\ {dataI, dataE, dataM1, dataM2, dataM3} \subseteq [Slots -> Instructions]
  /\ dbusy \in BOOLEAN /\ ext_int \in BOOLEAN
  /\ int_saved \in BOOLEAN /\ int_pc_save \in Pcs
  /\ int_pc_saved \in BOOLEAN /\ int_slot \in BOOLEAN
  /\ epc \in Pcs /\ bd \in BOOLEAN /\ exl \in BOOLEAN
  /\ arch \in Pcs /\ resume \in Pcs /\ entered \in {None, "INT", "EXC"}
  /\ sent \subseteq Pcs /\ delivered \in BOOLEAN

(* Only the instruction that is next in the program writes its register:   *)
(* nothing on a wrong path, behind an exception (also of its own bundle),  *)
(* flushed by an interrupt or out of order does (memory.sv:88,             *)
(* writeback.sv:40), in the program and in the handler; all registers hold *)
(* values of their types.                                                  *)
WritesInOrder ==
  /\ TypeOK
  /\ Writes(1) => dataM3[1].pc = arch
  /\ Writes(0) => dataM3[0].pc = Succ(arch) /\ Completes(1)

(* After an exception EPC, with BD, names the instruction that raised it:  *)
(* all before it are complete and it is the next one (cp0.sv:257-265),     *)
(* even if an interrupt that was latched before is entered on top of it.   *)
ReturnsToFault ==
  exl /\ entered = "EXC" => resume = IF bd THEN epc + 1 ELSE epc

(* An interrupt skips no instruction: EPC is not behind the one that must  *)
(* be completed next, and at most two bundles before it (MyCore.sv:716).   *)
InterruptSkipsNothing ==
  exl /\ entered = "INT" /\ resume \in User =>
    (resume + Handler - epc) % Handler <= 4

(* EPC never names a delay slot: returning to it would lose the branch. *)
ResumesAtBranch ==
  exl /\ epc \in User \ {0} => Program[epc - 1] # "branch"

(* When an exception or ERET is in the last stage, no store of it or of    *)
(* what is behind it has been sent to the data cache (execute.sv:345-363,  *)
(* hazard.sv:64); and one that completes has been sent.  A trap is left    *)
(* out: execute.sv does not look at it there, so a store in its bundle is  *)
(* sent.                                                                   *)
StoresPrecise ==
  /\ (IsEXC \/ IsEret) /\ dataM3[1].etype # "trap" =>
       sent \subseteq {dataM3[i].pc : i \in Completed}
  /\ \A i \in Completed : Kind(dataM3[i].pc) = "store" => dataM3[i].pc \in sent

(* An interrupt that was noticed is entered, although its line may drop    *)
(* and exceptions and waits may come first (cp0.sv:88).                    *)
LatchedIsEntered == int_saved ~> ~int_saved

(* EPC names the instruction at which the program goes on, that is, the    *)
(* first one not yet executed, also after an interrupt.                    *)
InterruptResumes ==
  exl /\ entered = "INT" => resume = IF bd THEN epc + 1 ELSE epc
=============================================================================
