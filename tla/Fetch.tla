------------------------------- MODULE Fetch -------------------------------
(***************************************************************************)
(* The fetch stage of source/mycpu/MyCore.sv (lines 101-330): the pc       *)
(* register dataP, pcselect, the registers that keep a redirect while a    *)
(* fetch is in progress, F1F2reg (dataF1) and the saved instruction words, *)
(* under the stalls and flushes of hazard.sv with its register fihazrd.    *)
(*                                                                         *)
(* A pc counts words modulo NumPC; a bundle is the words at pc and pc + 1. *)
(* An instruction word is named by the pc of the bundle it was read with.  *)
(* The instruction cache is external: in any cycle it accepts the address  *)
(* or not, and the words are on its output one cycle after it did.  The    *)
(* rest of the pipeline is external too; of it remain dataE, when it holds *)
(* an instruction that redirects fetch, and the conditions `in' it raises; *)
(* how many cycles an instruction takes to get there is left open.         *)
(***************************************************************************)
EXTENDS Naturals, Hazard

CONSTANTS
  NumPC,         \* number of word addresses
  Faulting,      \* the pcs whose fetch raises an exception: ireq not valid
  CacheOps,      \* whether the program uses I-cache instructions
  Interrupted,   \* whether excpW may come while one is being carried out
  None, Garbage  \* model values: nothing; the output of an idle RAM

PC == 0..(NumPC - 1)

ASSUME PCAssumption == NumPC \in Nat \ {0} /\ Faulting \subseteq PC
ASSUME FlagsAssumption == CacheOps \in BOOLEAN /\ Interrupted \in BOOLEAN
ASSUME NoneAssumption ==
  None \notin PC \union {Garbage} \union [pc : PC, type : {"PCM", "PCW"}]
               \union [op : {"branch", "cache_i"}, pc : {0}, target : PC]

VARIABLES
  dataP,         \* [pc, cache_i]
  save,          \* pc_save, forward_pctype_save and pc_saved, None if unset
  icache_saved,
  icache_pcnxt,  \* icache_pcnxt_save, None if unset
  dataF1,        \* [valid, nxt_valid, pc]
  iresp,         \* the words the instruction cache puts out
  raw_instr,     \* raw_instrf2_save, None if unset
  fihazrd,
  dataE,         \* None, or the redirecting instruction in XM1reg
  m1_icache,     \* M1M2reg holds an I-cache instruction
  fed,           \* instructions left fetch since the last flush
  live,          \* instructions have passed XM1reg that may raise excpW
  path,          \* history: where the instruction stream goes on, None
                 \* between an exception in M and its redirect in W
  due            \* history: path when dataF1 was loaded

vars == <<dataP, save, icache_saved, icache_pcnxt, dataF1, iresp, raw_instr,
          fihazrd, dataE, m1_icache, fed, live, path, due>>

Plus(pc, n) == (pc + n) % NumPC

NoFetch == [valid |-> FALSE, nxt_valid |-> FALSE, pc |-> 0]

(* The redirecting instructions: `target' is the branch target or the      *)
(* address of the cache instruction.                                       *)
Redirecting ==
  [op : {"branch"} \union (IF CacheOps THEN {"cache_i"} ELSE {}),
   pc : {0}, target : PC]

(* What the predictor says of the bundle at dataP.pc: nothing, a jump in   *)
(* its second word, or a jump to a pc.                                     *)
Predictions == [zero_prej : BOOLEAN, pre_pc : {None}]
                 \union [zero_prej : {FALSE}, pre_pc : PC]

IsCacheOp(e) == e # None /\ e.op = "cache_i"

-----------------------------------------------------------------------------
(* pcselect: the redirect of this cycle, if any, and the pc selected.      *)

Rank(type) == CASE type = "NO_FORWARD" -> 0 [] type = "PCM" -> 2 [] type = "PCW" -> 3

ForwardType(in) ==
  CASE "excpW" \in in -> "PCW"
    [] "excpW" \notin in /\ dataE # None -> "PCM"
    [] OTHER -> "NO_FORWARD"

(* Where the predictor sends fetch after the bundle at dataP.pc; a jump    *)
(* predicted for the second word makes it a bundle of its own.             *)
Predicted(pre) ==
  CASE pre.zero_prej -> Plus(dataP.pc, 1)
    [] ~pre.zero_prej /\ pre.pre_pc # None -> pre.pre_pc
    [] OTHER -> Plus(dataP.pc, 2)

PcSelected(in, entrance, pre) ==
  CASE ForwardType(in) = "PCW" -> entrance
    [] ForwardType(in) = "PCM" -> dataE.target
    [] OTHER -> Predicted(pre)

(* Fault: a redirect that met a fetch in progress is forgotten. *)
DataPNextNoSave(in, entrance, pre) ==
  [pc |-> PcSelected(in, entrance, pre), cache_i |-> IsCacheOp(dataE)]

(* dataP_nxt *)
DataPNext(in, entrance, pre) ==
  IF save # None /\ Rank(ForwardType(in)) < Rank(save.type)
  THEN [pc |-> save.pc, cache_i |-> icache_saved]
  ELSE [pc |-> IF icache_pcnxt # None /\ save = None THEN icache_pcnxt
               ELSE PcSelected(in, entrance, pre),
        cache_i |-> IsCacheOp(dataE)]

-----------------------------------------------------------------------------
(* The parts of a clock cycle; `s' is the set of hazard outputs.           *)

SaveClock(s, in, entrance, pre) ==
  IF "stallF" \in s /\ ForwardType(in) # "NO_FORWARD"
  THEN /\ save' = [pc |-> PcSelected(in, entrance, pre), type |-> ForwardType(in)]
       /\ icache_saved' = (icache_saved \/ IsCacheOp(dataE))
  ELSE /\ save' = IF "stallF" \in s THEN save ELSE None
       /\ icache_saved' = ("stallF" \in s /\ icache_saved)

PcnxtClock(s) ==
  icache_pcnxt' =
    CASE IsCacheOp(dataE) -> Plus(dataE.pc, 1)
      [] ~IsCacheOp(dataE) /\ "stallF" \notin s /\ ~icache_saved -> None
      [] OTHER -> icache_pcnxt

DataPClock(s, in, entrance, pre) ==
  dataP' = IF "stallF" \in s THEN dataP ELSE DataPNext(in, entrance, pre)

FetchValid(i_wait) == ~m1_icache /\ ~i_wait /\ ~icache_saved /\ ~dataP.cache_i

F1Loads(s) == {"stallF2", "flushF2"} \intersect s = {}

DataF1Clock(s, i_wait, pre) ==
  dataF1' =
    CASE "flushF2" \in s -> NoFetch
      [] "flushF2" \notin s /\ "stallF2" \in s -> dataF1
      [] F1Loads(s) ->
           [valid |-> FetchValid(i_wait),
            nxt_valid |-> FetchValid(i_wait) /\ ~pre.zero_prej,
            pc |-> dataP.pc]

(* Fault: the words are taken from the cache when the stall is over. *)
RawClockNoSave(s) == raw_instr' = None

(* The words the cache puts out are kept during a stall. *)
RawClock(s) ==
  raw_instr' = CASE "stallF2" \notin s -> None
                 [] "stallF2" \in s /\ raw_instr = None -> iresp
                 [] OTHER -> raw_instr

(* The words dataF2_nxt takes on with dataF1.pc. *)
RawInstr == IF raw_instr # None THEN raw_instr ELSE iresp

(* A bundle leaves for the decoder (F2Dreg). *)
Delivers(s) == dataF1.valid /\ {"stallD", "flushD"} \intersect s = {}

-----------------------------------------------------------------------------
(* The rest of the pipeline (external).                                    *)

(* XM1reg and M1M2reg. *)
BackClock(s, e) ==
  /\ e # None => fed /\ path # None
  /\ dataE' = CASE "flushM" \in s -> None
                [] "flushM" \notin s /\ "stallM" \in s -> dataE
                [] OTHER -> e
  /\ m1_icache' = CASE "flushM2" \in s -> FALSE
                    [] "flushM2" \notin s /\ "stallM2" \in s -> m1_icache
                    [] OTHER -> IsCacheOp(dataE)
  /\ fed' = ("flush_que" \notin s /\ (fed \/ Delivers(s)))
  /\ live' = ("flushW" \notin s /\ (live \/ (fed /\ "stallM2" \notin s)))

(* What it may raise.  An exception needs an instruction in the pipeline;  *)
(* while an I-cache instruction is carried out only an interrupt can come, *)
(* in a cycle in which fetch does not wait (inter_valid).                  *)
MayRaise(in) ==
  /\ "excpW" \in in =>
       /\ live
       /\ IsCacheOp(dataE) \/ icache_pcnxt # None =>
            Interrupted /\ "i_wait" \notin in
  /\ "excpM" \in in => fed /\ path # None

(* The instruction stream: after a redirect it goes on at its target (for  *)
(* a cache instruction, behind it), after a bundle where the predictor     *)
(* says or behind the bundle's last valid word.                            *)
PathClock(s, in, entrance, pre) ==
  /\ path' =
       CASE "excpW" \in in -> entrance
         [] "excpW" \notin in /\ Redirects(in) /\ "excpM" \in in -> None
         [] "excpW" \notin in /\ Redirects(in) /\ "excpM" \notin in ->
              IF path = None THEN None
              ELSE IF IsCacheOp(dataE) THEN Plus(dataE.pc, 1) ELSE dataE.target
         [] OTHER ->
              CASE path = None \/ ~dataF1'.valid \/ ~F1Loads(s) -> path
                [] OTHER -> IF pre.pre_pc # None THEN pre.pre_pc
                            ELSE Plus(dataP.pc, IF dataF1'.nxt_valid THEN 2 ELSE 1)
  /\ due' = IF F1Loads(s) THEN path ELSE due

-----------------------------------------------------------------------------

Init ==
  /\ dataP = [pc |-> 0, cache_i |-> FALSE]
  /\ save = None /\ icache_saved = FALSE /\ icache_pcnxt = None
  /\ dataF1 = NoFetch /\ iresp = Garbage /\ raw_instr = None
  /\ fihazrd = FALSE
  /\ dataE = None /\ m1_icache = FALSE /\ fed = FALSE /\ live = FALSE
  /\ path = 0 /\ due = 0

(* What the back end raises.  hazard.sv tries the conditions in order of   *)
(* priority, so one at a time is enough.                                   *)
Raised == {{}, {"excpW"}, {"d_wait"}, {"excpM"}, {"e_wait"}, {"overflowI"}}

(* One clock cycle: ext is raised by the back end, ok says that the cache  *)
(* accepts the address, entrance is where an exception leads, pre what the *)
(* predictor says, e what moves into XM1reg.                               *)
Clock(ext, ok, entrance, pre, e) ==
  LET reads  == dataP.pc \notin Faulting
      i_wait == reads /\ ~ok
      in == ext \union (IF i_wait THEN {"i_wait"} ELSE {})
                \union (IF dataE # None THEN {"branchM"} ELSE {})
      s == Signals(in, fihazrd)
  IN  /\ MayRaise(in)
      /\ BackClock(s, e)
      /\ SaveClock(s, in, entrance, pre) /\ PcnxtClock(s)
      /\ DataPClock(s, in, entrance, pre)
      /\ DataF1Clock(s, i_wait, pre)
      /\ RawClock(s)
      /\ iresp' = IF reads /\ ok THEN dataP.pc ELSE Garbage
      /\ fihazrd' = FihazrdNext(in, fihazrd)
      /\ PathClock(s, in, entrance, pre)

Next ==
  \E ext \in Raised, ok \in BOOLEAN, pre \in Predictions :
    \E entrance \in IF "excpW" \in ext THEN PC ELSE {0},
       e \in IF fed THEN Redirecting \union {None} ELSE {None} :
      Clock(ext, ok, entrance, pre, e)

Spec == Init /\ [][Next]_vars

(* The waits end: again and again there is a cycle in which nothing stalls *)
(* the fetch stage and the cache accepts its address.                      *)
FairSpec ==
  Spec /\ WF_vars(\E pre \in Predictions, e \in {dataE, None} :
                    Clock({}, TRUE, 0, pre, e))

-----------------------------------------------------------------------------

(* Registers hold values of their types. *)
TypeOK ==
  /\ dataP \in [pc : PC, cache_i : BOOLEAN]
  /\ save \in [pc : PC, type : {"PCM", "PCW"}] \union {None}
  /\ icache_saved \in BOOLEAN /\ icache_pcnxt \in PC \union {None}
  /\ dataF1 \in [valid : BOOLEAN, nxt_valid : BOOLEAN, pc : PC]
  /\ iresp \in PC \union {Garbage}
  /\ raw_instr \in PC \union {Garbage, None}
  /\ fihazrd \in BOOLEAN
  /\ dataE \in Redirecting \union {None} /\ m1_icache \in BOOLEAN
  /\ fed \in BOOLEAN /\ live \in BOOLEAN
  /\ path \in PC \union {None} /\ due \in PC \union {None}

(* Only the instruction stream is fetched: every bundle that leaves the    *)
(* fetch stage is the next one of the stream, so a fetch overtaken by a    *)
(* redirect is thrown away however long the cache takes (hazard.sv:58-61,  *)
(* 94-97), the redirect is not lost meanwhile (MyCore.sv:128-147) and the  *)
(* older of two redirects wins.                                            *)
OnPath == dataF1.valid /\ due # None => dataF1.pc = due

(* The words that go to the decoder with a pc are the words at that pc,    *)
(* through stalls of any length (MyCore.sv:269-310), and all registers     *)
(* hold values of their types.                                             *)
InstrOfPc ==
  /\ TypeOK
  /\ dataF1.valid /\ dataF1.pc \notin Faulting => RawInstr = dataF1.pc

(* Fetch never locks up: however redirects, cache waits and stalls meet,   *)
(* another bundle is fetched.                                              *)
FetchGoesOn == []<>(dataF1.valid)
=============================================================================
