---------------------------- MODULE Fetch_proofs ----------------------------
(***************************************************************************)
(* Proofs about the fetch stage, for any number of addresses, any set of   *)
(* faulting ones, and stalls and cache waits of any length.                *)
(***************************************************************************)
EXTENDS Fetch, TLAPS

-----------------------------------------------------------------------------
(* The inductive invariants.                                               *)

(* A cache instruction is on its way: it is still in XM1reg, or its        *)
(* address is saved, or it is in the pc register; once it has left XM1reg  *)
(* the front of the pipeline is empty.                                     *)
CacheOpUnderWay ==
  /\ icache_saved \/ m1_icache \/ dataP.cache_i => icache_pcnxt # None
  /\ icache_pcnxt # None =>
       /\ CacheOps
       /\ icache_saved <=> save # None
       /\ save = None => dataE = None /\ dataP.cache_i
       /\ ~IsCacheOp(dataE) => dataE = None /\ ~fed /\ ~dataF1.valid

(* A redirect is saved: it is still in XM1reg too, or the fetch it met is  *)
(* marked as wrong and the front of the pipeline is empty.                 *)
RedirectSaved ==
  /\ save # None => IF dataE = None THEN fihazrd ELSE save.type = "PCM"
  /\ fihazrd => dataE = None /\ ~fed /\ ~dataF1.valid
  /\ fihazrd /\ save = None => path = None

(* Where fetch goes on when the registers of the front end are followed. *)
Heading ==
  CASE icache_pcnxt # None -> icache_pcnxt
    [] icache_pcnxt = None /\ save # None -> save.pc
    [] OTHER -> dataP.pc

HeadsForPath == path # None /\ dataE = None => path = Heading

PathInv == TypeOK /\ CacheOpUnderWay /\ RedirectSaved /\ HeadsForPath /\ OnPath

-----------------------------------------------------------------------------
(* What the hazard unit raises, by the kind of cycle.                      *)

(* An exception in W empties the pipeline. *)
LEMMA SignalsOfExcpW ==
  ASSUME NEW in \in SUBSET Conditions, NEW fi \in BOOLEAN, "excpW" \in in
  PROVE  LET s == Signals(in, fi) IN
         /\ {"flushF2", "flushD", "flush_que", "flushM", "flushM2", "flushW"}
              \subseteq s
         /\ "stallF" \in s <=> "i_wait" \in in
         /\ "stallF2" \notin s
         /\ FihazrdNext(in, fi) <=> "i_wait" \in in
  BY DEF Signals, Chain, FrontFlush, HoldFetch, FihazrdNext, Redirects

(* A data access that waits stops every stage but the last. *)
LEMMA SignalsOfDWait ==
  ASSUME NEW in \in SUBSET Conditions, NEW fi \in BOOLEAN,
         "excpW" \notin in, "d_wait" \in in
  PROVE  LET s == Signals(in, fi) IN
         /\ {"stallF", "stallF2", "stallD", "stallM", "stallM2"} \subseteq s
         /\ {"flushF2", "flushD", "flush_que", "flushM", "flushM2", "flushW"}
              \intersect s = {}
         /\ FihazrdNext(in, fi) <=> fi
  BY DEF Signals, Chain, FrontFlush, HoldFetch, FihazrdNext, Redirects

(* A redirect from M empties everything in front of it. *)
LEMMA SignalsOfRedirect ==
  ASSUME NEW in \in SUBSET Conditions, NEW fi \in BOOLEAN,
         "excpW" \notin in, Redirects(in)
  PROVE  LET s == Signals(in, fi) IN
         /\ {"flushF2", "flushD", "flush_que", "flushM"} \subseteq s
         /\ {"flushM2", "flushW", "stallM2", "stallF2"} \intersect s = {}
         /\ "stallF" \in s <=> "i_wait" \in in
         /\ FihazrdNext(in, fi) <=> "i_wait" \in in
  BY DEF Signals, Chain, FrontFlush, HoldFetch, FihazrdNext, Redirects

(* An operation that waits, or a full issue queue, stops the front end. *)
LEMMA SignalsOfStall ==
  ASSUME NEW in \in SUBSET Conditions, NEW fi \in BOOLEAN,
         "excpW" \notin in, "d_wait" \notin in, ~Redirects(in),
         in \intersect {"e_wait", "overflowI"} # {}
  PROVE  LET s == Signals(in, fi) IN
         /\ {"stallF", "stallF2", "stallD"} \subseteq s
         /\ {"flushF2", "flushD", "flush_que", "flushM2", "flushW", "stallM",
             "stallM2"} \intersect s = {}
         /\ FihazrdNext(in, fi) <=> fi
  BY DEF Signals, Chain, FrontFlush, HoldFetch, FihazrdNext, Redirects

(* A fetch that waits, and nothing else, sends on an empty bundle. *)
LEMMA SignalsOfIWait ==
  ASSUME NEW in \in SUBSET Conditions, NEW fi \in BOOLEAN, in = {"i_wait"}
  PROVE  LET s == Signals(in, fi) IN
         /\ {"stallF", "flushF2"} \subseteq s
         /\ {"stallF2", "stallD", "flushD", "flush_que", "flushM", "flushM2",
             "flushW", "stallM", "stallM2"} \intersect s = {}
         /\ FihazrdNext(in, fi) <=> fi
  BY DEF Signals, Chain, FrontFlush, HoldFetch, FihazrdNext, Redirects

(* Nothing is raised: the pipeline moves, and a wrong fetch is dropped. *)
LEMMA SignalsOfMove ==
  ASSUME NEW in \in SUBSET Conditions, NEW fi \in BOOLEAN, in = {}
  PROVE  LET s == Signals(in, fi) IN
         /\ "flushF2" \in s <=> fi
         /\ {"stallF", "stallF2", "stallD", "flushD", "flush_que", "flushM",
             "flushM2", "flushW", "stallM", "stallM2"} \intersect s = {}
         /\ ~FihazrdNext(in, fi)
  BY DEF Signals, Chain, FrontFlush, HoldFetch, FihazrdNext, Redirects

-----------------------------------------------------------------------------
(* The operators of the fetch stage.                                       *)

LEMMA CacheOpsOnly == TypeOK /\ IsCacheOp(dataE) => CacheOps
  BY FlagsAssumption DEF TypeOK, IsCacheOp, Redirecting

LEMMA PlusType ==
  ASSUME NEW pc \in PC, NEW n \in {1, 2}
  PROVE  Plus(pc, n) \in PC
  BY PCAssumption DEF Plus, PC

LEMMA RedirectingType ==
  /\ \A e \in Redirecting : e # None /\ e.pc \in PC /\ e.target \in PC
  /\ Redirecting \subseteq [op : {"branch", "cache_i"}, pc : {0}, target : PC]
  BY PCAssumption, NoneAssumption DEF Redirecting, PC

(* pcselect puts out a pc, and one of the two redirects has its cause. *)
LEMMA SelectedType ==
  ASSUME TypeOK, NEW in, NEW entrance \in PC, NEW pre \in Predictions
  PROVE  /\ PcSelected(in, entrance, pre) \in PC
         /\ Predicted(pre) \in PC
         /\ DataPNext(in, entrance, pre) \in [pc : PC, cache_i : BOOLEAN]
         /\ ForwardType(in) \in {"PCW", "PCM", "NO_FORWARD"}
<1>1. Predicted(pre) \in PC
  <2>1. dataP.pc \in PC
    BY DEF TypeOK
  <2>2. pre.pre_pc \in PC \union {None} /\ pre.zero_prej \in BOOLEAN
    BY DEF Predictions
  <2>3. QED
    BY <2>1, <2>2, PlusType DEF Predicted
<1>2. ForwardType(in) \in {"PCW", "PCM", "NO_FORWARD"}
  BY DEF ForwardType
<1>3. PcSelected(in, entrance, pre) \in PC
  BY <1>1, RedirectingType DEF PcSelected, ForwardType, TypeOK
<1>4. DataPNext(in, entrance, pre) \in [pc : PC, cache_i : BOOLEAN]
  BY <1>3 DEF DataPNext, TypeOK, IsCacheOp
<1>5. QED
  BY <1>1, <1>2, <1>3, <1>4

LEMMA RankOrder ==
  /\ Rank("NO_FORWARD") = 0 /\ Rank("PCM") = 2 /\ Rank("PCW") = 3
  BY DEF Rank

(* The conditions of a cycle. *)
IWait(ok) == dataP.pc \notin Faulting /\ ~ok

InOf(ext, ok) == ext \union (IF IWait(ok) THEN {"i_wait"} ELSE {})
                     \union (IF dataE # None THEN {"branchM"} ELSE {})

(* A cycle, with its local definitions expanded. *)
LEMMA ClockParts ==
  ASSUME NEW ext \in Raised, NEW ok \in BOOLEAN, NEW pre, NEW entrance, NEW e,
         Clock(ext, ok, entrance, pre, e)
  PROVE  LET in == InOf(ext, ok)
             s  == Signals(in, fihazrd)
         IN  /\ in \in SUBSET Conditions
             /\ MayRaise(in)
             /\ BackClock(s, e)
             /\ SaveClock(s, in, entrance, pre) /\ PcnxtClock(s)
             /\ DataPClock(s, in, entrance, pre)
             /\ DataF1Clock(s, IWait(ok), pre)
             /\ RawClock(s)
             /\ iresp' = IF dataP.pc \notin Faulting /\ ok THEN dataP.pc
                                                           ELSE Garbage
             /\ fihazrd' = FihazrdNext(in, fihazrd)
             /\ PathClock(s, in, entrance, pre)
  BY DEF Clock, InOf, IWait, Raised, Conditions

(* Every register keeps its type. *)
LEMMA TypeStep ==
  ASSUME TypeOK, NEW ext \in Raised, NEW ok \in BOOLEAN,
         NEW pre \in Predictions, NEW entrance \in PC,
         NEW e \in Redirecting \union {None},
         Clock(ext, ok, entrance, pre, e)
  PROVE  TypeOK'
<1> DEFINE in == InOf(ext, ok)
           s  == Signals(in, fihazrd)
<1> HIDE DEF in, s
<1>0. /\ BackClock(s, e) /\ SaveClock(s, in, entrance, pre) /\ PcnxtClock(s)
      /\ DataPClock(s, in, entrance, pre) /\ DataF1Clock(s, IWait(ok), pre)
      /\ PathClock(s, in, entrance, pre)
  BY ClockParts DEF in, s
<1>1. dataP' \in [pc : PC, cache_i : BOOLEAN]
  BY <1>0, SelectedType DEF DataPClock, TypeOK
<1>2. /\ save' \in [pc : PC, type : {"PCM", "PCW"}] \union {None}
      /\ icache_saved' \in BOOLEAN
  <2>1. /\ PcSelected(in, entrance, pre) \in PC
        /\ ForwardType(in) \in {"PCW", "PCM", "NO_FORWARD"}
    BY SelectedType
  <2>2. icache_saved' \in BOOLEAN
    BY <1>0 DEF SaveClock, TypeOK, IsCacheOp
  <2>3. CASE "stallF" \in s /\ ForwardType(in) # "NO_FORWARD"
    <3>1. save' = [pc |-> PcSelected(in, entrance, pre), type |-> ForwardType(in)]
      BY <1>0, <2>3 DEF SaveClock
    <3>2. QED
      BY <2>1, <2>2, <2>3, <3>1
  <2>4. CASE ~("stallF" \in s /\ ForwardType(in) # "NO_FORWARD")
    BY <1>0, <2>2, <2>4 DEF SaveClock, TypeOK
  <2>5. QED
    BY <2>3, <2>4
<1>3. icache_pcnxt' \in PC \union {None}
  BY <1>0, PlusType, RedirectingType DEF PcnxtClock, TypeOK, IsCacheOp
<1>4. dataF1' \in [valid : BOOLEAN, nxt_valid : BOOLEAN, pc : PC]
  BY <1>0, PCAssumption
     DEF DataF1Clock, TypeOK, NoFetch, FetchValid, F1Loads, PC, IWait
<1>5. iresp' \in PC \union {Garbage} /\ raw_instr' \in PC \union {Garbage, None}
  BY ClockParts DEF RawClock, TypeOK
<1>6. fihazrd' \in BOOLEAN
  BY ClockParts DEF FihazrdNext, TypeOK, Redirects
<1>7. /\ dataE' \in Redirecting \union {None} /\ m1_icache' \in BOOLEAN
      /\ fed' \in BOOLEAN /\ live' \in BOOLEAN
  BY <1>0 DEF BackClock, TypeOK, IsCacheOp, Delivers
<1>8. path' \in PC \union {None} /\ due' \in PC \union {None}
  <2>1. pre.pre_pc \in PC \union {None}
    BY DEF Predictions
  <2>2. Plus(dataP.pc, IF dataF1'.nxt_valid THEN 2 ELSE 1) \in PC
    BY PlusType DEF TypeOK
  <2>3. dataE # None => dataE.target \in PC /\ Plus(dataE.pc, 1) \in PC
    BY PlusType, RedirectingType DEF TypeOK
  <2>4. Redirects(in) /\ "excpW" \notin in /\ "excpM" \notin in => dataE # None
    BY DEF Redirects, InOf, Raised, in
  <2>5. QED
    BY <1>0, <2>1, <2>2, <2>3, <2>4 DEF PathClock, TypeOK
<1>9. QED
  BY <1>1, <1>2, <1>3, <1>4, <1>5, <1>6, <1>7, <1>8 DEF TypeOK

-----------------------------------------------------------------------------
(* The theorems.                                                           *)

(* A step of the specification is a clock cycle with inputs of their types. *)
LEMMA NextIsClock ==
  ASSUME Next
  PROVE  \E ext \in Raised, ok \in BOOLEAN, pre \in Predictions,
            entrance \in PC, e \in Redirecting \union {None} :
           (fed \/ e = None) /\ Clock(ext, ok, entrance, pre, e)
<1>1. 0 \in PC
  BY PCAssumption DEF PC
<1>2. QED
  BY <1>1 DEF Next

LEMMA InitType == Init => TypeOK
<1>1. 0 \in PC
  BY PCAssumption DEF PC
<1> SUFFICES ASSUME Init PROVE TypeOK
  OBVIOUS
<1>2. dataP \in [pc : PC, cache_i : BOOLEAN]
  BY <1>1 DEF Init
<1>3. dataF1 \in [valid : BOOLEAN, nxt_valid : BOOLEAN, pc : PC]
  BY <1>1 DEF Init, NoFetch
<1>4. QED
  BY <1>1, <1>2, <1>3 DEF Init, TypeOK

(* The words that go to the decoder with a pc are the words at that pc,    *)
(* and every register holds a value of its type: whatever the cache, the   *)
(* predictor and the back end do, for any number of addresses.             *)
THEOREM InstructionOfItsPc == Spec => []InstrOfPc
<1>1. Init => InstrOfPc
  BY InitType DEF Init, InstrOfPc, NoFetch
<1>2. InstrOfPc /\ [Next]_vars => InstrOfPc'
  <2> SUFFICES ASSUME InstrOfPc, [Next]_vars
               PROVE  InstrOfPc'
    OBVIOUS
  <2>1. ASSUME NEW ext \in Raised, NEW ok \in BOOLEAN, NEW pre \in Predictions,
               NEW entrance \in PC, NEW e \in Redirecting \union {None},
               Clock(ext, ok, entrance, pre, e)
        PROVE  InstrOfPc'
    <3> DEFINE s == Signals(InOf(ext, ok), fihazrd)
    <3> HIDE DEF s
    <3>1. /\ DataF1Clock(s, IWait(ok), pre) /\ RawClock(s)
          /\ iresp' = IF dataP.pc \notin Faulting /\ ok THEN dataP.pc ELSE Garbage
      BY <2>1, ClockParts DEF s
    <3>2. TypeOK'
      BY <2>1, TypeStep DEF InstrOfPc
    <3>3. CASE "flushF2" \in s
      BY <3>1, <3>2, <3>3 DEF InstrOfPc, DataF1Clock, F1Loads, NoFetch
    <3>4. CASE "flushF2" \notin s /\ "stallF2" \in s
      <4>1. dataF1' = dataF1
        BY <3>1, <3>4 DEF DataF1Clock, F1Loads
      <4>2. RawInstr' = RawInstr
        BY <3>1, <3>4, NoneAssumption DEF RawClock, RawInstr, InstrOfPc, TypeOK
      <4>3. QED
        BY <3>2, <4>1, <4>2 DEF InstrOfPc
    <3>5. CASE F1Loads(s)
      <4>1. /\ dataF1'.valid => ~IWait(ok)
            /\ dataF1'.pc = dataP.pc
        BY <3>1, <3>5 DEF DataF1Clock, F1Loads, FetchValid
      <4>2. RawInstr' = iresp'
        BY <3>1, <3>5 DEF RawClock, RawInstr, F1Loads
      <4>3. QED
        BY <3>1, <3>2, <4>1, <4>2 DEF InstrOfPc, IWait
    <3>6. QED
      BY <3>3, <3>4, <3>5 DEF F1Loads
  <2>2. CASE UNCHANGED vars
    BY <2>2 DEF vars, InstrOfPc, TypeOK, RawInstr
  <2>3. QED
    BY <2>1, <2>2, NextIsClock
<1>3. QED
  BY <1>1, <1>2, PTL DEF Spec

-----------------------------------------------------------------------------
(* The instruction stream.                                                 *)

PathParts == CacheOpUnderWay /\ RedirectSaved /\ HeadsForPath /\ OnPath

LEMMA PathStep ==
  ASSUME ~(CacheOps /\ Interrupted), PathInv,
         NEW ext \in Raised, NEW ok \in BOOLEAN,
         NEW pre \in Predictions, NEW entrance \in PC,
         NEW e \in Redirecting \union {None}, fed \/ e = None,
         Clock(ext, ok, entrance, pre, e)
  PROVE  PathParts'
<1> DEFINE in == InOf(ext, ok)
           s  == Signals(in, fihazrd)
<1> HIDE DEF in, s
<1>0. /\ in \in SUBSET Conditions
      /\ MayRaise(in)
      /\ BackClock(s, e) /\ SaveClock(s, in, entrance, pre) /\ PcnxtClock(s)
      /\ DataPClock(s, in, entrance, pre) /\ DataF1Clock(s, IWait(ok), pre)
      /\ PathClock(s, in, entrance, pre)
      /\ fihazrd' = FihazrdNext(in, fihazrd)
  BY ClockParts DEF in, s
<1>1. /\ "branchM" \in in <=> dataE # None
      /\ "i_wait" \in in <=> IWait(ok)
      /\ in \in SUBSET Conditions
      /\ TypeOK /\ TypeOK'
  BY ClockParts, TypeStep DEF in, InOf, IWait, Raised, PathInv
<1>2. CASE "excpW" \in in
  <2>1. /\ dataE' = None /\ ~fed' /\ ~m1_icache' /\ ~dataF1'.valid
        /\ path' = entrance
        /\ "stallF" \in s <=> "i_wait" \in in
        /\ fihazrd' <=> "i_wait" \in in
    BY <1>0, <1>1, <1>2, SignalsOfExcpW
       DEF s, BackClock, DataF1Clock, NoFetch, F1Loads, PathClock, TypeOK
  <2>2. icache_pcnxt = None /\ ~IsCacheOp(dataE) /\ ~icache_saved /\ ~dataP.cache_i
    BY <1>0, <1>1, <1>2, CacheOpsOnly DEF MayRaise, PathInv, CacheOpUnderWay
  <2>3. icache_pcnxt' = None
    BY <1>0, <2>2 DEF PcnxtClock
  <2>4. CASE "i_wait" \in in
    <3>1. /\ save' = [pc |-> entrance, type |-> "PCW"]
          /\ ~icache_saved' /\ dataP' = dataP
      BY <1>0, <1>2, <2>1, <2>2, <2>4
         DEF SaveClock, DataPClock, ForwardType, PcSelected
    <3>2. save' # None
      BY <3>1, NoneAssumption
    <3>3. QED
      BY <2>1, <2>2, <2>3, <2>4, <3>1, <3>2 DEF PathInv, PathParts, CacheOpUnderWay, RedirectSaved,
          HeadsForPath, Heading, OnPath, IsCacheOp
  <2>5. CASE "i_wait" \notin in
    <3>1. save' = None /\ ~icache_saved'
      BY <1>0, <2>1, <2>5 DEF SaveClock
    <3>2. dataP' = [pc |-> entrance, cache_i |-> FALSE]
      <4>1. ForwardType(in) = "PCW" /\ PcSelected(in, entrance, pre) = entrance
        BY <1>2 DEF ForwardType, PcSelected
      <4>2. ~(save # None /\ Rank(ForwardType(in)) < Rank(save.type))
        BY <1>1, <4>1, RankOrder DEF TypeOK
      <4>3. IsCacheOp(dataE) = FALSE
        BY <2>2 DEF IsCacheOp
      <4>4. QED
        BY <1>0, <2>1, <2>2, <2>5, <4>1, <4>2, <4>3 DEF DataPClock, DataPNext
    <3>3. QED
      BY <2>1, <2>2, <2>3, <2>5, <3>1, <3>2 DEF PathInv, PathParts, CacheOpUnderWay, RedirectSaved,
          HeadsForPath, Heading, OnPath, IsCacheOp
  <2>6. QED
    BY <2>4, <2>5
<1>3. CASE "excpW" \notin in /\ "d_wait" \in in
  <2>1. /\ dataE' = dataE /\ m1_icache' = m1_icache /\ dataF1' = dataF1
        /\ dataP' = dataP /\ path' = path /\ due' = due
        /\ fed' <=> fed
        /\ fihazrd' <=> fihazrd
        /\ "stallF" \in s
    BY <1>0, <1>1, <1>3, SignalsOfDWait
       DEF s, BackClock, DataF1Clock, F1Loads, PathClock, TypeOK, DataPClock,
           Delivers, Redirects
  <2>2. CASE dataE = None
    <3>1. save' = save /\ icache_saved' = icache_saved /\ icache_pcnxt' = icache_pcnxt
      BY <1>0, <1>1, <1>3, <2>1, <2>2
         DEF SaveClock, PcnxtClock, ForwardType, IsCacheOp, TypeOK
    <3>2. QED
      BY <2>1, <2>2, <3>1 DEF PathInv, PathParts, CacheOpUnderWay, RedirectSaved,
          HeadsForPath, Heading, OnPath, IsCacheOp
  <2>3. CASE dataE # None
    <3>1. /\ save' = [pc |-> dataE.target, type |-> "PCM"]
          /\ icache_saved' <=> icache_saved \/ IsCacheOp(dataE)
          /\ icache_pcnxt' = IF IsCacheOp(dataE) THEN Plus(dataE.pc, 1)
                                                 ELSE icache_pcnxt
      BY <1>0, <1>3, <2>1, <2>3
         DEF SaveClock, PcnxtClock, ForwardType, PcSelected
    <3>2. save' # None /\ Plus(dataE.pc, 1) # None
      BY <1>1, <2>3, <3>1, RedirectingType, PlusType, NoneAssumption DEF TypeOK
    <3>3. QED
      BY <1>1, <2>1, <2>3, <3>1, <3>2, CacheOpsOnly DEF PathInv, PathParts, CacheOpUnderWay, RedirectSaved,
          HeadsForPath, Heading, OnPath, IsCacheOp
  <2>4. QED
    BY <2>2, <2>3
<1>4. CASE "excpW" \notin in /\ Redirects(in)
  <2>1. /\ dataE' = None /\ ~fed' /\ ~dataF1'.valid
        /\ m1_icache' = IsCacheOp(dataE)
        /\ "stallF" \in s <=> "i_wait" \in in
        /\ fihazrd' <=> "i_wait" \in in
        /\ due' = due
    BY <1>0, <1>1, <1>4, SignalsOfRedirect
       DEF s, BackClock, DataF1Clock, NoFetch, F1Loads, PathClock, TypeOK
  <2>2. CASE dataE = None
    <3>1. path' = None /\ ~m1_icache' /\ ForwardType(in) = "NO_FORWARD"
      BY <1>0, <1>1, <1>4, <2>1, <2>2
         DEF PathClock, Redirects, IsCacheOp, ForwardType
    <3>2. CASE "i_wait" \in in
      <4>1. /\ save' = save /\ icache_saved' = icache_saved
            /\ icache_pcnxt' = icache_pcnxt /\ dataP' = dataP
        BY <1>0, <1>1, <2>1, <2>2, <3>1, <3>2
           DEF SaveClock, PcnxtClock, DataPClock, IsCacheOp, TypeOK
      <4>2. QED
        BY <2>1, <2>2, <3>1, <3>2, <4>1 DEF PathInv, PathParts, CacheOpUnderWay, RedirectSaved,
          HeadsForPath, Heading, OnPath, IsCacheOp
    <3>3. CASE "i_wait" \notin in
      <4>1. /\ save' = None /\ ~icache_saved'
            /\ icache_pcnxt' = IF icache_saved THEN icache_pcnxt ELSE None
            /\ dataP'.cache_i <=> save # None /\ icache_saved
        BY <1>0, <1>1, <2>1, <2>2, <3>1, <3>3
           DEF SaveClock, PcnxtClock, DataPClock, DataPNext, IsCacheOp, Rank, TypeOK
      <4>2. QED
        BY <2>1, <2>2, <3>1, <3>3, <4>1 DEF PathInv, PathParts, CacheOpUnderWay, RedirectSaved,
          HeadsForPath, Heading, OnPath, IsCacheOp
    <3>4. QED
      BY <3>2, <3>3
  <2>3. CASE dataE # None
    <3>1. /\ ForwardType(in) = "PCM"
          /\ PcSelected(in, entrance, pre) = dataE.target
          /\ path' # None => path' = IF IsCacheOp(dataE) THEN Plus(dataE.pc, 1)
                                                         ELSE dataE.target
      BY <1>0, <1>4, <2>3 DEF ForwardType, PcSelected, PathClock
    <3>2. /\ Plus(dataE.pc, 1) # None
          /\ ~IsCacheOp(dataE) =>
               icache_pcnxt = None /\ ~icache_saved /\ ~dataP.cache_i
          /\ save # None => save.type = "PCM"
          /\ save = None => icache_pcnxt = None
      BY <1>1, <2>3, RedirectingType, PlusType, NoneAssumption DEF TypeOK, PathInv, CacheOpUnderWay, RedirectSaved
    <3>3. CASE "i_wait" \in in
      <4>1. /\ save' = [pc |-> dataE.target, type |-> "PCM"]
            /\ icache_saved' <=> icache_saved \/ IsCacheOp(dataE)
            /\ icache_pcnxt' = IF IsCacheOp(dataE) THEN Plus(dataE.pc, 1)
                                                   ELSE icache_pcnxt
            /\ dataP' = dataP
        BY <1>0, <2>1, <3>1, <3>3 DEF SaveClock, PcnxtClock, DataPClock
      <4>2. save' # None
        BY <1>1, <2>3, <4>1, RedirectingType, NoneAssumption DEF TypeOK
      <4>3. QED
        BY <1>1, <2>1, <2>3, <3>1, <3>2, <3>3, <4>1, <4>2, CacheOpsOnly
           DEF PathInv, PathParts, CacheOpUnderWay, RedirectSaved,
          HeadsForPath, Heading, OnPath, IsCacheOp
    <3>4. CASE "i_wait" \notin in
      <4>1. save' = None /\ ~icache_saved'
        BY <1>0, <2>1, <3>4 DEF SaveClock
      <4>2. icache_pcnxt' = IF IsCacheOp(dataE) THEN Plus(dataE.pc, 1) ELSE None
        BY <1>0, <2>1, <3>2, <3>4 DEF PcnxtClock
      <4>3. dataP' = [pc |-> dataE.target, cache_i |-> IsCacheOp(dataE)]
        BY <1>0, <2>1, <3>1, <3>2, <3>4 DEF DataPClock, DataPNext, Rank
      <4>4. QED
        BY <1>1, <2>1, <2>3, <3>1, <3>2, <3>4, <4>1, <4>2, <4>3, CacheOpsOnly
           DEF PathInv, PathParts, CacheOpUnderWay, RedirectSaved,
          HeadsForPath, Heading, OnPath, IsCacheOp
    <3>5. QED
      BY <3>3, <3>4
  <2>4. QED
    BY <2>2, <2>3
<1>5. CASE /\ {"excpW", "d_wait"} \intersect in = {} /\ ~Redirects(in)
           /\ in \intersect {"e_wait", "overflowI"} # {}
  <2>1. dataE = None
    BY <1>1, <1>5 DEF Redirects
  <2>2. /\ dataE' \in {e, None} /\ ~m1_icache' /\ dataF1' = dataF1
        /\ dataP' = dataP /\ path' = path /\ due' = due
        /\ fed' <=> fed
        /\ fihazrd' <=> fihazrd
        /\ "stallF" \in s
    BY <1>0, <1>1, <1>5, <2>1, SignalsOfStall
       DEF s, BackClock, DataF1Clock, F1Loads, PathClock, TypeOK, DataPClock,
           Delivers, IsCacheOp
  <2>3. save' = save /\ icache_saved' = icache_saved /\ icache_pcnxt' = icache_pcnxt
    BY <1>0, <1>1, <1>5, <2>1, <2>2
       DEF SaveClock, PcnxtClock, ForwardType, IsCacheOp, TypeOK
  <2>4. QED
    BY <2>1, <2>2, <2>3 DEF PathInv, PathParts, CacheOpUnderWay, RedirectSaved,
          HeadsForPath, Heading, OnPath, IsCacheOp
<1>6. CASE in = {"i_wait"}
  <2>1. dataE = None
    BY <1>1, <1>6
  <2>2. /\ dataE' = e /\ ~m1_icache' /\ ~dataF1'.valid
        /\ dataP' = dataP /\ path' = path /\ due' = due
        /\ fed' <=> fed \/ dataF1.valid
        /\ fihazrd' <=> fihazrd
        /\ "stallF" \in s
    BY <1>0, <1>1, <1>6, <2>1, SignalsOfIWait
       DEF s, BackClock, DataF1Clock, F1Loads, PathClock, TypeOK, DataPClock,
           Delivers, IsCacheOp, NoFetch, Redirects
  <2>3. save' = save /\ icache_saved' = icache_saved /\ icache_pcnxt' = icache_pcnxt
    BY <1>0, <1>1, <1>6, <2>1, <2>2
       DEF SaveClock, PcnxtClock, ForwardType, IsCacheOp, TypeOK
  <2>4. QED
    BY <2>1, <2>2, <2>3 DEF PathInv, PathParts, CacheOpUnderWay, RedirectSaved,
          HeadsForPath, Heading, OnPath, IsCacheOp
<1>7. CASE in = {}
  <2>1. dataE = None /\ ~IWait(ok)
    BY <1>1, <1>7
  <2>2. /\ dataE' = e /\ ~m1_icache' /\ ~fihazrd'
        /\ fed' <=> fed \/ dataF1.valid
        /\ "stallF" \notin s /\ "stallF2" \notin s
        /\ "flushF2" \in s <=> fihazrd
        /\ save' = None /\ ~icache_saved'
    BY <1>0, <1>1, <1>7, <2>1, SignalsOfMove
       DEF s, BackClock, TypeOK, Delivers, IsCacheOp, SaveClock
  <2>3. icache_pcnxt' = IF icache_saved THEN icache_pcnxt ELSE None
    BY <1>0, <2>1, <2>2 DEF PcnxtClock, IsCacheOp
  <2>4. dataP' = CASE save # None -> [pc |-> save.pc, cache_i |-> icache_saved]
                   [] save = None /\ icache_pcnxt # None ->
                        [pc |-> icache_pcnxt, cache_i |-> FALSE]
                   [] OTHER -> [pc |-> Predicted(pre), cache_i |-> FALSE]
    <3>1. /\ ForwardType(in) = "NO_FORWARD"
          /\ PcSelected(in, entrance, pre) = Predicted(pre)
      BY <1>7, <2>1 DEF ForwardType, PcSelected
    <3>2. save # None => Rank(ForwardType(in)) < Rank(save.type)
      BY <1>1, <3>1, RankOrder DEF TypeOK
    <3>3. IsCacheOp(dataE) = FALSE
      BY <2>1 DEF IsCacheOp
    <3>4. QED
      BY <1>0, <2>2, <3>1, <3>2, <3>3 DEF DataPClock, DataPNext
  <2>5. CASE fihazrd
    <3>1. ~dataF1'.valid /\ path' = path /\ due' = due
      BY <1>0, <1>7, <2>1, <2>2, <2>5
         DEF DataF1Clock, NoFetch, F1Loads, PathClock, Redirects
    <3>2. QED
      BY <2>1, <2>2, <2>3, <2>4, <2>5, <3>1 DEF PathInv, PathParts, CacheOpUnderWay, RedirectSaved,
          HeadsForPath, Heading, OnPath, IsCacheOp
  <2>6. CASE ~fihazrd
    <3>1. save = None /\ ~icache_saved /\ F1Loads(s)
      BY <2>1, <2>2, <2>6 DEF PathInv, PathParts, CacheOpUnderWay, RedirectSaved,
          HeadsForPath, Heading, OnPath, IsCacheOp, F1Loads
    <3>2. /\ dataF1'.valid = FetchValid(IWait(ok))
          /\ dataF1'.nxt_valid <=> FetchValid(IWait(ok)) /\ ~pre.zero_prej
          /\ dataF1'.pc = dataP.pc
          /\ due' = path
      BY <1>0, <3>1 DEF DataF1Clock, F1Loads, PathClock
    <3>3. CASE icache_pcnxt # None
      <4>1. ~dataF1'.valid
        BY <3>1, <3>2, <3>3 DEF PathInv, PathParts, CacheOpUnderWay, RedirectSaved,
          HeadsForPath, Heading, OnPath, IsCacheOp, FetchValid
      <4>2. path' = path
        BY <1>0, <1>7, <4>1 DEF PathClock, Redirects
      <4>3. QED
        BY <2>1, <2>2, <2>3, <2>4, <3>1, <3>2, <3>3, <4>1, <4>2 DEF PathInv, PathParts, CacheOpUnderWay, RedirectSaved,
          HeadsForPath, Heading, OnPath, IsCacheOp
    <3>4. CASE icache_pcnxt = None
      <4>1. dataF1'.valid
        BY <2>1, <3>1, <3>2, <3>4 DEF PathInv, PathParts, CacheOpUnderWay, RedirectSaved,
          HeadsForPath, Heading, OnPath, IsCacheOp, FetchValid
      <4>2. path' = IF path = None THEN None ELSE Predicted(pre)
        BY <1>0, <1>7, <3>1, <3>2, <4>1
           DEF PathClock, Redirects, Predicted, Predictions
      <4>3. QED
        BY <2>1, <2>2, <2>3, <2>4, <3>1, <3>2, <3>4, <4>1, <4>2 DEF PathInv, PathParts, CacheOpUnderWay, RedirectSaved,
          HeadsForPath, Heading, OnPath, IsCacheOp
    <3>5. QED
      BY <3>3, <3>4
  <2>7. QED
    BY <2>5, <2>6
<1>8. QED
  <2>1. ("excpW" \notin in /\ ~Redirects(in) /\ "d_wait" \notin in
           /\ in \intersect {"e_wait", "overflowI"} = {})
        => in \subseteq {"i_wait"}
    BY <1>0 DEF Conditions, Redirects
  <2>2. QED
    BY <1>2, <1>3, <1>4, <1>5, <1>6, <1>7, <2>1

LEMMA PathInvInductive ==
  ASSUME ~(CacheOps /\ Interrupted)
  PROVE  /\ Init => PathInv
         /\ PathInv /\ [Next]_vars => PathInv'
<1>1. Init => PathInv
  <2>1. 0 \in PC
    BY PCAssumption DEF PC
  <2>2. QED
    BY <2>1, InitType, NoneAssumption
       DEF Init, PathInv, CacheOpUnderWay, RedirectSaved, HeadsForPath, Heading,
           OnPath, NoFetch, IsCacheOp
<1>2. ASSUME PathInv, [Next]_vars
      PROVE  PathInv'
  <2>1. CASE Next
    <3>1. PICK ext \in Raised, ok \in BOOLEAN, pre \in Predictions,
               entrance \in PC, e \in Redirecting \union {None} :
            (fed \/ e = None) /\ Clock(ext, ok, entrance, pre, e)
      BY <2>1, NextIsClock
    <3>2. TypeOK'
      BY <1>2, <3>1, TypeStep DEF PathInv
    <3>3. PathParts'
      BY <1>2, <3>1, PathStep
    <3>4. QED
      BY <3>2, <3>3 DEF PathInv, PathParts
  <2>2. CASE UNCHANGED vars
    BY <1>2, <2>2
       DEF vars, PathInv, TypeOK, CacheOpUnderWay, RedirectSaved, HeadsForPath,
           Heading, OnPath, IsCacheOp
  <2>3. QED
    BY <1>2, <2>1, <2>2
<1>3. QED
  BY <1>1, <1>2

(* Only the instruction stream is fetched: every bundle that leaves the    *)
(* fetch stage is the next one of the stream, however redirects, cache     *)
(* instructions, cache waits and stalls meet, unless an interrupt is taken *)
(* while a cache instruction is carried out.                               *)
THEOREM FetchOnPath == ASSUME ~(CacheOps /\ Interrupted) PROVE Spec => []OnPath
<1>1. Init => PathInv
  BY PathInvInductive
<1>2. PathInv /\ [Next]_vars => PathInv'
  BY PathInvInductive
<1>3. PathInv => OnPath
  BY DEF PathInv
<1>4. QED
  BY <1>1, <1>2, <1>3, PTL DEF Spec
=============================================================================
