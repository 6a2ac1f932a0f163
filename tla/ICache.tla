------------------------------- MODULE ICache -------------------------------
(***************************************************************************)
(* The two-way instruction cache of source/mycpu/cache/ICache.sv, one step *)
(* per clock cycle, between the fetch stage (MyCore.sv) and the cache bus. *)
(* An access asks for two consecutive words, which may lie in two lines;   *)
(* an I-cache instruction of any kind empties the whole cache.             *)
(*                                                                         *)
(* Addresses count words.  Instruction words are not modelled: a cell of   *)
(* the data RAM holds <<a, f>>, a copy of word a that is up to date if f,  *)
(* or Junk.                                                                *)
(***************************************************************************)
EXTENDS Naturals, FiniteSets

CONSTANTS
  NumTags, NumSets, LineWords,   \* the geometry: 2^20, SET_NUM, DATA_PER_LINE
  Fetches,                       \* the words fetch may ask for, each with
                                 \* the one behind it
  Writable,                      \* the words the program may change
  None, Junk                     \* model values

VARIABLES
  meta_ram, plru, data_ram,
  state, miss_addr, meta_index,
  inst_save,         \* inst_save, None if inst_saved is low
  iresp,             \* the words on iresp.data by port
  req,               \* what the fetch stage presents (dataP, MyCore.sv)
  bus_busy, bus_beat,  \* the cache bus (external): burst accepted, its beat
  bus_line,          \* and its first word
  asked,             \* history: the word iresp answers for, None if none
  written            \* history: words changed since the cache was emptied

vars == <<meta_ram, plru, data_ram, state, miss_addr, meta_index, inst_save,
          iresp, req, bus_busy, bus_beat, bus_line, asked, written>>

Ways    == {0, 1}
Sets    == 0..(NumSets - 1)
Tags    == 0..(NumTags - 1)
Offsets == 0..(LineWords - 1)
Words   == 0..(NumTags * NumSets * LineWords - 1)
Cells   == (Words \X BOOLEAN) \union {Junk}
Invals  == {"I_INDEX_INVALID", "I_HIT_INVALID"}   \* as I_INDEX_STORE_TAG
Insts   == {"I_UNKNOWN"} \union Invals

(* Two words of an access are in one set only if they are in one line. *)
ASSUME GeometryAssumption ==
  NumTags \in Nat \ {0} /\ NumSets \in Nat \ {0, 1} /\ LineWords \in Nat \ {0}
ASSUME FetchesAssumption ==
  0 \in Fetches /\ \A a \in Fetches : {a, a + 1} \subseteq Words
ASSUME WritableAssumption == Writable \subseteq Words
(* The two model values are told apart from what they stand in for. *)
ASSUME ModelValuesAssumption ==
  None \notin Words /\ None \notin Insts /\ Junk \notin Words \X BOOLEAN

Offset(a) == a % LineWords
Index(a)  == (a \div LineWords) % NumSets
Tag(a)    == a \div (LineWords * NumSets)
LineOf(a) == a - Offset(a)

-----------------------------------------------------------------------------
(* The request: [valid, addr, inst], inst being dataP's kind of I-cache    *)
(* instruction.  `noise' is what M1M2reg holds meanwhile; the cache sees   *)
(* it unless dataP is an I-cache access itself (MyCore.sv:116), and the    *)
(* second request is valid only with I_UNKNOWN (MyCore.sv:800-806).        *)

Requests ==
  [valid : {TRUE}, addr : Fetches, inst : {"I_UNKNOWN"}] \union
  [valid : {FALSE}, addr : {0}, inst : {"I_UNKNOWN"}] \union
  [valid : {TRUE}, addr : {0}, inst : Invals]

Addr(p) == req.addr + (p - 1)

CacheInst(noise) == IF req.inst \in Invals THEN req.inst ELSE noise

ReqValid(p, noise) ==
  req.valid /\ (p = 2 => CacheInst(noise) = "I_UNKNOWN")

ValidInst(noise) == IF inst_save # None THEN inst_save ELSE CacheInst(noise)

CacheOper(noise) ==
  CASE req.valid /\ ValidInst(noise) # "I_UNKNOWN" -> "INVALID"
    [] req.valid /\ ValidInst(noise) = "I_UNKNOWN" -> "REQ"
    [] OTHER -> "NULL"

-----------------------------------------------------------------------------
(* Look-up.  The first port of the tags, the one written, follows the      *)
(* state.                                                                  *)

(* Fault: it stays with the first word while the second is fetched. *)
MetaAddrFirst(p) ==
  CASE p = 1 /\ state = "INVALID_ALL" -> meta_index
    [] p = 1 /\ state # "INVALID_ALL" -> Index(Addr(1))
    [] OTHER -> Index(Addr(2))

MetaAddr(p) ==
  CASE p = 1 /\ state = "INVALID_ALL" -> meta_index
    [] p = 1 /\ state # "INVALID_ALL" /\ state # "FETCH_2" -> Index(Addr(1))
    [] OTHER -> Index(Addr(2))

HitWays(p) ==
  {w \in Ways : meta_ram[MetaAddr(p)][w] = [valid |-> TRUE, tag |-> Tag(Addr(p))]}

Hit(p) == HitWays(p) # {}

(* The OR of the matching way numbers. *)
HitLine(p) == IF 1 \in HitWays(p) THEN 1 ELSE 0

(* Fault: one set short. *)
LastSetEarly == meta_index + 1 >= NumSets - 1

LastSet == meta_index = NumSets - 1

(* Fault: the access ends when its first word is there. *)
EnFirstWord(noise) ==
  \/ state = "IDLE" /\ ValidInst(noise) = "I_UNKNOWN" /\ req.valid /\ Hit(1)
  \/ state = "INVALID_ALL" /\ LastSet

(* addr_ok *)
En(noise) ==
  \/ /\ state = "IDLE" /\ ValidInst(noise) = "I_UNKNOWN"
     /\ req.valid /\ Hit(1) /\ Hit(2)
  \/ state = "INVALID_ALL" /\ LastSet

ReplaceLine(p) ==
  IF p = 2 /\ Index(Addr(1)) = Index(Addr(2)) THEN 1 - HitLine(1)
  ELSE plru[Index(Addr(p))]

-----------------------------------------------------------------------------
(* The cache bus (external, see BusPath): a burst is accepted a cycle      *)
(* after it is requested, with the address it then has; `last' comes with  *)
(* its last beat.                                                          *)

Fetching == state \in {"FETCH_1", "FETCH_2"}
FetchPort == IF state = "FETCH_1" THEN 1 ELSE 2

IcreqLine == LineOf(Addr(FetchPort))

Resp(ready) ==
  [ready |-> ready, last |-> ready /\ bus_beat = LineWords - 1,
   data |-> IF ready THEN <<bus_line + bus_beat, TRUE>> ELSE Junk]

BusClock(resp) ==
  /\ bus_busy' = (Fetching /\ ~resp.last)
  /\ bus_beat' = CASE resp.last -> 0
                   [] resp.ready /\ ~resp.last -> bus_beat + 1
                   [] OTHER -> bus_beat
  /\ bus_line' = IF Fetching /\ ~bus_busy THEN IcreqLine ELSE bus_line

-----------------------------------------------------------------------------
(* The parts of a clock cycle.                                             *)

SaveClock(noise) ==
  inst_save' = CASE En(noise) -> None
                 [] ~En(noise) /\ inst_save = None -> CacheInst(noise)
                 [] OTHER -> inst_save

InvalidLine(noise) ==
  IF ValidInst(noise) = "I_INDEX_INVALID" THEN Tag(Addr(1)) % 2 ELSE HitLine(1)

MetaClock(noise, resp) ==
  meta_ram' =
    CASE state = "IDLE" /\ CacheOper(noise) = "INVALID" ->
           [meta_ram EXCEPT ![MetaAddr(1)][InvalidLine(noise)].valid = FALSE]
      [] Fetching /\ resp.last ->
           [meta_ram EXCEPT ![MetaAddr(1)][ReplaceLine(FetchPort)] =
              [valid |-> TRUE, tag |-> Tag(Addr(FetchPort))]]
      [] state = "INVALID_ALL" ->
           [meta_ram EXCEPT ![MetaAddr(1)] =
              [w \in Ways |-> [valid |-> FALSE, tag |-> 0]]]
      [] OTHER -> meta_ram

(* The loop rebuilds the whole vector for the second word after the first, *)
(* from the register: if both hit, only the second one's set is touched.   *)
PlruClock(noise) ==
  plru' =
    CASE CacheOper(noise) = "REQ" /\ Hit(2) ->
           [plru EXCEPT ![Index(Addr(2))] = 1 - HitLine(2)]
      [] CacheOper(noise) = "REQ" /\ ~Hit(2) /\ Hit(1) ->
           [plru EXCEPT ![Index(Addr(1))] = 1 - HitLine(1)]
      [] OTHER -> plru

StartFetch(p) ==
  /\ state' = IF p = 1 THEN "FETCH_1" ELSE "FETCH_2"
  /\ miss_addr' = [line |-> ReplaceLine(p), index |-> Index(Addr(p)), offset |-> 0]
  /\ UNCHANGED meta_index

FsmIdle(noise) ==
  /\ state = "IDLE"
  /\ CASE CacheOper(noise) = "INVALID" ->
            state' = "INVALID_ALL" /\ meta_index' = 0 /\ UNCHANGED miss_addr
       [] CacheOper(noise) = "REQ" /\ ~Hit(1) -> StartFetch(1)
       [] CacheOper(noise) = "REQ" /\ Hit(1) /\ ReqValid(2, noise) /\ ~Hit(2) ->
            StartFetch(2)
       [] OTHER -> UNCHANGED <<state, miss_addr, meta_index>>

FsmFetch(resp) ==
  /\ Fetching
  /\ state' = IF resp.last THEN "IDLE" ELSE state
  /\ miss_addr' = IF resp.ready
                  THEN [miss_addr EXCEPT !.offset = (@ + 1) % LineWords]
                  ELSE miss_addr
  /\ UNCHANGED meta_index

(* Fault: the state is left one set before the access may end. *)
FsmInvalidShort ==
  /\ state = "INVALID_ALL"
  /\ state' = IF meta_index + 2 >= NumSets THEN "IDLE" ELSE state
  /\ meta_index' = (meta_index + 1) % NumSets
  /\ UNCHANGED miss_addr

FsmInvalid ==
  /\ state = "INVALID_ALL"
  /\ state' = IF LastSet THEN "IDLE" ELSE state
  /\ meta_index' = (meta_index + 1) % NumSets
  /\ UNCHANGED miss_addr

FsmClock(noise, resp) == FsmIdle(noise) \/ FsmFetch(resp) \/ FsmInvalid

(* The data RAM: port 2 is written in every cycle of a refill, whether the *)
(* bus has a word or not.  `w' is the word of memory that changes in this  *)
(* cycle; copies made before are out of date.                              *)
Aged(cell, w) ==
  IF cell # Junk /\ cell[1] = w THEN <<w, FALSE>> ELSE cell

PortAddr(p) ==
  IF p = 2 /\ state # "IDLE" THEN miss_addr
  ELSE [line |-> HitLine(p), index |-> Index(Addr(p)), offset |-> Offset(Addr(p))]

RamClock(noise, resp, w) ==
  LET Read(p) == data_ram[PortAddr(p).line][PortAddr(p).index][PortAddr(p).offset]
  IN  /\ data_ram' =
           [y \in Ways |-> [s \in Sets |-> [o \in Offsets |->
              IF Fetching /\ PortAddr(2) = [line |-> y, index |-> s, offset |-> o]
              THEN Aged(resp.data, w) ELSE Aged(data_ram[y][s][o], w)]]]
      /\ iresp' = [p \in {1, 2} |->
                     IF En(noise) /\ CacheOper(noise) = "REQ"
                     THEN Aged(Read(p), w) ELSE Junk]

(* MyCore.sv keeps dataP while the cache does not accept it (i_wait);      *)
(* otherwise fetch goes on, waits for something else, or is redirected.    *)
(* The kind of an I-cache instruction is in dataP only if it was saved     *)
(* while fetch waited, so right after an access that ended.                *)

(* Fault: a redirect does not wait for the fetch in progress. *)
ReqClockMoves(noise) == req' \in Requests /\ (req'.inst \in Invals => En(noise))

ReqClock(noise) ==
  IF req.valid /\ ~En(noise) THEN req' = req
  ELSE req' \in Requests /\ (req'.inst \in Invals => En(noise))

(* An I-cache instruction passes M1M2reg while the fetch it overtook is    *)
(* still waited for.                                                       *)
Noises == IF inst_save # None THEN Insts ELSE {"I_UNKNOWN"}

HistoryClock(noise, w) ==
  /\ asked' = IF En(noise) /\ CacheOper(noise) = "REQ" THEN req.addr ELSE None
  /\ written' = (IF En(noise) /\ state = "INVALID_ALL" THEN {} ELSE written)
                  \union ({w} \ {None})

Clock(noise, ready, w) ==
  LET resp == Resp(ready) IN
  /\ noise \in Noises
  /\ ready => bus_busy
  /\ SaveClock(noise)
  /\ MetaClock(noise, resp) /\ PlruClock(noise) /\ FsmClock(noise, resp)
  /\ RamClock(noise, resp, w)
  /\ BusClock(resp)
  /\ ReqClock(noise)
  /\ HistoryClock(noise, w)

-----------------------------------------------------------------------------

(* After reset: the tags have been cleared by the reset counter. *)
Init ==
  /\ meta_ram = [s \in Sets |-> [w \in Ways |-> [valid |-> FALSE, tag |-> 0]]]
  /\ plru = [s \in Sets |-> 0]
  /\ data_ram = [w \in Ways |-> [s \in Sets |-> [o \in Offsets |-> Junk]]]
  /\ state = "IDLE" /\ miss_addr = [line |-> 0, index |-> 0, offset |-> 0]
  /\ meta_index = 0
  /\ inst_save = None
  /\ iresp = [p \in {1, 2} |-> Junk]
  /\ req = [valid |-> TRUE, addr |-> 0, inst |-> "I_UNKNOWN"]
  /\ bus_busy = FALSE /\ bus_beat = 0 /\ bus_line = 0
  /\ asked = None /\ written = {}

Next ==
  \E noise \in Insts, ready \in BOOLEAN, w \in Writable \union {None} :
    Clock(noise, ready, w)

Spec == Init /\ [][Next]_vars

(* While an access is in progress the clock runs, again and again the bus  *)
(* has the word it is asked for, and no I-cache instruction stays in       *)
(* M1M2reg for ever.                                                       *)
FairSpec ==
  Spec /\ WF_vars(req.valid /\ Clock("I_UNKNOWN", bus_busy, None))

-----------------------------------------------------------------------------

(* Registers and memories hold values of their types. *)
TypeOK ==
  /\ meta_ram \in [Sets -> [Ways -> [valid : BOOLEAN, tag : Tags]]]
  /\ plru \in [Sets -> Ways]
  /\ data_ram \in [Ways -> [Sets -> [Offsets -> Cells]]]
  /\ state \in {"IDLE", "FETCH_1", "FETCH_2", "INVALID_ALL"}
  /\ miss_addr \in [line : Ways, index : Sets, offset : Offsets]
  /\ meta_index \in Sets
  /\ inst_save \in Insts \union {None}
  /\ iresp \in [{1, 2} -> Cells]
  /\ req \in Requests
  /\ bus_busy \in BOOLEAN /\ bus_beat \in Offsets /\ bus_line \in Words
  /\ asked \in Words \union {None} /\ written \subseteq Writable

(* The words answered are those of the address asked for, whether they lie *)
(* in one line or in two, were there or had to be fetched, and although    *)
(* the refill address is the live one (ICache.sv:432) and the RAM is       *)
(* overwritten while the old tag is still there (ICache.sv:380-384).       *)
AnswersAsked ==
  asked # None => \A p \in {1, 2} : iresp[p] # Junk /\ iresp[p][1] = asked + (p - 1)

(* A program that changes its code and then empties the cache with an      *)
(* I-cache instruction runs the new code: an old word is answered only if  *)
(* it was changed after the cache was last emptied (ICache.sv:349-353).    *)
NewCodeAfterInvalidate ==
  asked # None => \A p \in {1, 2} :
    iresp[p] # Junk /\ ~iresp[p][2] => iresp[p][1] \in written

(* A line is in one way at most: hit_line is the OR of the ways that       *)
(* match, so two copies would name a third place; all registers and        *)
(* memories hold values of their types.                                    *)
OneCopy ==
  TypeOK /\ \A s \in Sets :
    meta_ram[s][0].valid /\ meta_ram[s][1].valid =>
      meta_ram[s][0].tag # meta_ram[s][1].tag

(* Every access the fetch stage waits for (i_wait) ends, the two refills   *)
(* it may need included.                                                   *)
AccessEnds == [](req.valid => <>(~req.valid \/ En("I_UNKNOWN")))
=============================================================================
