---------------------------- MODULE DCache_proofs ---------------------------
(***************************************************************************)
(* Proofs about the data cache, for every geometry and every set of        *)
(* accesses it serves correctly (Supported): its lines are copies of       *)
(* memory, no store is lost and every load is answered with the bytes last *)
(* stored.  All three follow from CacheInv, which also says what holds in  *)
(* the middle of an access: what the latch of the look-up still tells of   *)
(* the metadata, which line a refill is overwriting and that memory holds  *)
(* both that line and the one it replaces, and how far the write-back      *)
(* buffer is filled ahead of the bus.                                      *)
(***************************************************************************)
EXTENDS DCache, Integers, TLAPS

-----------------------------------------------------------------------------
(* The inductive invariant.                                                *)

Meta == [valid : BOOLEAN, tag : Tags]
Operations == {"INVALID", "WRITEBACK_INVALID", "INDEX_STORE"}
PhaseType == {Idle, Store, Writeback(0)} \union
             {Fetch(1), Fetch(2), Writeback(1), Writeback(2), Uncache(1), Uncache(2)}

(* The values of the variables TypeOK leaves out. *)
RestTypeOK ==
  /\ h \in [oper : Operations \union {"REQ", "NULL"}, req : [Ports -> Dreq],
            hit : [Ports -> BOOLEAN], line : [Ports -> Ways],
            meta : [Ports -> [Ways -> Meta]], op_line : Ways, dreq_en : BOOLEAN]
  /\ delay_counter \in BOOLEAN /\ ended \subseteq PhaseType
  /\ replace_line_reg \in [Ports -> Ways]
  /\ port_data_r \in [Ports -> Word]
  /\ mem_current \in [Addr -> [Lanes -> BOOLEAN]]

At(t, s, o) == [tag |-> t, index |-> s, offset |-> o]
LineOf(t) == [valid |-> TRUE, tag |-> t]
Tag(p) == h.req[p].tag
Index(p) == h.req[p].index

(* What the latch says of the look-up, and of the accesses it can hold. *)
LookedUp ==
  /\ \A p \in Ports :
       /\ h.hit[p] = (\E w \in Ways : h.meta[p][w] = LineOf(Tag(p)))
       /\ h.hit[p] => h.meta[p][h.line[p]] = LineOf(Tag(p))
  /\ IndexEqual => h.meta[1] = h.meta[2]
  /\ IndexEqual /\ Tag(1) = Tag(2) => h.line[1] = h.line[2]
  /\ h.oper = "REQ" => Served(h.req)
  /\ h.oper = "INVALID" => en /\ h.meta[1][h.op_line].valid
  /\ h.oper = "INDEX_STORE" => ~h.meta[1][h.op_line].valid /\ LineWords > 1

(* When an access may go on, and which phases it has been through. *)
Flags ==
  /\ ~en => ~finish_reg /\ ~h.dreq_en
  /\ en /\ h.oper = "REQ" => h.dreq_en \/ finish_reg
  /\ en /\ ~finish_reg => ended = {}

(* The bus works for the phase the FSM is in. *)
BusInStep ==
  /\ bus_busy => DcreqValid
  /\ ~bus_busy => bus_beat = 0
  /\ state[1] = "UNCACHE" => bus_beat = 0 /\ miss_addr.offset = 0
  /\ Fetching => miss_addr.offset = bus_beat
  /\ state = Idle => miss_addr.offset = 0

(* The port's part of the access is done. *)
Past(phase) == phase \in ended /\ state # phase
FetchedFor(p) == Past(Fetch(p)) \/ (p = 2 /\ SameLine /\ Past(Fetch(1)))
Done(p) ==
  /\ Uncached(p) => Past(Uncache(p))
  /\ Misses(p) => FetchedFor(p)

(* What each phase works on. *)
Working ==
  /\ Fetching \/ (WritingBack /\ Port # 0) =>
       /\ h.oper = "REQ" /\ Misses(Port) /\ (Port = 2 => ~SameLine)
       /\ miss_addr.line = ReplaceLine(Port) /\ miss_addr.index = Index(Port)
  /\ WritingBack /\ Port # 0 => Fetch(Port) \notin ended
  /\ state = Writeback(0) \/ state = Store =>
       miss_addr.line = h.op_line /\ miss_addr.index = Index(1)
  /\ state = Writeback(0) => h.oper = "WRITEBACK_INVALID" /\ WbDirty
  /\ state = Store => h.oper = "INDEX_STORE"
  /\ state[1] = "UNCACHE" => h.oper = "REQ" /\ Uncached(Port)
  /\ state \in {Fetch(2), Writeback(2), Uncache(2)} => Done(1)
  /\ Fetch(2) \in ended => ~SameLine
  /\ \A p \in Ports : Past(Writeback(p)) => state = Fetch(p) \/ Fetch(p) \in ended

(* A port's request is served when the access ends. *)
AllDone ==
  en /\ h.oper = "REQ" =>
    \A p \in Ports : h.req[p].valid => CacheHit(p) \/ Done(p)

(* The line of port p is in way w, marked if it is to be stored to. *)
InPlace(p, w) ==
  /\ meta_ram[Index(p)][w] = LineOf(Tag(p))
  /\ h.req[p].strobe # {} => cache_dirty[w][Index(p)]

(* What the metadata are during the access. *)
MetaHeld ==
  /\ h.oper \in Operations => meta_ram[Index(1)] = h.meta[1]
  /\ h.oper = "REQ" => \A p \in Ports :
       /\ CacheHit(p) => meta_ram[Index(p)][h.line[p]] = LineOf(Tag(p))
       /\ Misses(p) /\ Fetch(p) \notin ended /\ (p = 2 => ~SameLine) =>
            meta_ram[Index(p)] = h.meta[p]
       /\ Misses(p) /\ FetchedFor(p) => InPlace(p, replace_line_reg[p])
       /\ Uncached(p) /\ Past(Uncache(p)) => uncached_data[p] = BusData
  /\ Fetching /\ state \in ended =>
       /\ meta_ram[Index(Port)] = [h.meta[Port] EXCEPT ![miss_addr.line] = LineOf(Tag(Port))]
       /\ InPlace(Port, miss_addr.line)

(* The line a refill is overwriting. *)
Victim(w, s) == Fetching /\ w = miss_addr.line /\ s = miss_addr.index

(* Every valid line but that one holds the latest bytes of its tag. *)
LinesHeld ==
  \A w \in Ways, s \in Sets : meta_ram[s][w].valid /\ ~Victim(w, s) =>
    \A o \in Offsets, l \in Lanes :
      data_ram[w][s][o][l] = At(meta_ram[s][w].tag, s, o)

(* What is not current in memory is in a dirty line. *)
MemoryHeld ==
  \A a \in Addr, l \in Lanes :
    mem_current[a][l] \/ \E w \in Ways : /\ meta_ram[a.index][w] = LineOf(a.tag)
                                         /\ cache_dirty[w][a.index]

InMemory(t, s) == \A o \in Offsets, l \in Lanes : mem_current[At(t, s, o)][l]

(* A refill: memory has the new line and the line it replaces, and the     *)
(* words delivered so far are in the RAM.                                  *)
Refill ==
  Fetching =>
    /\ InMemory(Tag(Port), Index(Port))
    /\ state \notin ended /\ h.meta[Port][miss_addr.line].valid =>
         InMemory(h.meta[Port][miss_addr.line].tag, Index(Port))
    /\ \A o \in Offsets, l \in Lanes : o < bus_beat =>
         data_ram[miss_addr.line][miss_addr.index][o][l] = At(Tag(Port), Index(Port), o)

(* A write-back: the line is valid and dirty, memory has the words taken   *)
(* so far, and the buffer is filled ahead of the bus.                      *)
Buffered(k) == \A l \in Lanes : buffer[k][l] = At(CbusTag, CbusIndex, k)
WriteBack ==
  WritingBack =>
    /\ meta_ram[CbusIndex][miss_addr.line] = LineOf(CbusTag)
    /\ miss_addr.index = CbusIndex
    /\ \A o \in Offsets, l \in Lanes : o < bus_beat => mem_current[At(CbusTag, CbusIndex, o)][l]
    /\ offset_count = bus_beat
    /\ ~delay_counter => miss_addr.offset = 0
    /\ delay_counter =>
         /\ miss_addr.offset = (buffer_offset + 1) % LineWords
         /\ \A l \in Lanes : port_data_r[2][l] = At(CbusTag, CbusIndex, buffer_offset)
         /\ \/ \A k \in Offsets : Buffered(k)
            \/ /\ \A k \in Offsets : k < buffer_offset => Buffered(k)
               /\ bus_busy => bus_beat < buffer_offset

(* D_*_WRITEBACK_INVALID ends when memory has the line. *)
WrittenBack ==
  en /\ h.oper = "WRITEBACK_INVALID" /\ h.meta[1][h.op_line].valid =>
    InMemory(h.meta[1][h.op_line].tag, Index(1))

CacheInv ==
  /\ TypeOK /\ RestTypeOK /\ LookedUp /\ Flags /\ BusInStep /\ Working /\ AllDone
  /\ MetaHeld /\ OneCopy /\ LinesHeld /\ MemoryHeld /\ Refill /\ WriteBack /\ WrittenBack

-----------------------------------------------------------------------------
(* Arithmetic of word counters and way numbers. *)

(* The successor of a word of a line. *)
LEMMA Successor ==
  ASSUME NEW o \in Offsets
  PROVE  /\ (o + 1) % LineWords = IF o + 1 = LineWords THEN 0 ELSE o + 1
         /\ (o + 1) % LineWords \in Offsets
<1>1. LineWords \in Nat \ {0} /\ o \in 0..(LineWords - 1)
  BY GeometryAssumption DEF Offsets
<1>2. CASE o + 1 = LineWords
  <2>1. (o + 1) % LineWords = 0
    BY <1>1, <1>2
  <2>2. QED
    BY <1>1, <1>2, <2>1 DEF Offsets
<1>3. CASE o + 1 # LineWords
  <2>1. o + 1 \in 0..(LineWords - 1)
    BY <1>1, <1>3
  <2>2. (o + 1) % LineWords = o + 1
    BY <1>1, <2>1
  <2>3. QED
    BY <1>3, <2>1, <2>2 DEF Offsets
<1>4. QED
  BY <1>2, <1>3

(* The way named by an index operation. *)
LEMMA LowestBit == ASSUME NEW r \in Dreq PROVE GetLine(r) \in Ways
<1>1. r.tag \in Nat
  BY GeometryAssumption DEF Dreq
<1>2. r.tag % 2 \in 0..1
  BY <1>1
<1>3. QED
  BY <1>2 DEF GetLine, Ways

-----------------------------------------------------------------------------
(* The phases. *)

(* The phases are distinct, and each one tells its kind and its port. *)
LEMMA PhaseFacts ==
  ASSUME NEW s \in PhaseType
  PROVE  /\ s[1] = "IDLE" <=> s = Idle
         /\ s[1] = "STORE" <=> s = Store
         /\ s[1] = "FETCH" <=> \E p \in Ports : s = Fetch(p)
         /\ s[1] = "WRITEBACK" <=> s = Writeback(0) \/ \E p \in Ports : s = Writeback(p)
         /\ s[1] = "UNCACHE" <=> \E p \in Ports : s = Uncache(p)
         /\ s[2] \in {0, 1, 2}
         /\ s[1] \in {"FETCH", "UNCACHE"} => s[2] \in Ports
         /\ s[1] = "FETCH" => s = Fetch(s[2])
         /\ s[1] = "WRITEBACK" => s = Writeback(s[2])
         /\ s[1] = "UNCACHE" => s = Uncache(s[2])
BY DEF PhaseType, Idle, Store, Fetch, Writeback, Uncache, Ports

(* The kind and the port of each phase. *)
LEMMA PhaseNames ==
  /\ Idle[1] = "IDLE" /\ Store[1] = "STORE"
  /\ \A p : /\ Fetch(p)[1] = "FETCH" /\ Fetch(p)[2] = p
            /\ Writeback(p)[1] = "WRITEBACK" /\ Writeback(p)[2] = p
            /\ Uncache(p)[1] = "UNCACHE" /\ Uncache(p)[2] = p
  /\ {Idle, Store, Writeback(0)} \subseteq PhaseType
  /\ \A p \in Ports : {Fetch(p), Writeback(p), Uncache(p)} \subseteq PhaseType
BY DEF PhaseType, Idle, Store, Fetch, Writeback, Uncache, Ports

(* Which phase it is. *)
LEMMA PhaseCases ==
  ASSUME TypeOK
  PROVE  /\ state \in PhaseType
         /\ \/ state = Idle /\ ~Fetching /\ ~WritingBack /\ state[1] # "UNCACHE"
            \/ state = Store /\ ~Fetching /\ ~WritingBack /\ state[1] # "UNCACHE"
            \/ /\ Fetching /\ ~WritingBack /\ state[1] # "UNCACHE" /\ state # Idle
               /\ Port \in Ports /\ state = Fetch(Port) /\ state # Store
            \/ /\ WritingBack /\ ~Fetching /\ state[1] # "UNCACHE" /\ state # Idle
               /\ Port \in Ports \union {0} /\ state = Writeback(Port) /\ state # Store
            \/ /\ state[1] = "UNCACHE" /\ ~Fetching /\ ~WritingBack /\ state # Idle
               /\ Port \in Ports /\ state = Uncache(Port) /\ state # Store
BY DEF TypeOK, PhaseType, Idle, Store, Fetch, Writeback, Uncache, Ports,
   Fetching,
       WritingBack, Port

-----------------------------------------------------------------------------
(* A waiting cycle. *)

(* While an access is in progress its request stays, and nothing is stored *)
(* or dropped. *)
LEMMA Waiting ==
  ASSUME CacheInv, ~en, NEW acc, NEW ready \in BOOLEAN, Clock(acc, ready)
  PROVE  /\ h' = h /\ en' = Finish(Resp(ready)) /\ finish_reg' = en'
         /\ h.oper # "INVALID"
         /\ \A p \in Ports : StoreLanes(p) = {} /\ ~PortEn(p)
         /\ \A l \in Lanes : Stored(l) = {}
         /\ Dropped = {}
         /\ ended' = IF state = Idle THEN ended ELSE ended \union {state}
<1>1. /\ h' = h /\ en' = Finish(Resp(ready)) /\ finish_reg' = en'
      /\ ended' = IF state = Idle THEN ended ELSE ended \union {state}
  BY DEF Clock, EnClock, CacheInv, Flags, EndedClock
<1>2. h.oper # "INVALID"
  BY DEF CacheInv, LookedUp
<1>3. \A p \in Ports : StoreLanes(p) = {}
  BY DEF StoreLanes, Performs
<1>4. \A p \in Ports : ~PortEn(p)
  BY DEF CacheInv, Flags, PortEn
<1>5. \A l \in Lanes : Stored(l) = {}
  BY <1>3 DEF Stored
<1>6. QED
  BY <1>1, <1>2, <1>3, <1>4, <1>5 DEF Dropped

(* What is said of the latched request stays with it. *)
LEMMA SameRequest ==
  ASSUME h' = h
  PROVE  /\ \A p \in Ports : /\ Misses(p)' = Misses(p) /\ CacheHit(p)' = CacheHit(p)
                             /\ Uncached(p)' = Uncached(p)
                             /\ Tag(p)' = Tag(p) /\ Index(p)' = Index(p)
         /\ SameLine' = SameLine /\ IndexEqual' = IndexEqual
BY DEF Misses, CacheHit, Uncached, Tag, Index, SameLine, IndexEqual

(* The parts of the latched request have their types. *)
LEMMA RequestTypes ==
  ASSUME RestTypeOK
  PROVE  /\ \A p \in Ports : /\ h.req[p] \in Dreq /\ Tag(p) \in Tags /\ Index(p) \in Sets
                             /\ h.req[p].strobe \subseteq Lanes
                             /\ h.req[p].valid \in BOOLEAN /\ h.req[p].unc \in BOOLEAN
                             /\ h.req[p].offset \in Offsets
                             /\ AddrOf(h.req[p]) \in Addr
                             /\ h.hit[p] \in BOOLEAN /\ h.line[p] \in Ways
                             /\ h.meta[p] \in [Ways -> Meta]
                             /\ Other(p) \in Ports
         /\ h.op_line \in Ways /\ h.dreq_en \in BOOLEAN
BY DEF RestTypeOK, Dreq, Tag, Index, AddrOf, Addr, Ports, Other

(* The way a miss of a port goes to is a way. *)
LEMMA ReplaceLineType ==
  ASSUME TypeOK, RestTypeOK, NEW p \in Ports PROVE ReplaceLine(p) \in Ways
<1>1. h.line[Other(p)] \in Ways /\ Index(p) \in Sets
  BY RequestTypes
<1>2. plru[h.req[p].index] \in Ways
  BY <1>1 DEF TypeOK, Index
<1>3. QED
  BY <1>1, <1>2 DEF ReplaceLine, Ways

(* A beat is the last one of its burst if the burst is complete with it. *)
LEMMA LastBeat ==
  ASSUME CacheInv, NEW ready \in BOOLEAN, ready => bus_busy
  PROVE  /\ Resp(ready).ready = ready /\ Resp(ready).last \in BOOLEAN
         /\ Resp(ready).last => bus_busy /\ ready /\ DcreqValid
         /\ state \in {Idle, Store} => ~Resp(ready).last
         /\ state[1] = "UNCACHE" => Resp(ready).last = ready
         /\ state[1] # "UNCACHE" => (Resp(ready).last <=> ready /\ bus_beat = LineWords - 1)
<1>1. bus_beat \in Nat /\ LineWords \in Nat \ {0}
  BY GeometryAssumption DEF CacheInv, TypeOK, Offsets
<1>2. state \in {Idle, Store} => ~DcreqValid
  BY PhaseNames DEF DcreqValid, Fetching, WritingBack
<1>3. (bus_busy => DcreqValid) /\ (state[1] = "UNCACHE" => bus_beat = 0)
  BY DEF CacheInv, BusInStep
<1>4. /\ Resp(ready).ready = ready
      /\ Resp(ready).last = (ready /\ bus_beat + 1 = DcreqLen)
  BY DEF Resp
<1>5. DcreqLen = IF state[1] = "UNCACHE" THEN 1 ELSE LineWords
  BY DEF DcreqLen
<1>6. Resp(ready).last \in BOOLEAN /\ (Resp(ready).last => ready)
  BY <1>4
<1>7. state[1] = "UNCACHE" => Resp(ready).last = ready
  BY <1>3, <1>4, <1>5
<1>8. state[1] # "UNCACHE" => (Resp(ready).last <=> ready /\ bus_beat = LineWords - 1)
  <2>1. state[1] # "UNCACHE" => (bus_beat + 1 = DcreqLen <=> bus_beat = LineWords - 1)
    BY <1>1, <1>5
  <2>2. QED
    BY <1>4, <2>1
<1>9. QED
  BY <1>2, <1>3, <1>4, <1>6, <1>7, <1>8

(* The end of an access is in a phase that goes back to idle. *)
LEMMA FinishFacts ==
  ASSUME CacheInv, ~en, NEW ready \in BOOLEAN, ready => bus_busy, Finish(Resp(ready))
  PROVE  \/ /\ h.oper = "REQ" /\ Resp(ready).last /\ state = FinishState
            /\ Fetching \/ state[1] = "UNCACHE"
         \/ h.oper = "WRITEBACK_INVALID" /\ ~WbDirty /\ state = Idle
         \/ h.oper = "WRITEBACK_INVALID" /\ Resp(ready).last /\ state = Writeback(0)
         \/ h.oper = "INDEX_STORE" /\ miss_addr.offset = LineWords - 1 /\ state = Store
<1>1. /\ state \in PhaseType
      /\ \/ state = Idle \/ state = Store \/ Fetching \/ WritingBack \/ state[1] = "UNCACHE"
  BY PhaseCases DEF CacheInv
<1>2. CASE h.oper = "REQ"
  <2>1. state = FinishState /\ Resp(ready).last
    BY <1>2 DEF Finish
  <2>2. FinishState[1] \in {"FETCH", "UNCACHE"}
    BY PhaseNames DEF FinishState, Ports
  <2>3. QED
    BY <1>2, <2>1, <2>2 DEF Fetching
<1>3. CASE h.oper = "WRITEBACK_INVALID"
  <2>1. state \in {Idle, Writeback(0)}
    BY <1>1, <1>3, PhaseCases DEF CacheInv, Working
  <2>2. ~WbDirty \/ Resp(ready).last
    BY <1>3 DEF Finish
  <2>3. state = Idle => ~Resp(ready).last
    BY LastBeat
  <2>4. state = Writeback(0) => WbDirty
    BY DEF CacheInv, Working
  <2>5. QED
    BY <1>3, <2>1, <2>2, <2>3, <2>4
<1>4. CASE h.oper = "INDEX_STORE"
  <2>1. miss_addr.offset = LineWords - 1
    BY <1>4 DEF Finish
  <2>2. state \in {Idle, Store}
    BY <1>1, <1>4, PhaseCases DEF CacheInv, Working
  <2>3. state # Idle
    BY <1>4, <2>1 DEF CacheInv, BusInStep, LookedUp
  <2>4. QED
    BY <1>4, <2>1, <2>2, <2>3
<1>5. QED
  BY <1>2, <1>3, <1>4 DEF Finish

-----------------------------------------------------------------------------
(* Types. *)

(* What the core presents has its type. *)
LEMMA AccessTypes ==
  ASSUME NEW acc \in Accesses \union {NoAccess}
  PROVE  /\ acc.req \in [Ports -> Dreq]
         /\ acc.inst \in Insts
         /\ acc.inst = "D_INDEX_STORE_TAG" => LineWords > 1
<1>1. NoAccess \in AccessType /\ NoAccess.inst = "D_UNKNOWN"
  BY GeometryAssumption DEF NoAccess, AccessType, ZeroReq, Dreq, Insts, Offsets
<1>2. acc \in AccessType
  BY <1>1, AccessesAssumption
<1>3. QED
  BY <1>1, <1>2, StoreTagAssumption DEF AccessType

(* What is latched of an access has its type. *)
LEMMA LatchType ==
  ASSUME TypeOK, NEW acc \in Accesses \union {NoAccess}
  PROVE  Handle(acc) \in
           [oper : Operations \union {"REQ", "NULL"}, req : [Ports -> Dreq],
            hit : [Ports -> BOOLEAN], line : [Ports -> Ways],
            meta : [Ports -> [Ways -> Meta]], op_line : Ways, dreq_en : BOOLEAN]
<1>1. acc.req \in [Ports -> Dreq]
  BY AccessTypes
<1>2. \A p \in Ports : acc.req[p] \in Dreq /\ acc.req[p].index \in Sets
  BY <1>1 DEF Dreq
<1>3. [p \in Ports |-> Hit(acc.req[p])] \in [Ports -> BOOLEAN]
  BY DEF Hit
<1>4. [p \in Ports |-> HitLine(acc.req[p])] \in [Ports -> Ways]
  BY DEF HitLine, Ways
<1>5. [p \in Ports |-> meta_ram[acc.req[p].index]] \in [Ports -> [Ways -> Meta]]
  BY <1>2 DEF TypeOK, Meta
<1>6. InstOperLine(acc) \in Ways
  BY <1>2, LowestBit DEF InstOperLine, HitLine, Ways, Ports
<1>7. CacheOper(acc) \in Operations \union {"REQ", "NULL"}
  BY DEF CacheOper, Operations
<1>8. DreqEn(acc) \in BOOLEAN
  BY DEF DreqEn
<1>9. QED
  BY <1>1, <1>3, <1>4, <1>5, <1>6, <1>7, <1>8 DEF Handle

(* The line a burst is for has an address. *)
LEMMA BeatType ==
  ASSUME TypeOK, RestTypeOK, Fetching \/ WritingBack
  PROVE  /\ CbusTag \in Tags /\ CbusIndex \in Sets
         /\ \A o \in Offsets : At(CbusTag, CbusIndex, o) \in Addr
         /\ BeatAddr = At(CbusTag, CbusIndex, bus_beat) /\ BeatAddr \in Addr
<1>1. /\ Port \in {0, 1, 2} /\ (Fetching => Port \in Ports)
      /\ ~(Fetching /\ WritingBack)
  BY PhaseCases DEF Ports
<1>2. \A p \in Ports : /\ h.req[p].index \in Sets /\ h.req[p].tag \in Tags
                      /\ \A w \in Ways : h.meta[p][w].tag \in Tags
  BY RequestTypes DEF Index, Tag, Meta
<1>3. CbusIndex \in Sets
  BY <1>1, <1>2 DEF CbusIndex, Ports
<1>4. CbusTag \in Tags
  <2>1. CASE Fetching
    BY <1>1, <1>2, <2>1 DEF CbusTag
  <2>2. CASE WritingBack /\ Port = 0
    <3>1. h.op_line \in Ways
      BY RequestTypes
    <3>2. QED
      BY <1>1, <1>2, <2>2, <3>1 DEF CbusTag, Ports
  <2>3. CASE WritingBack /\ Port # 0
    <3>1. Port \in Ports
      BY <1>1, <2>3 DEF Ports
    <3>2. QED
      BY <1>1, <1>2, <2>3, <3>1, ReplaceLineType DEF CbusTag
  <2>4. QED
    BY <2>1, <2>2, <2>3
<1>5. QED
  BY <1>3, <1>4 DEF At, Addr, BeatAddr, TypeOK

(* The metadata, their dirty bits and the replacement bits. *)
LEMMA MetaTypes ==
  ASSUME TypeOK, RestTypeOK, NEW ready \in BOOLEAN,
         MetaClock, DirtyClock, PlruClock(Resp(ready))
  PROVE  /\ meta_ram' \in [Sets -> [Ways -> Meta]]
         /\ cache_dirty' \in [Ways -> [Sets -> BOOLEAN]]
         /\ plru' \in [Sets -> Ways]
<1>0. /\ meta_ram \in [Sets -> [Ways -> Meta]]
      /\ cache_dirty \in [Ways -> [Sets -> BOOLEAN]]
      /\ plru \in [Sets -> Ways]
  BY DEF TypeOK, Meta
<1>1. \A p \in Ports : h.req[p].index \in Sets /\ h.req[p].tag \in Tags
                       /\ h.meta[p] \in [Ways -> Meta] /\ h.line[p] \in Ways
  BY RequestTypes DEF Index, Tag
<1>2. h.op_line \in Ways
  BY RequestTypes
<1>3. Fetching => Port \in Ports
  BY PhaseCases
<1>4. \A p \in Ports : ReplaceLine(p) \in Ways
  BY ReplaceLineType
<1>5. meta_ram' \in [Sets -> [Ways -> Meta]]
  <2>1. [h.meta[1] EXCEPT ![h.op_line].valid = FALSE] \in [Ways -> Meta]
    BY <1>1, <1>2 DEF Meta, Ports
  <2>2. Fetching =>
          [h.meta[Port] EXCEPT ![ReplaceLine(Port)] =
                 [valid |-> TRUE, tag |-> h.req[Port].tag]] \in [Ways -> Meta]
    BY <1>1, <1>3, <1>4 DEF Meta
  <2>3. \A i \in Sets, m \in [Ways -> Meta] :
          [meta_ram EXCEPT ![i] = m] \in [Sets -> [Ways -> Meta]]
    BY <1>0
  <2>4. h.req[1].index \in Sets /\ h.meta[1] \in [Ways -> Meta]
        /\ (Fetching => h.req[Port].index \in Sets)
    BY <1>1, <1>3 DEF Ports
  <2>5. QED
    BY <1>0, <2>1, <2>2, <2>3, <2>4 DEF MetaClock
<1>6. cache_dirty' \in [Ways -> [Sets -> BOOLEAN]]
  <2>1. \A w \in Ways, i \in Sets, b \in BOOLEAN :
          [cache_dirty EXCEPT ![w][i] = b] \in [Ways -> [Sets -> BOOLEAN]]
    BY <1>0
  <2>2. h.line[1] \in Ways /\ h.line[2] \in Ways /\ h.req[1].index \in Sets
        /\ h.req[2].index \in Sets
    BY <1>1 DEF Ports
  <2>3. Fetching => h.req[Port].index \in Sets /\ ReplaceLine(Port) \in Ways
    BY <1>1, <1>3, <1>4
  <2>4. QED
    BY <1>0, <2>1, <2>2, <2>3 DEF DirtyClock
<1>7. plru' \in [Sets -> Ways]
  <2>1. \A i \in Sets, w \in Ways : [plru EXCEPT ![i] = 1 - w] \in [Sets -> Ways]
    BY <1>0 DEF Ways
  <2>2. \A p \in Ports : (IF CacheHit(p) THEN h.line[p] ELSE ReplaceLine(p)) \in Ways
    BY <1>1, <1>4
  <2>3. \A p \in Ports :
          [plru EXCEPT ![h.req[p].index] =
             1 - (IF CacheHit(p) THEN h.line[p] ELSE ReplaceLine(p))] \in [Sets -> Ways]
    BY <1>1, <2>1, <2>2
  <2>4. QED
    BY <1>0, <2>3 DEF PlruClock, Ports
<1>8. QED
  BY <1>5, <1>6, <1>7

(* Words offered to the RAM and read from it. *)
LEMMA WordTypes ==
  ASSUME TypeOK, RestTypeOK
  PROVE  /\ OldWord \in Word
         /\ \A p \in Ports : PortDataW(p) \in Word /\ RamWord(p) \in Word
         /\ \A word \in Word : Aged(word) \in Word
<1>1. OldWord \in Word
  BY DEF OldWord, Word
<1>2. \A p \in Ports, l \in Lanes : Offered(p, l) \in Addr \union {Old}
  BY RequestTypes DEF Offered
<1>3. \A p \in Ports : PortDataW(p) \in Word
  <2>1. Fetching => BeatAddr \in Addr
    BY BeatType
  <2>2. QED
    BY <1>2, <2>1 DEF PortDataW, Word, Ports
<1>4. \A p \in Ports : RamWord(p) \in Word
  <2> TAKE p \in Ports
  <2>1. /\ PortAddr(p).line \in Ways /\ PortAddr(p).index \in Sets
        /\ PortAddr(p).offset \in Offsets
    BY RequestTypes DEF PortAddr, PortLine, TypeOK, RestTypeOK, Index
  <2>2. data_ram[PortAddr(p).line][PortAddr(p).index][PortAddr(p).offset] \in Word
    BY <2>1 DEF TypeOK
  <2>3. QED
    BY <2>2 DEF RamWord, Word
<1>5. \A word \in Word : Aged(word) \in Word
  BY DEF Aged, Word
<1>6. QED
  BY <1>1, <1>3, <1>4, <1>5

(* The words in the RAM, in memory and on the read ports have their types. *)
LEMMA DataTypes ==
  ASSUME TypeOK, RestTypeOK, NEW ready \in BOOLEAN, RamClock, MemClock(Resp(ready))
  PROVE  /\ data_ram' \in [Ways -> [Sets -> [Offsets -> Word]]]
         /\ port_data_r' \in [Ports -> Word]
         /\ mem_current' \in [Addr -> [Lanes -> BOOLEAN]]
<1>1. port_data_r' \in [Ports -> Word]
  BY WordTypes DEF RamClock
<1>2. \A w \in Ways, s \in Sets, o \in Offsets : Aged(data_ram[w][s][o]) \in Word
  BY WordTypes DEF TypeOK
<1>3. PortDataW(1) \in Word /\ PortDataW(2) \in Word
  BY WordTypes DEF Ports
<1>4. data_ram' \in [Ways -> [Sets -> [Offsets -> Word]]]
  BY <1>2, <1>3 DEF RamClock, Word
<1>5. mem_current' \in [Addr -> [Lanes -> BOOLEAN]]
  BY DEF MemClock, RestTypeOK
<1>6. QED
  BY <1>1, <1>4, <1>5

(* The registers of the FSM and of the bus. *)
LEMMA FsmTypes ==
  ASSUME CacheInv, NEW ready \in BOOLEAN, ready => bus_busy,
         FsmClock(Resp(ready)), BusClock(Resp(ready)), EndedClock
  PROVE  /\ state' \in PhaseType
         /\ miss_addr' \in [line : Ways, index : Sets, offset : Offsets]
         /\ offset_count' \in Offsets /\ buffer_offset' \in Offsets
         /\ buffer' \in [Offsets -> Word] /\ delay_counter' \in BOOLEAN
         /\ bus_beat' \in Offsets /\ bus_busy' \in BOOLEAN
         /\ ended' \subseteq PhaseType
<1> DEFINE resp == Resp(ready)
<1>0. /\ TypeOK /\ RestTypeOK /\ state \in PhaseType
      /\ miss_addr \in [line : Ways, index : Sets, offset : Offsets]
      /\ offset_count \in Offsets /\ buffer_offset \in Offsets
      /\ buffer \in [Offsets -> Word] /\ delay_counter \in BOOLEAN
      /\ ended \subseteq PhaseType /\ 0 \in Offsets
  BY PhaseCases, GeometryAssumption DEF CacheInv, TypeOK, RestTypeOK, Offsets
<1>1. ended' \subseteq PhaseType
  BY <1>0 DEF EndedClock
<1>2. bus_busy' \in BOOLEAN
  BY DEF BusClock
<1>3. bus_beat' \in Offsets
  <2>1. resp.ready /\ ~resp.last /\ state[1] # "UNCACHE" => bus_beat + 1 \in Offsets
    <3>1. bus_beat \in Offsets /\ LineWords \in Nat \ {0}
      BY GeometryAssumption DEF CacheInv, TypeOK
    <3>2. QED
      BY <3>1, LastBeat DEF Offsets
  <2>2. QED
    BY <1>0, <2>1, LastBeat DEF BusClock, TypeOK
<1>4. NextOffset \in Offsets /\ (offset_count + 1) % LineWords \in Offsets
  BY <1>0, Successor DEF NextOffset
<1>5. \A o \in Offsets : [miss_addr EXCEPT !.offset = o] \in
                           [line : Ways, index : Sets, offset : Offsets]
  BY <1>0
<1>6. CASE en /\ UNCHANGED fsmVars
  BY <1>0, <1>1, <1>2, <1>3, <1>6 DEF fsmVars
<1>7. CASE FsmIdle
  <2>0. h.op_line \in Ways /\ \A p \in Ports : Index(p) \in Sets /\ ReplaceLine(p) \in Ways
    BY <1>0, RequestTypes, ReplaceLineType
  <2>2. \A p \in Ports : FsmPort(p) =>
           /\ miss_addr' \in [line : Ways, index : Sets, offset : Offsets]
           /\ offset_count' \in Offsets /\ state' \in PhaseType
    BY <1>0, <2>0, PhaseNames DEF FsmPort, FsmStart, Index
  <2>3. FsmStay \/ FsmUncache(1) \/ FsmUncache(2) =>
           /\ miss_addr' \in [line : Ways, index : Sets, offset : Offsets]
           /\ offset_count' \in Offsets /\ state' \in PhaseType
    BY <1>0, PhaseNames DEF FsmStay, FsmUncache, Ports
  <2>4. \/ FsmStay \/ FsmUncache(1) \/ FsmUncache(2) \/ FsmPort(1) \/ FsmPort(2)
        \/ FsmStart(Writeback(0), h.op_line, h.req[1].index)
        \/ FsmStart(Store, h.op_line, h.req[1].index)
    BY <1>7 DEF FsmIdle
  <2>5. /\ miss_addr' \in [line : Ways, index : Sets, offset : Offsets]
        /\ offset_count' \in Offsets /\ state' \in PhaseType
    BY <1>0, <2>0, <2>2, <2>3, <2>4, PhaseNames DEF FsmStart, Index, Ports
  <2>6. QED
    BY <1>0, <1>1, <1>2, <1>3, <1>7, <2>5 DEF FsmIdle
<1>8. CASE FsmFetch(resp) \/ FsmUncached(resp) \/ FsmStore
  BY <1>0, <1>1, <1>2, <1>3, <1>4, <1>5, <1>8, PhaseNames
     DEF FsmFetch, FsmUncached, FsmStore
<1>9. CASE FsmWriteback(resp)
  <2>1. state' \in PhaseType
    BY <1>0, <1>9, PhaseNames, PhaseCases DEF FsmWriteback, Ports
  <2>2. buffer' \in [Offsets -> Word]
    <3>1. port_data_r[2] \in Word /\ OldWord \in Word
      BY <1>0, WordTypes DEF RestTypeOK, Ports
    <3>2. QED
      BY <1>0, <1>9, <3>1 DEF FsmWriteback
  <2>3. /\ miss_addr' \in [line : Ways, index : Sets, offset : Offsets]
        /\ offset_count' \in Offsets /\ buffer_offset' \in Offsets
        /\ delay_counter' \in BOOLEAN
    BY <1>0, <1>4, <1>5, <1>9 DEF FsmWriteback
  <2>4. QED
    BY <1>1, <1>2, <1>3, <2>1, <2>2, <2>3
<1>10. QED
  BY <1>6, <1>7, <1>8, <1>9 DEF FsmClock

(* When the pipeline goes on the FSM is idle. *)
LEMMA IdleAtEnd ==
  ASSUME CacheInv, NEW acc \in Accesses \union {NoAccess}, NEW ready \in BOOLEAN,
         Clock(acc, ready), en'
  PROVE  state' = Idle
<1>1. ready => bus_busy
  BY DEF Clock
<1>2. CASE en
  <2>1. state = Idle
    BY <1>2 DEF CacheInv, TypeOK
  <2>2. QED
    BY <1>2, <2>1 DEF Clock, FsmClock, FsmIdle, FsmFetch, FsmWriteback,
       FsmUncached,
         FsmStore, fsmVars
<1>3. CASE ~en
  <2>1. Finish(Resp(ready)) /\ FsmClock(Resp(ready))
    BY <1>3, Waiting DEF Clock
  <2>2. CASE Fetching \/ state[1] = "UNCACHE"
    <3>1. Resp(ready).last /\ Resp(ready).ready
      BY <1>1, <1>3, <2>1, <2>2, FinishFacts, PhaseNames, LastBeat, PhaseCases
         DEF CacheInv
    <3>2. QED
      BY <1>3, <2>1, <2>2, <3>1, PhaseCases, PhaseNames
         DEF CacheInv, FsmClock, FsmIdle, FsmFetch, FsmWriteback, FsmUncached, FsmStore
  <2>3. CASE h.oper = "WRITEBACK_INVALID" /\ ~WbDirty /\ state = Idle
    BY <1>3, <2>1, <2>3, PhaseCases
       DEF CacheInv, FsmClock, FsmIdle, FsmFetch, FsmWriteback, FsmUncached, FsmStore,
           FsmStay, Store, Idle
  <2>4. CASE Resp(ready).last /\ state = Writeback(0)
    BY <1>3, <2>1, <2>4, PhaseNames, PhaseCases
       DEF CacheInv, FsmClock, FsmIdle, FsmFetch, FsmWriteback, FsmUncached, FsmStore, Port
  <2>5. CASE miss_addr.offset = LineWords - 1 /\ state = Store
    BY <1>3, <2>1, <2>5, PhaseNames, PhaseCases
       DEF CacheInv, FsmClock, FsmIdle, FsmFetch, FsmWriteback, FsmUncached, FsmStore
  <2>6. QED
    BY <1>1, <1>3, <2>1, <2>2, <2>3, <2>4, <2>5, FinishFacts
<1>4. QED
  BY <1>2, <1>3 DEF CacheInv, TypeOK

(* Every cycle keeps the types. *)
LEMMA TypeStep ==
  ASSUME CacheInv, NEW acc \in Accesses \union {NoAccess}, NEW ready \in BOOLEAN,
         Clock(acc, ready)
  PROVE  TypeOK' /\ RestTypeOK'
<1>1. /\ ready => bus_busy
      /\ TypeOK /\ RestTypeOK /\ MetaClock /\ DirtyClock /\ PlruClock(Resp(ready))
      /\ FsmClock(Resp(ready)) /\ BusClock(Resp(ready)) /\ EndedClock
      /\ RamClock /\ MemClock(Resp(ready)) /\ EnClock(acc, Resp(ready))
      /\ ReplaceRegClock(Resp(ready))
  BY DEF Clock, CacheInv
<1>2. en' \in BOOLEAN /\ finish_reg' \in BOOLEAN
  BY <1>1 DEF EnClock, DreqEn, Finish
<1>3. h' \in [oper : Operations \union {"REQ", "NULL"}, req : [Ports -> Dreq],
              hit : [Ports -> BOOLEAN], line : [Ports -> Ways],
              meta : [Ports -> [Ways -> Meta]], op_line : Ways, dreq_en : BOOLEAN]
  BY <1>1, LatchType DEF EnClock, RestTypeOK
<1>4. replace_line_reg' \in [Ports -> Ways]
  BY <1>1, ReplaceLineType DEF ReplaceRegClock, RestTypeOK, Ports
<1>5. TypeOK'
  BY <1>1, <1>2, MetaTypes, DataTypes, FsmTypes, IdleAtEnd DEF TypeOK, Meta,
     PhaseType
<1>6. RestTypeOK'
  BY <1>1, <1>3, <1>4, DataTypes, FsmTypes DEF RestTypeOK
<1>7. QED
  BY <1>5, <1>6

-----------------------------------------------------------------------------
(* The FSM, the latch and the bus. *)

(* Which of the FSM's actions a cycle takes is told by its phase. *)
LEMMA FsmByPhase ==
  ASSUME CacheInv, NEW ready \in BOOLEAN, FsmClock(Resp(ready))
  PROVE  /\ en => state = Idle /\ UNCHANGED fsmVars
         /\ ~en /\ state = Idle => FsmIdle
         /\ ~en /\ state = Store => FsmStore
         /\ Fetching => ~en /\ FsmFetch(Resp(ready))
         /\ WritingBack => ~en /\ FsmWriteback(Resp(ready))
         /\ state[1] = "UNCACHE" => ~en /\ FsmUncached(Resp(ready))
<1>1. en => state = Idle
  BY DEF CacheInv, TypeOK
<1>2. QED
  BY <1>1, PhaseCases, PhaseNames
     DEF CacheInv, FsmClock, FsmIdle, FsmFetch, FsmWriteback, FsmUncached, FsmStore

(* The phases that start from idle. *)
LEMMA FsmStarts ==
  ASSUME CacheInv, NEW ready \in BOOLEAN, FsmClock(Resp(ready)), ~en, state = Idle
  PROVE  \/ FsmStay
         \/ /\ h.oper = "WRITEBACK_INVALID" /\ WbDirty
            /\ FsmStart(Writeback(0), h.op_line, h.req[1].index)
         \/ /\ h.oper = "INDEX_STORE"
            /\ FsmStart(Store, h.op_line, h.req[1].index)
         \/ /\ h.oper = "REQ"
            /\ \/ FsmUncache(1) /\ Uncached(1)
               \/ FsmPort(1) /\ Todo1
               \/ /\ FsmUncache(2) /\ Uncached(2)
                  /\ (Uncached(1) => Uncache(1) \in ended) /\ ~Todo1
               \/ FsmPort(2) /\ Todo2 /\ (Uncached(1) => Uncache(1) \in ended) /\ ~Todo1
<1>1. FsmIdle
  BY FsmByPhase
<1>2. QED
  BY <1>1 DEF FsmIdle

(* What the latch says when an access has just been looked up. *)
LEMMA NewLatch ==
  ASSUME CacheInv, Supported, en, NEW acc \in Accesses \union {NoAccess},
         NEW ready \in BOOLEAN, Clock(acc, ready)
  PROVE  LookedUp'
<1> DEFINE r == acc.req
<1>1. /\ h' = Handle(acc) /\ en' = DreqEn(acc) /\ Presents(acc)
  BY DEF Clock, EnClock
<1>2. /\ h'.oper = CacheOper(acc) /\ h'.req = r /\ h'.op_line = InstOperLine(acc)
      /\ \A p \in Ports : /\ h'.hit[p] = Hit(r[p]) /\ h'.line[p] = HitLine(r[p])
                          /\ h'.meta[p] = meta_ram[r[p].index]
  BY <1>1 DEF Handle
<1>3. /\ \A p \in Ports : r[p] \in Dreq /\ r[p].index \in Sets
      /\ meta_ram \in [Sets -> [Ways -> Meta]] /\ 1 \in Ports /\ 2 \in Ports
      /\ acc.inst = "D_INDEX_STORE_TAG" => LineWords > 1
  BY AccessTypes DEF Dreq, CacheInv, TypeOK, Meta, Ports
<1>4. \A p \in Ports : \A w \in Ways :
        w \in HitWays(r[p]) <=> meta_ram[r[p].index][w] = LineOf(r[p].tag)
  <2> TAKE p \in Ports
  <2> TAKE w \in Ways
  <2>1. meta_ram[r[p].index][w] \in Meta
    BY <1>3
  <2>2. \A m \in Meta : m = LineOf(r[p].tag) <=> m.valid /\ m.tag = r[p].tag
    BY DEF Meta, LineOf
  <2>3. QED
    BY <2>1, <2>2 DEF HitWays
<1>5. \A p \in Ports : Hit(r[p]) = (\E w \in Ways : meta_ram[r[p].index][w] = LineOf(r[p].tag))
  BY <1>4 DEF Hit, HitWays
<1>6. \A p \in Ports : Hit(r[p]) =>
        HitLine(r[p]) \in Ways /\ meta_ram[r[p].index][HitLine(r[p])] = LineOf(r[p].tag)
  BY <1>4, <1>5 DEF HitLine, Ways
<1>7. \A p \in Ports : /\ h'.hit[p] = (\E w \in Ways : h'.meta[p][w] = LineOf(h'.req[p].tag))
                       /\ h'.hit[p] => h'.meta[p][h'.line[p]] = LineOf(h'.req[p].tag)
  <2> TAKE p \in Ports
  <2>1. /\ h'.hit[p] = Hit(r[p]) /\ h'.line[p] = HitLine(r[p])
        /\ h'.meta[p] = meta_ram[r[p].index] /\ h'.req[p] = r[p]
    BY <1>2
  <2>2. h'.hit[p] = (\E w \in Ways : h'.meta[p][w] = LineOf(h'.req[p].tag))
    BY <1>5, <2>1
  <2>3. h'.hit[p] => h'.meta[p][h'.line[p]] = LineOf(h'.req[p].tag)
    BY <1>6, <2>1
  <2>4. QED
    BY <2>2, <2>3
<1>8. r[1].index = r[2].index /\ r[1].tag = r[2].tag => HitLine(r[1]) = HitLine(r[2])
  BY DEF HitLine, HitWays
<1>9. CacheOper(acc) = "REQ" => Served(r)
  <2>1. CacheOper(acc) = "REQ" => acc.inst = "D_UNKNOWN"
    BY DEF CacheOper
  <2>2. Served(NoAccess.req)
    BY DEF Served, NoAccess, ZeroReq, BothCached, Ports
  <2>3. QED
    BY <2>1, <2>2 DEF Supported, AllServed
<1>10. CacheOper(acc) = "INVALID" => en' /\ meta_ram[r[1].index][InstOperLine(acc)].valid
  <2>1. CacheOper(acc) = "INVALID" => acc.inst = "D_HIT_INVALID" /\ Hit(r[1])
    BY DEF CacheOper
  <2>2. acc.inst = "D_HIT_INVALID" => DreqEn(acc) /\ InstOperLine(acc) = HitLine(r[1])
    BY DEF DreqEn, InstOperLine
  <2>3. Hit(r[1]) => meta_ram[r[1].index][HitLine(r[1])].valid
    <3>1. LineOf(r[1].tag).valid
      BY DEF LineOf
    <3>2. QED
      BY <1>3, <1>6, <3>1
  <2>4. QED
    BY <1>1, <2>1, <2>2, <2>3
<1>11. CacheOper(acc) = "INDEX_STORE" =>
         LineWords > 1 /\ ~meta_ram[r[1].index][InstOperLine(acc)].valid
  <2>1. CacheOper(acc) = "INDEX_STORE" => acc.inst = "D_INDEX_STORE_TAG"
    BY DEF CacheOper
  <2>2. acc.inst = "D_INDEX_STORE_TAG" => InstOperLine(acc) = GetLine(r[1])
    BY DEF InstOperLine
  <2>3. QED
    BY <1>1, <1>3, <2>1, <2>2 DEF Presents
<1>12. /\ (h'.oper = "REQ") = (CacheOper(acc) = "REQ")
       /\ (h'.oper = "INVALID") = (CacheOper(acc) = "INVALID")
       /\ (h'.oper = "INDEX_STORE") = (CacheOper(acc) = "INDEX_STORE")
       /\ h'.req[1] = r[1] /\ h'.req[2] = r[2] /\ h'.req = r
       /\ h'.meta[1] = meta_ram[r[1].index] /\ h'.meta[2] = meta_ram[r[2].index]
       /\ h'.line[1] = HitLine(r[1]) /\ h'.line[2] = HitLine(r[2])
       /\ h'.op_line = InstOperLine(acc)
  BY <1>2, <1>3
<1>13. (h.oper = "REQ" => Served(h.req))'
  BY <1>9, <1>12
<1>14. /\ (IndexEqual => h.meta[1] = h.meta[2])'
       /\ (IndexEqual /\ Tag(1) = Tag(2) => h.line[1] = h.line[2])'
  BY <1>8, <1>12 DEF IndexEqual, Tag
<1>15. /\ (h.oper = "INVALID" => en /\ h.meta[1][h.op_line].valid)'
       /\ (h.oper = "INDEX_STORE" => ~h.meta[1][h.op_line].valid /\ LineWords > 1)'
  BY <1>10, <1>11, <1>12
<1>16. QED
  BY <1>7, <1>13, <1>14, <1>15 DEF LookedUp, Tag

(* What the latch says of the look-up stays right. *)
LEMMA LookedUpStep ==
  ASSUME CacheInv, Supported, NEW acc \in Accesses \union {NoAccess},
         NEW ready \in BOOLEAN, Clock(acc, ready)
  PROVE  LookedUp'
<1>1. CASE en
  BY <1>1, NewLatch
<1>2. CASE ~en
  <2>1. h' = h /\ h.oper # "INVALID" /\ LookedUp
    BY <1>2, Waiting DEF CacheInv
  <2>2. QED
    BY <2>1 DEF LookedUp, IndexEqual, Tag
<1>3. QED
  BY <1>1, <1>2

(* Every cycle keeps the flags in order. *)
LEMMA FlagsStep ==
  ASSUME CacheInv, NEW acc \in Accesses \union {NoAccess}, NEW ready \in BOOLEAN,
         Clock(acc, ready)
  PROVE  Flags'
<1>1. CASE en
  <2>1. /\ h' = Handle(acc) /\ en' = DreqEn(acc) /\ finish_reg' = Finish(Resp(ready))
        /\ Presents(acc) /\ state = Idle
        /\ ended' = IF finish_reg THEN {} ELSE ended
    BY <1>1 DEF Clock, EnClock, EndedClock, CacheInv, TypeOK
  <2>2. Finish(Resp(ready)) => en'
    <3>1. FinishState # Idle
      BY DEF FinishState, Idle, Fetch, Uncache
    <3>2. Finish(Resp(ready)) => h.oper \notin {"REQ", "NULL"}
      BY <2>1, <3>1 DEF Finish
    <3>3. DreqEn(NoAccess)
      BY DEF DreqEn, NoAccess, ZeroReq
    <3>4. QED
      BY <1>1, <2>1, <3>2, <3>3 DEF Presents
  <2>3. h'.dreq_en = en'
    BY <2>1 DEF Handle
  <2>4. ended' = {}
    BY <1>1, <2>1 DEF CacheInv, Flags
  <2>5. QED
    BY <2>1, <2>2, <2>3, <2>4 DEF Flags
<1>2. CASE ~en
  BY <1>2, Waiting DEF CacheInv, Flags
<1>3. QED
  BY <1>1, <1>2

(* Every cycle keeps the bus in step with the FSM. *)
LEMMA BusInStepStep ==
  ASSUME CacheInv, NEW acc \in Accesses \union {NoAccess}, NEW ready \in BOOLEAN,
         Clock(acc, ready)
  PROVE  BusInStep'
<1> DEFINE resp == Resp(ready)
<1>1. /\ ready => bus_busy
      /\ FsmClock(resp) /\ BusClock(resp)
      /\ BusInStep /\ TypeOK
  BY DEF Clock, CacheInv
<1>2. /\ resp.ready = ready /\ resp.last \in BOOLEAN
      /\ resp.last => ready /\ bus_busy
      /\ bus_busy' = (DcreqValid /\ ~resp.last)
      /\ bus_beat' = IF ready /\ ~resp.last THEN bus_beat + 1
                     ELSE IF resp.last THEN 0 ELSE bus_beat
      /\ bus_busy => DcreqValid
      /\ ~bus_busy => bus_beat = 0
  BY <1>1, LastBeat DEF BusClock, BusInStep
<1>3. ~bus_busy' => bus_beat' = 0
  BY <1>1, <1>2
<1>4. CASE state \in {Idle, Store}
  <2>1. ~bus_busy /\ ~ready /\ bus_beat = 0 /\ ~resp.last /\ ~DcreqValid
    BY <1>1, <1>2, <1>4, LastBeat, PhaseNames DEF DcreqValid, Fetching,
       WritingBack
  <2>2. ~bus_busy' /\ bus_beat' = 0
    BY <1>2, <2>1
  <2>3. CASE en
    <3>1. state' = Idle /\ miss_addr'.offset = 0
      BY <1>1, <2>3, FsmByPhase DEF fsmVars, BusInStep
    <3>2. QED
      BY <2>2, <3>1, PhaseNames DEF BusInStep, Fetching
  <2>4. CASE ~en /\ state = Idle
    <3>1. miss_addr'.offset = 0
      <4>1. miss_addr.offset = 0
        BY <1>1, <2>4 DEF BusInStep
      <4>2. QED
        BY <1>1, <2>4, <4>1, FsmStarts DEF FsmStay, FsmStart, FsmPort,
           FsmUncache
    <3>2. QED
      BY <2>2, <3>1 DEF BusInStep
  <2>5. CASE ~en /\ state = Store
    <3>1. /\ state' = IF miss_addr.offset = LineWords - 1 THEN Idle ELSE Store
          /\ miss_addr' = [miss_addr EXCEPT !.offset = NextOffset]
      BY <1>1, <2>5, FsmByPhase DEF FsmStore
    <3>2. miss_addr.offset \in Offsets /\ miss_addr'.offset = NextOffset
          /\ LineWords \in Nat \ {0}
      BY <1>1, <3>1, GeometryAssumption DEF TypeOK
    <3>3. state' = Idle => miss_addr'.offset = 0
      <4>1. CASE miss_addr.offset = LineWords - 1
        BY <3>2, <4>1, Successor DEF NextOffset
      <4>2. CASE miss_addr.offset # LineWords - 1
        BY <3>1, <4>2 DEF Idle, Store
      <4>3. QED
        BY <4>1, <4>2
    <3>4. QED
      BY <2>2, <3>1, <3>3, PhaseNames DEF BusInStep, Fetching
  <2>6. QED
    BY <1>1, <1>4, <2>3, <2>4, <2>5 DEF CacheInv, TypeOK
<1>5. CASE Fetching
  <2>1. /\ state' = IF ready /\ resp.last THEN Idle ELSE state
        /\ miss_addr' = IF ready THEN [miss_addr EXCEPT !.offset = NextOffset] ELSE miss_addr
    BY <1>1, <1>2, <1>5, FsmByPhase DEF FsmFetch
  <2>2. /\ miss_addr.offset = bus_beat /\ bus_beat \in Offsets /\ LineWords \in Nat \ {0}
        /\ resp.last <=> ready /\ bus_beat = LineWords - 1
        /\ state[1] # "UNCACHE" /\ state # Idle /\ state[1] = "FETCH"
    BY <1>1, <1>5, LastBeat, PhaseCases, GeometryAssumption DEF BusInStep,
       TypeOK, Fetching
  <2>3. miss_addr'.offset = bus_beat'
    <3>1. CASE ~ready
      BY <1>2, <2>1, <2>2, <3>1
    <3>2. CASE ready
      <4>1. miss_addr'.offset = (bus_beat + 1) % LineWords
        BY <1>1, <2>1, <2>2, <3>2 DEF NextOffset, TypeOK
      <4>2. (bus_beat + 1) % LineWords = IF bus_beat + 1 = LineWords THEN 0 ELSE bus_beat + 1
        BY <2>2, Successor
      <4>3. bus_beat + 1 = LineWords <=> bus_beat = LineWords - 1
        BY <2>2 DEF Offsets
      <4>4. QED
        BY <1>2, <2>2, <3>2, <4>1, <4>2, <4>3
    <3>3. QED
      BY <3>1, <3>2
  <2>4. state' = Idle => bus_beat' = 0
    BY <1>2, <2>1, <2>2
  <2>5. bus_busy' => state' = state
    BY <1>2, <2>1
  <2>6. state' \in {Idle, state}
    BY <2>1
  <2>7. QED
    BY <1>3, <2>2, <2>3, <2>4, <2>5, <2>6, PhaseNames DEF BusInStep,
       DcreqValid, Fetching
<1>6. CASE WritingBack
  <2>1. /\ state' = IF ~resp.last THEN state ELSE IF Port = 0 THEN Idle ELSE Fetch(Port)
        /\ miss_addr' = [miss_addr EXCEPT !.offset = IF resp.last THEN 0 ELSE NextOffset]
        /\ delay_counter' = TRUE
    BY <1>1, <1>6, FsmByPhase DEF FsmWriteback
  <2>2. state[1] = "WRITEBACK" /\ state # Idle
    BY <1>1, <1>6, PhaseCases DEF WritingBack
  <2>3. resp.last => miss_addr'.offset = 0 /\ bus_beat' = 0
    BY <1>1, <1>2, <2>1 DEF TypeOK
  <2>4. QED
    BY <1>2, <1>3, <2>1, <2>2, <2>3, PhaseNames
       DEF BusInStep, DcreqValid, Fetching, WritingBack
<1>7. CASE state[1] = "UNCACHE"
  <2>1. /\ state' = IF resp.last THEN Idle ELSE state
        /\ miss_addr' = miss_addr
    BY <1>1, <1>7, FsmByPhase DEF FsmUncached
  <2>2. /\ miss_addr.offset = 0 /\ bus_beat = 0 /\ resp.last = ready
    BY <1>1, <1>7, LastBeat DEF BusInStep
  <2>3. QED
    BY <1>2, <1>3, <1>7, <2>1, <2>2, PhaseNames
       DEF BusInStep, DcreqValid, Fetching, WritingBack
<1>8. QED
  BY <1>1, <1>4, <1>5, <1>6, <1>7, PhaseCases

-----------------------------------------------------------------------------
(* The phases of an access. *)

(* Two cached accesses to one set are to one line, and hit or miss alike. *)
LEMMA HitsAlike ==
  ASSUME CacheInv, h.oper = "REQ", NEW p \in Ports, NEW q \in Ports, Misses(p), CacheHit(q)
  PROVE  Index(p) # Index(q)
<1>1. /\ Served(h.req) /\ LookedUp
      /\ \A k \in Ports : h.hit[k] \in BOOLEAN
  BY RequestTypes DEF CacheInv, LookedUp
<1>2. p # q
  BY <1>1 DEF Misses, CacheHit
<1>3. BothCached(h.req)
  BY <1>2 DEF Misses, CacheHit, BothCached, Ports
<1>4. SUFFICES ASSUME Index(p) = Index(q) PROVE FALSE
  OBVIOUS
<1>5. Index(1) = Index(2) /\ Tag(1) = Tag(2)
  BY <1>1, <1>2, <1>3, <1>4 DEF Served, Index, Tag, Ports
<1>6. h.meta[1] = h.meta[2]
  BY <1>1, <1>5 DEF LookedUp, IndexEqual, Index
<1>7. h.hit[1] = h.hit[2]
  <2>1. /\ h.hit[1] = (\E w \in Ways : h.meta[1][w] = LineOf(Tag(1)))
        /\ h.hit[2] = (\E w \in Ways : h.meta[2][w] = LineOf(Tag(2)))
    BY <1>1 DEF LookedUp, Ports
  <2>2. QED
    BY <1>5, <1>6, <2>1
<1>8. QED
  BY <1>2, <1>7 DEF Misses, CacheHit, Ports

(* The way a miss goes to does not change until its refill is complete. *)
LEMMA WayStays ==
  ASSUME CacheInv, ~en, NEW acc, NEW ready \in BOOLEAN, Clock(acc, ready),
         h.oper = "REQ", NEW p \in Ports, Misses(p),
         \A q \in Ports : state = Fetch(q) => ~Resp(ready).last
  PROVE  ReplaceLine(p)' = ReplaceLine(p)
<1>1. h' = h
  BY Waiting
<1>2. plru'[Index(p)] = plru[Index(p)]
  <2>1. PlruClock(Resp(ready)) /\ plru \in [Sets -> Ways]
    BY DEF Clock, CacheInv, TypeOK
  <2>2. \A q \in Ports : Touches(q, Resp(ready)) => Index(p) # Index(q)
    BY HitsAlike DEF Touches
  <2>3. \A q \in Ports : \A w :
          Index(p) # Index(q) => [plru EXCEPT ![h.req[q].index] = w][Index(p)] = plru[Index(p)]
    BY <2>1, RequestTypes DEF Index, CacheInv
  <2>4. QED
    BY <2>1, <2>2, <2>3 DEF PlruClock, Ports
<1>3. QED
  BY <1>1, <1>2 DEF ReplaceLine, IndexEqual, Index

(* No phase is on record when an access begins. *)
LEMMA EndedCleared ==
  ASSUME CacheInv, en, EndedClock PROVE ended' = {}
BY DEF CacheInv, Flags, EndedClock, TypeOK

(* What a part of the access that is done stays done. *)
LEMMA DoneStays ==
  ASSUME CacheInv, ~en, NEW acc, NEW ready \in BOOLEAN, Clock(acc, ready)
  PROVE  /\ ended \subseteq ended' /\ (state # Idle => state \in ended')
         /\ \A x \in PhaseType : Past(x) /\ state' # x => Past(x)'
BY Waiting DEF Past

(* From one phase to the next. *)
LEMMA NextPhase ==
  ASSUME CacheInv, ~en, NEW acc, NEW ready \in BOOLEAN, Clock(acc, ready)
  PROVE  \/ state = Idle /\ state' # Idle
         \/ state' = state /\ (state \in {Idle, Store} \/ ~Resp(ready).last)
         \/ state' = Idle /\ state # Idle
         \/ /\ WritingBack /\ Port \in Ports /\ state = Writeback(Port)
            /\ Resp(ready).last /\ state' = Fetch(Port)
<1>1. FsmClock(Resp(ready))
  BY DEF Clock
<1>2. CASE state = Idle
  BY <1>2
<1>3. CASE state = Store
  BY <1>1, <1>3, FsmByPhase, PhaseNames DEF FsmStore
<1>4. CASE Fetching
  <2>1. ready => bus_busy
    BY DEF Clock
  <2>2. FsmFetch(Resp(ready)) /\ state # Idle
    BY <1>1, <1>4, FsmByPhase, PhaseCases DEF CacheInv
  <2>3. Resp(ready).last => Resp(ready).ready
    BY <2>1, LastBeat
  <2>4. QED
    BY <2>2, <2>3 DEF FsmFetch
<1>5. CASE WritingBack
  BY <1>1, <1>5, FsmByPhase, PhaseCases DEF FsmWriteback, CacheInv, Ports
<1>6. CASE state[1] = "UNCACHE"
  BY <1>1, <1>6, FsmByPhase, PhaseCases DEF FsmUncached, CacheInv
<1>7. QED
  BY <1>2, <1>3, <1>4, <1>5, <1>6, PhaseCases DEF CacheInv

(* The phase started from idle, with what it works on. *)
LEMMA StartedPhase ==
  ASSUME CacheInv, ~en, NEW acc, NEW ready \in BOOLEAN, Clock(acc, ready),
         state = Idle, state' # Idle
  PROVE  \/ /\ state' = Writeback(0) /\ h.oper = "WRITEBACK_INVALID" /\ WbDirty
            /\ miss_addr' = [line |-> h.op_line, index |-> Index(1), offset |-> 0]
            /\ offset_count' = 0
         \/ /\ state' = Store /\ h.oper = "INDEX_STORE"
            /\ miss_addr' = [line |-> h.op_line, index |-> Index(1), offset |-> 0]
         \/ \E p \in Ports :
              /\ h.oper = "REQ" /\ (p = 2 => Done(1)')
              /\ \/ state' = Uncache(p) /\ Uncached(p)
                 \/ /\ Misses(p) /\ Fetch(p) \notin ended /\ (p = 2 => ~SameLine)
                    /\ state' = IF CacheDirty(p) /\ Writeback(p) \notin ended
                                THEN Writeback(p) ELSE Fetch(p)
                    /\ miss_addr' = [line |-> ReplaceLine(p), index |-> Index(p), offset |-> 0]
                    /\ offset_count' = 0
<1>1. FsmClock(Resp(ready)) /\ h' = h /\ ended' = ended
  BY Waiting DEF Clock
<1>2. ~FsmStay
  BY DEF FsmStay
<1>3. CASE /\ FsmStart(Writeback(0), h.op_line, h.req[1].index)
           /\ h.oper = "WRITEBACK_INVALID" /\ WbDirty
  BY <1>3, PhaseNames DEF FsmStart, Index, Writeback, Store
<1>4. CASE FsmStart(Store, h.op_line, h.req[1].index) /\ h.oper = "INDEX_STORE"
  BY <1>4 DEF FsmStart, Index
<1>5. CASE h.oper = "REQ" /\ FsmUncache(1) /\ Uncached(1)
  BY <1>5 DEF FsmUncache, Ports
<1>6. ASSUME NEW p \in Ports, FsmPort(p)
      PROVE  /\ state' = IF CacheDirty(p) /\ Writeback(p) \notin ended
                         THEN Writeback(p) ELSE Fetch(p)
             /\ miss_addr' = [line |-> ReplaceLine(p), index |-> Index(p), offset |-> 0]
             /\ offset_count' = 0
  BY <1>6 DEF FsmPort, FsmStart, Index, Writeback, Store, Fetch
<1>7. CASE h.oper = "REQ" /\ FsmPort(1) /\ Todo1
  BY <1>6, <1>7 DEF Todo1, Ports
<1>8. /\ Uncached(1) => Uncache(1) \in ended
      /\ ~Todo1
      /\ state' \in {Uncache(2), Writeback(2), Fetch(2)}
      => Done(1)'
  <2>1. state' \in {Uncache(2), Writeback(2), Fetch(2)} =>
          state' # Fetch(1) /\ state' # Uncache(1)
    BY DEF Uncache, Writeback, Fetch
  <2>2. Misses(1)' = Misses(1) /\ Uncached(1)' = Uncached(1)
    BY <1>1, SameRequest DEF Ports
  <2>3. QED
    BY <1>1, <2>1, <2>2 DEF Todo1, Done, FetchedFor, Past
<1>9. CASE /\ h.oper = "REQ" /\ FsmUncache(2) /\ Uncached(2)
           /\ (Uncached(1) => Uncache(1) \in ended) /\ ~Todo1
  BY <1>8, <1>9 DEF FsmUncache, Ports
<1>10. CASE /\ h.oper = "REQ" /\ FsmPort(2) /\ Todo2
            /\ (Uncached(1) => Uncache(1) \in ended) /\ ~Todo1
  BY <1>6, <1>8, <1>10 DEF Todo2, Ports
<1>11. QED
  BY <1>1, <1>2, <1>3, <1>4, <1>5, <1>7, <1>9, <1>10, FsmStarts

(* Every cycle leaves the FSM in a phase its access needs. *)
LEMMA WorkingStep ==
  ASSUME CacheInv, NEW acc \in Accesses \union {NoAccess}, NEW ready \in BOOLEAN,
         Clock(acc, ready)
  PROVE  Working'
<1>0. /\ TypeOK /\ RestTypeOK /\ Working /\ TypeOK'
      /\ state' \in PhaseType /\ state \in PhaseType
      /\ FsmClock(Resp(ready)) /\ EndedClock
  BY TypeStep, PhaseCases DEF CacheInv, Clock, TypeOK, PhaseType
<1>1. CASE en
  <2>1. state' = Idle /\ ended' = {}
    BY <1>0, <1>1, FsmByPhase, EndedCleared DEF fsmVars
  <2>2. QED
    BY <2>1, PhaseNames DEF Working, Fetching, WritingBack, Store, Idle, Past,
       Fetch, Writeback,
       Uncache
<1>2. CASE ~en
  <2>1. h' = h
    BY <1>2, Waiting
  <2>2. /\ \A p \in Ports : /\ Misses(p)' = Misses(p) /\ Uncached(p)' = Uncached(p)
                            /\ Index(p)' = Index(p)
        /\ SameLine' = SameLine
    BY <2>1, SameRequest
  <2>3. \A p \in Ports : Past(Writeback(p))' => state' = Fetch(p) \/ Fetch(p) \in ended'
    <3> TAKE p \in Ports
    <3>1. SUFFICES ASSUME Writeback(p) \in ended', state' # Writeback(p)
                   PROVE  state' = Fetch(p) \/ Fetch(p) \in ended'
      BY DEF Past
    <3>2. CASE state = Writeback(p)
      <4>1. WritingBack /\ Port = p /\ p # 0
        BY <3>2, PhaseNames DEF WritingBack, Port, Ports
      <4>2. state' = Fetch(p)
        BY <1>0, <3>1, <3>2, <4>1, FsmByPhase DEF FsmWriteback
      <4>3. QED
        BY <4>2
    <3>3. CASE state # Writeback(p)
      <4>1. Writeback(p) \in ended
        BY <1>2, <3>1, <3>3, Waiting
      <4>2. state = Fetch(p) \/ Fetch(p) \in ended
        BY <1>0, <3>3, <4>1 DEF Working, Past
      <4>3. QED
        BY <1>2, <4>2, DoneStays, PhaseNames DEF Idle, Fetch
    <3>4. QED
      BY <3>2, <3>3
  <2>9. Fetch(2) \in ended' => ~SameLine'
    BY <1>0, <1>2, <2>2, Waiting, PhaseNames DEF Working, Fetching, Port
  <2>4. CASE state' = Idle
    BY <2>3, <2>4, <2>9, PhaseNames DEF Working, Fetching, WritingBack, Store,
       Idle, Fetch, Writeback,
       Uncache
  <2>5. CASE state = Idle /\ state' # Idle
    <3>0. ended' = ended
      BY <1>2, <2>5, Waiting
    <3>1. CASE /\ state' = Writeback(0) /\ h.oper = "WRITEBACK_INVALID" /\ WbDirty
               /\ miss_addr' = [line |-> h.op_line, index |-> Index(1), offset |-> 0]
      <4>1. WbDirty'
        <5>1. cache_dirty' = cache_dirty
          BY <3>1 DEF Clock, DirtyClock
        <5>2. QED
          BY <2>1, <3>1, <5>1 DEF WbDirty
      <4>2. /\ state'[1] = "WRITEBACK" /\ state'[2] = 0 /\ state' # Store
            /\ state' \notin {Fetch(2), Writeback(2), Uncache(2)}
        BY <3>1, PhaseNames DEF Writeback, Fetch, Uncache, Store
      <4>3. QED
        BY <2>1, <2>2, <2>3, <2>9, <3>1, <4>1, <4>2, PhaseNames
           DEF Working, Fetching, WritingBack, Port, Ports
    <3>2. CASE /\ state' = Store /\ h.oper = "INDEX_STORE"
               /\ miss_addr' = [line |-> h.op_line, index |-> Index(1), offset |-> 0]
      <4>1. /\ state'[1] = "STORE" /\ state' # Writeback(0)
            /\ state' \notin {Fetch(2), Writeback(2), Uncache(2)}
        BY <3>2, PhaseNames DEF Writeback, Fetch, Uncache, Store
      <4>2. QED
        BY <2>1, <2>2, <2>3, <2>9, <3>2, <4>1 DEF Working, Fetching,
           WritingBack, Ports
    <3>3. ASSUME NEW p \in Ports, h.oper = "REQ", p = 2 => Done(1)',
                 state' = Uncache(p), Uncached(p)
          PROVE  Working'
      <4>1. /\ state'[1] = "UNCACHE" /\ state'[2] = p /\ state' # Store /\ state' # Writeback(0)
            /\ state' \in {Fetch(2), Writeback(2), Uncache(2)} => p = 2
        BY <3>3, PhaseNames DEF Writeback, Fetch, Uncache, Store
      <4>2. QED
        BY <2>1, <2>2, <2>3, <2>9, <3>3, <4>1 DEF Working, Fetching,
           WritingBack, Port
    <3>4. ASSUME NEW p \in Ports, h.oper = "REQ", p = 2 => Done(1)',
                 Misses(p), Fetch(p) \notin ended, p = 2 => ~SameLine,
                 state' \in {Writeback(p), Fetch(p)},
                 miss_addr' = [line |-> ReplaceLine(p), index |-> Index(p), offset |-> 0]
          PROVE  Working'
      <4>1. /\ state'[1] \in {"WRITEBACK", "FETCH"} /\ state'[2] = p
            /\ state' # Store /\ state' # Writeback(0)
            /\ state' \in {Fetch(2), Writeback(2), Uncache(2)} => p = 2
        BY <3>4, PhaseNames DEF Writeback, Fetch, Uncache, Store, Ports
      <4>2. ReplaceLine(p)' = ReplaceLine(p)
        BY <1>2, <2>5, <3>4, WayStays, PhaseNames DEF Idle, Fetch
      <4>3. QED
        BY <2>1, <2>2, <2>3, <2>9, <3>0, <3>4, <4>1, <4>2 DEF Working,
           Fetching, WritingBack, Port
    <3>5. QED
      <4>1. \A p \in Ports : (IF CacheDirty(p) /\ Writeback(p) \notin ended
                              THEN Writeback(p) ELSE Fetch(p)) \in {Writeback(p), Fetch(p)}
        OBVIOUS
      <4>2. QED
        BY <1>2, <2>5, <3>1, <3>2, <3>3, <3>4, <4>1, StartedPhase
  <2>6. CASE state' = state /\ state # Idle
    <3>0. /\ ended' = ended \union {state}
          /\ state = Store \/ ~Resp(ready).last
      BY <1>2, <2>6, Waiting, NextPhase, PhaseNames DEF WritingBack
    <3>1. miss_addr'.line = miss_addr.line /\ miss_addr'.index = miss_addr.index
      <4>1. miss_addr \in [line : Ways, index : Sets, offset : Offsets]
        BY <1>0 DEF TypeOK
      <4>2. QED
        BY <1>0, <1>2, <2>6, <4>1, FsmByPhase, PhaseCases
           DEF CacheInv, FsmStore, FsmFetch, FsmWriteback, FsmUncached
    <3>2. h.oper = "REQ" \/ cache_dirty' = cache_dirty
      BY DEF Clock, DirtyClock
    <3>3. WbDirty /\ h.oper # "REQ" => WbDirty'
      BY <2>1, <3>2 DEF WbDirty
    <3>4. Fetching \/ (WritingBack /\ Port # 0) => ReplaceLine(Port)' = ReplaceLine(Port)
      <4>1. SUFFICES ASSUME Fetching \/ (WritingBack /\ Port # 0)
                     PROVE  ReplaceLine(Port)' = ReplaceLine(Port)
        OBVIOUS
      <4>2. Port \in Ports /\ h.oper = "REQ" /\ Misses(Port) /\ ~Resp(ready).last
        BY <1>0, <3>0, <4>1, PhaseCases DEF Working, Ports
      <4>3. \A p \in Ports : p = Port => ReplaceLine(p)' = ReplaceLine(p)
        BY <1>2, <4>2, WayStays
      <4>4. Port' = Port
        BY <2>6 DEF Port
      <4>5. QED
        BY <4>2, <4>3, <4>4 DEF ReplaceLine, Other, IndexEqual
    <3>5. Done(1) /\ state \in {Fetch(2), Writeback(2), Uncache(2)} => Done(1)'
      BY <2>2, <2>6, <3>0, PhaseNames DEF Done, FetchedFor, Past, Ports
    <3>6. Fetch(Port) \notin ended /\ WritingBack => Fetch(Port)' \notin ended'
      BY <2>6, <3>0, PhaseNames DEF WritingBack, Port, Fetch
    <3>7. Fetching' = Fetching /\ WritingBack' = WritingBack /\ Port' = Port
      BY <2>6 DEF Fetching, WritingBack, Port
    <3>8. QED
      <4>1. Port \in Ports \/ state \in {Store, Writeback(0)}
        BY <1>0, <2>6, PhaseCases
      <4>2. (Fetching \/ (WritingBack /\ Port # 0) =>
               /\ h.oper = "REQ" /\ Misses(Port) /\ (Port = 2 => ~SameLine)
               /\ miss_addr.line = ReplaceLine(Port) /\ miss_addr.index = Index(Port))'
        <5>1. SUFFICES ASSUME Fetching \/ (WritingBack /\ Port # 0)
                       PROVE  (/\ h.oper = "REQ" /\ Misses(Port) /\ (Port = 2 => ~SameLine)
                               /\ miss_addr.line = ReplaceLine(Port)
                               /\ miss_addr.index = Index(Port))'
          BY <3>7
        <5>2. PICK p \in Ports : p = Port
          BY <1>0, <5>1, PhaseCases DEF Ports
        <5>3. /\ h.oper = "REQ" /\ Misses(p) /\ (p = 2 => ~SameLine)
              /\ miss_addr.line = ReplaceLine(p) /\ miss_addr.index = Index(p)
          BY <1>0, <5>1, <5>2 DEF Working
        <5>4. Misses(p)' /\ ReplaceLine(p)' = ReplaceLine(p) /\ Index(p)' = Index(p)
          BY <2>2, <3>4, <3>7, <5>1, <5>2, <5>3
        <5>5. QED
          BY <2>1, <2>2, <3>1, <3>7, <5>2, <5>3, <5>4
      <4>3. (WritingBack /\ Port # 0 => Fetch(Port) \notin ended)'
        BY <1>0, <3>6, <3>7 DEF Working
      <4>4. (/\ state = Writeback(0) \/ state = Store =>
                 miss_addr.line = h.op_line /\ miss_addr.index = Index(1)
             /\ state = Writeback(0) => h.oper = "WRITEBACK_INVALID" /\ WbDirty
             /\ state = Store => h.oper = "INDEX_STORE")'
        BY <1>0, <2>1, <2>2, <2>6, <3>1, <3>3 DEF Working, Ports
      <4>5. (state[1] = "UNCACHE" => h.oper = "REQ" /\ Uncached(Port))'
        BY <1>0, <2>1, <2>6, <3>7 DEF Working, Uncached
      <4>6. (state \in {Fetch(2), Writeback(2), Uncache(2)} => Done(1))'
        BY <1>0, <2>6, <3>5 DEF Working
      <4>7. QED
        BY <2>3, <2>9, <4>2, <4>3, <4>4, <4>5, <4>6 DEF Working
  <2>7. CASE /\ WritingBack /\ Port \in Ports /\ state = Writeback(Port)
             /\ Resp(ready).last /\ state' = Fetch(Port)
    <3>0. ended' = ended \union {state} /\ h.oper = "REQ" /\ Misses(Port)
          /\ (Port = 2 => ~SameLine) /\ Fetch(Port) \notin ended
          /\ miss_addr.line = ReplaceLine(Port)
          /\ miss_addr.index = Index(Port) /\ (Port = 2 => Done(1))
      BY <1>0, <1>2, <2>7, Waiting, PhaseNames DEF Working, Ports, Writeback,
         Idle
    <3>1. miss_addr'.line = miss_addr.line /\ miss_addr'.index = miss_addr.index
      BY <1>0, <2>7, FsmByPhase DEF FsmWriteback, TypeOK
    <3>2. PICK p \in Ports : p = Port
      BY <2>7
    <3>3. ReplaceLine(p)' = ReplaceLine(p)
      BY <1>2, <2>7, <3>0, <3>2, WayStays, PhaseNames DEF Writeback, Fetch
    <3>4. p = 2 => Done(1)'
      BY <2>2, <2>7, <3>0, <3>2, PhaseNames DEF Done, FetchedFor, Past, Ports,
         Fetch, Uncache
    <3>5. /\ state'[1] = "FETCH" /\ state'[2] = p /\ state' # Store /\ state' # Writeback(0)
          /\ state' \in {Fetch(2), Writeback(2), Uncache(2)} => p = 2
      BY <2>7, <3>2, PhaseNames DEF Writeback, Fetch, Uncache, Store
    <3>6. QED
      BY <2>1, <2>2, <2>3, <2>9, <3>0, <3>1, <3>2, <3>3, <3>4, <3>5
         DEF Working, Fetching, WritingBack, Port
  <2>8. QED
    BY <1>2, <2>4, <2>5, <2>6, <2>7, NextPhase
<1>3. QED
  BY <1>1, <1>2

(* When an access ends, both ports' parts are done. *)
LEMMA AllDoneStep ==
  ASSUME CacheInv, NEW acc \in Accesses \union {NoAccess}, NEW ready \in BOOLEAN,
         Clock(acc, ready)
  PROVE  AllDone'
<1> SUFFICES ASSUME en', h'.oper = "REQ", NEW p \in Ports, h'.req[p].valid
             PROVE  CacheHit(p)' \/ Done(p)'
  BY DEF AllDone
<1>1. CASE en
  <2>1. h' = Handle(acc) /\ DreqEn(acc)
    BY <1>1 DEF Clock, EnClock
  <2>2. CacheOper(acc) = "REQ" /\ h'.req = acc.req /\ h'.hit[p] = Hit(acc.req[p])
    BY <2>1 DEF Handle
  <2>3. acc.inst = "D_UNKNOWN"
    BY <2>2 DEF CacheOper
  <2>4. ~acc.req[p].unc /\ Hit(acc.req[p])
    BY <2>1, <2>2, <2>3 DEF DreqEn
  <2>5. QED
    BY <2>2, <2>4 DEF CacheHit
<1>2. CASE ~en
  <2>1. h' = h /\ ready => bus_busy
    BY <1>2, Waiting DEF Clock
  <2>2. /\ h' = h /\ h.oper = "REQ" /\ (ready => bus_busy) /\ Finish(Resp(ready))
        /\ \A q \in Ports : /\ Misses(q)' = Misses(q) /\ Uncached(q)' = Uncached(q)
                            /\ CacheHit(q)' = CacheHit(q)
        /\ SameLine' = SameLine
    BY <1>2, Waiting, SameRequest DEF Clock
  <2>3. state = FinishState /\ (Fetching \/ state[1] = "UNCACHE") /\ state' = Idle
    BY <1>2, <2>2, FinishFacts, IdleAtEnd
  <2>4. ended' = ended \union {state}
    BY <1>2, <2>3, Waiting, PhaseNames DEF Fetching
  <2>5. \A q \in Ports : Done(q) => Done(q)'
    BY <2>2, <2>3, <2>4, PhaseNames DEF Done, FetchedFor, Past, Idle, Fetch,
       Uncache
  <2>6. \A q \in Ports : state = Uncache(q) /\ Uncached(q) => Done(q)'
    BY <2>2, <2>3, <2>4 DEF Done, Past, Idle, Uncache, Uncached, Misses
  <2>7. \A q \in Ports : state = Fetch(q) /\ Misses(q) => Done(q)'
    BY <2>2, <2>3, <2>4 DEF Done, FetchedFor, Past, Idle, Fetch, Uncached,
       Misses
  <2>8. /\ state = Fetch(2) => Done(1) /\ Misses(2)
        /\ state = Uncache(2) => Done(1) /\ Uncached(2)
        /\ state = Fetch(1) => Misses(1)
        /\ state = Uncache(1) => Uncached(1)
    BY PhaseNames DEF CacheInv, Working, Fetching, Port
  <2>9. CASE state \in {Fetch(2), Uncache(2)}
    BY <2>5, <2>6, <2>7, <2>8, <2>9 DEF Ports
  <2>10. CASE state = Uncache(1)
    <3>1. ~Uncached(2) /\ ~(Misses(2) /\ ~SameLine) /\ Done(1)'
      BY <2>3, <2>6, <2>8, <2>10 DEF FinishState, Uncache, Fetch, Ports
    <3>2. ~SameLine
      BY <2>8, <2>10 DEF SameLine, Uncached
    <3>3. Done(2)'
      BY <2>2, <3>1, <3>2 DEF Done, Ports
    <3>4. QED
      BY <3>1, <3>3 DEF Ports
  <2>11. CASE state = Fetch(1)
    <3>1. ~Uncached(2) /\ ~(Misses(2) /\ ~SameLine) /\ Done(1)'
      BY <2>3, <2>7, <2>8, <2>11 DEF FinishState, Uncache, Fetch, Ports
    <3>2. Done(2)'
      BY <2>2, <2>3, <2>4, <2>11, <3>1 DEF Done, FetchedFor, Past, Idle,
         Fetch, Ports
    <3>3. QED
      BY <3>1, <3>2 DEF Ports
  <2>12. QED
    BY <2>3, <2>9, <2>10, <2>11 DEF FinishState
<1>3. QED
  BY <1>1, <1>2

-----------------------------------------------------------------------------
(* The metadata. *)

(* Two misses of which each has a refill of its own are in two sets. *)
LEMMA MissesApart ==
  ASSUME CacheInv, h.oper = "REQ", Misses(1), Misses(2), ~SameLine
  PROVE  Index(1) # Index(2)
<1>1. Served(h.req) /\ BothCached(h.req)
  BY DEF CacheInv, LookedUp, Misses, BothCached, Ports
<1>2. QED
  BY <1>1 DEF Served, SameLine, Misses, IndexEqual, Index, Tag

(* In an access in progress only a refill changes the metadata. *)
LEMMA MetaWaiting ==
  ASSUME CacheInv, ~en, NEW acc, NEW ready \in BOOLEAN, Clock(acc, ready)
  PROVE  meta_ram' = IF Fetching
                     THEN [meta_ram EXCEPT ![Index(Port)] =
                             [h.meta[Port] EXCEPT ![miss_addr.line] = LineOf(Tag(Port))]]
                     ELSE meta_ram
<1>1. /\ h.oper \in Operations => meta_ram[Index(1)] = h.meta[1]
      /\ h.oper # "INVALID" /\ MetaClock
      /\ meta_ram \in [Sets -> [Ways -> Meta]]
      /\ Fetching => h.oper = "REQ" /\ miss_addr.line = ReplaceLine(Port)
      /\ state = Store => h.oper = "INDEX_STORE"
  BY Waiting DEF CacheInv, MetaHeld, Clock, TypeOK, Meta, Working
<1>2. Index(1) \in Sets
  BY RequestTypes DEF CacheInv, Ports
<1>3. h.oper \in Operations => [meta_ram EXCEPT ![Index(1)] = h.meta[1]] = meta_ram
  BY <1>1, <1>2
<1>4. CASE (h.oper = "WRITEBACK_INVALID" /\ ~en) \/ state = Store
  <2>1. h.oper \in Operations /\ ~Fetching
    BY <1>1, <1>4, PhaseNames DEF Operations, Fetching
  <2>2. meta_ram' = [meta_ram EXCEPT ![Index(1)] = h.meta[1]]
    BY <1>1, <1>4, <2>1 DEF MetaClock, Index
  <2>3. QED
    BY <1>3, <2>1, <2>2
<1>5. CASE ~((h.oper = "WRITEBACK_INVALID" /\ ~en) \/ state = Store)
  BY <1>1, <1>5 DEF MetaClock, Index, Tag, LineOf
<1>6. QED
  BY <1>4, <1>5

(* In an access in progress only a refill can clear a dirty bit, its own. *)
LEMMA DirtyWaiting ==
  ASSUME CacheInv, ~en, NEW acc, NEW ready \in BOOLEAN, Clock(acc, ready)
  PROVE  /\ Fetching => cache_dirty' =
              [cache_dirty EXCEPT ![miss_addr.line][Index(Port)] = h.req[Port].strobe # {}]
         /\ ~Fetching => \A w \in Ways, s \in Sets : cache_dirty[w][s] => cache_dirty'[w][s]
<1>1. /\ DirtyClock
      /\ Fetching => h.oper = "REQ" /\ miss_addr.line = ReplaceLine(Port) /\ state # Idle
      /\ cache_dirty \in [Ways -> [Sets -> BOOLEAN]]
  BY PhaseNames DEF CacheInv, Clock, TypeOK, Working, Fetching
<1>2. CASE Fetching
  BY <1>1, <1>2 DEF DirtyClock, Index
<1>3. CASE ~Fetching
  <2>1. \A p \in Ports : h.line[p] \in Ways /\ h.req[p].index \in Sets
    BY RequestTypes DEF CacheInv, Index
  <2>2. \A w \in Ways, s \in Sets, v \in Ways, i \in Sets :
          cache_dirty[w][s] => [cache_dirty EXCEPT ![v][i] = TRUE][w][s]
    BY <1>1
  <2>3. QED
    BY <1>1, <1>3, <2>1, <2>2 DEF DirtyClock, Ports
<1>4. QED
  BY <1>2, <1>3

(* When the pipeline goes on, a request can come only behind accesses that *)
(* leave the metadata as they are. *)
LEMMA MetaAccepting ==
  ASSUME CacheInv, en, NEW acc \in Accesses \union {NoAccess}, NEW ready \in BOOLEAN,
         Clock(acc, ready)
  PROVE  /\ h' = Handle(acc) /\ state' = Idle /\ ended' = {} /\ ~Fetching'
         /\ \/ acc = NoAccess /\ h'.oper = "REQ" /\ \A p \in Ports : ~h'.req[p].valid
            \/ h.oper \in {"REQ", "NULL"} /\ meta_ram' = meta_ram
<1>1. /\ h' = Handle(acc) /\ state = Idle /\ state' = Idle /\ ended' = {}
      /\ Presents(acc) /\ MetaClock
  BY FsmByPhase, EndedCleared DEF Clock, EnClock, CacheInv, TypeOK, fsmVars
<1>2. ~Fetching /\ ~Fetching' /\ state # Store
  BY <1>1, PhaseNames DEF Fetching, Idle, Store
<1>3. CASE h.oper \in {"REQ", "NULL"}
  BY <1>1, <1>2, <1>3 DEF MetaClock
<1>4. CASE h.oper \notin {"REQ", "NULL"}
  <2>1. acc = NoAccess
    BY <1>1, <1>4 DEF Presents
  <2>2. CacheOper(NoAccess) = "REQ" /\ \A p \in Ports : ~NoAccess.req[p].valid
    BY DEF CacheOper, NoAccess, ZeroReq
  <2>3. QED
    BY <1>1, <1>2, <2>1, <2>2 DEF Handle
<1>5. QED
  BY <1>1, <1>2, <1>3, <1>4

(* A line in place stays there while the other port's refill goes on. *)
LEMMA InPlaceStays ==
  ASSUME CacheInv, ~en, NEW acc, NEW ready \in BOOLEAN, Clock(acc, ready),
         NEW p \in Ports, NEW w \in Ways, InPlace(p, w),
         Fetching => Index(Port) # Index(p)
  PROVE  InPlace(p, w)'
<1>1. /\ h' = h /\ Index(p) \in Sets /\ Index(p)' = Index(p) /\ Tag(p)' = Tag(p)
      /\ meta_ram \in [Sets -> [Ways -> Meta]]
      /\ cache_dirty \in [Ways -> [Sets -> BOOLEAN]]
  BY Waiting, SameRequest, RequestTypes DEF CacheInv, TypeOK, Meta
<1>2. meta_ram'[Index(p)] = meta_ram[Index(p)]
  BY <1>1, MetaWaiting
<1>3. cache_dirty[w][Index(p)] => cache_dirty'[w][Index(p)]
  <2>1. CASE Fetching
    <3>1. cache_dirty' =
            [cache_dirty EXCEPT ![miss_addr.line][Index(Port)] = h.req[Port].strobe # {}]
      BY <2>1, DirtyWaiting
    <3>2. \A v, i, b : i # Index(p) =>
            [cache_dirty EXCEPT ![v][i] = b][w][Index(p)] = cache_dirty[w][Index(p)]
      BY <1>1
    <3>3. QED
      BY <2>1, <3>1, <3>2
  <2>2. CASE ~Fetching
    BY <1>1, <2>2, DirtyWaiting
  <2>3. QED
    BY <2>1, <2>2
<1>4. QED
  BY <1>1, <1>2, <1>3 DEF InPlace

(* The cycle that completes a refill. *)
LEMMA RefillEnds ==
  ASSUME CacheInv, ~en, NEW acc, NEW ready \in BOOLEAN, Clock(acc, ready),
         NEW p \in Ports, state = Fetch(p), state' # state
  PROVE  /\ Resp(ready).last /\ state' = Idle
         /\ replace_line_reg'[p] = miss_addr.line
         /\ p = 1 /\ SameLine => replace_line_reg'[2] = miss_addr.line
<1>1. /\ Fetching /\ Port = p /\ (ready => bus_busy)
      /\ FsmClock(Resp(ready)) /\ ReplaceRegClock(Resp(ready))
  BY PhaseNames DEF Fetching, Port, Clock
<1>2. Resp(ready).last /\ state' = Idle
  BY <1>1, FsmByPhase, LastBeat DEF FsmFetch
<1>3. miss_addr.line = ReplaceLine(p)
  BY <1>1 DEF CacheInv, Working
<1>4. Fetch(1) # Fetch(2)
  BY DEF Fetch
<1>5. QED
  BY <1>1, <1>2, <1>3, <1>4 DEF ReplaceRegClock, Ports

(* What a refill does to the metadata of its line. *)
LEMMA RefillPlaces ==
  ASSUME CacheInv, ~en, NEW acc, NEW ready \in BOOLEAN, Clock(acc, ready),
         NEW p \in Ports, state = Fetch(p)
  PROVE  /\ meta_ram'[Index(p)] = [h.meta[p] EXCEPT ![miss_addr.line] = LineOf(Tag(p))]
         /\ \A w \in Ways : w = miss_addr.line => InPlace(p, w)'
<1>1. /\ Fetching /\ Port = p /\ h' = h /\ Index(p) \in Sets /\ miss_addr.line \in Ways
      /\ Index(p)' = Index(p) /\ Tag(p)' = Tag(p) /\ h.meta[p] \in [Ways -> Meta]
      /\ meta_ram \in [Sets -> [Ways -> Meta]]
      /\ cache_dirty \in [Ways -> [Sets -> BOOLEAN]]
  BY PhaseNames, Waiting, SameRequest, RequestTypes DEF Fetching, Port,
     CacheInv, TypeOK, Meta
<1>2. meta_ram'[Index(p)] = [h.meta[p] EXCEPT ![miss_addr.line] = LineOf(Tag(p))]
  BY <1>1, MetaWaiting
<1>3. cache_dirty'[miss_addr.line][Index(p)] = (h.req[p].strobe # {})
  <2>1. cache_dirty' =
          [cache_dirty EXCEPT ![miss_addr.line][Index(p)] = h.req[p].strobe # {}]
    BY <1>1, DirtyWaiting
  <2>2. \A v \in Ways, i \in Sets : \A b : [cache_dirty EXCEPT ![v][i] = b][v][i] = b
    BY <1>1
  <2>3. QED
    BY <1>1, <2>1, <2>2
<1>4. QED
  BY <1>1, <1>2, <1>3 DEF InPlace

(* A newly latched access finds the metadata it looked up. *)
LEMMA MetaHeldAccepting ==
  ASSUME CacheInv, Supported, en, NEW acc \in Accesses \union {NoAccess},
         NEW ready \in BOOLEAN, Clock(acc, ready)
  PROVE  MetaHeld'
<1>1. /\ h' = Handle(acc) /\ ended' = {} /\ ~Fetching'
      /\ \/ acc = NoAccess /\ h'.oper = "REQ" /\ \A p \in Ports : ~h'.req[p].valid
         \/ h.oper \in {"REQ", "NULL"} /\ meta_ram' = meta_ram
  BY MetaAccepting
<1>2. \A p \in Ports : h'.meta[p] = meta_ram[h'.req[p].index]
  BY <1>1 DEF Handle
<1>3. \A p \in Ports : (h.hit[p] => h.meta[p][h.line[p]] = LineOf(Tag(p)))'
  BY LookedUpStep DEF LookedUp
<1>4. \A p \in Ports : ~FetchedFor(p)' /\ ~Past(Uncache(p))'
  BY <1>1 DEF FetchedFor, Past
<1>5. CASE h'.oper = "REQ" /\ \A p \in Ports : ~h'.req[p].valid
  BY <1>1, <1>4, <1>5 DEF MetaHeld, Operations, CacheHit, Misses, Uncached
<1>6. CASE meta_ram' = meta_ram
  <2>1. (h.oper \in Operations => meta_ram[Index(1)] = h.meta[1])'
    BY <1>2, <1>6 DEF Index, Ports
  <2>2. \A p \in Ports : (CacheHit(p) => meta_ram[Index(p)][h.line[p]] = LineOf(Tag(p)))'
    BY <1>2, <1>3, <1>6 DEF CacheHit, Index
  <2>3. \A p \in Ports : (meta_ram[Index(p)] = h.meta[p])'
    BY <1>2, <1>6 DEF Index
  <2>4. QED
    BY <1>1, <1>4, <2>1, <2>2, <2>3 DEF MetaHeld
<1>7. QED
  BY <1>1, <1>5, <1>6

(* An access in progress changes only the metadata of its own lines. *)
LEMMA MetaHeldWaiting ==
  ASSUME CacheInv, ~en, NEW acc \in Accesses \union {NoAccess},
         NEW ready \in BOOLEAN, Clock(acc, ready)
  PROVE  MetaHeld'
<1>0. /\ h' = h /\ ended' = IF state = Idle THEN ended ELSE ended \union {state}
      /\ TypeOK /\ RestTypeOK /\ MetaHeld /\ Working /\ (ready => bus_busy)
      /\ ReplaceRegClock(Resp(ready)) /\ AnswerClock(Resp(ready)) /\ FsmClock(Resp(ready))
  BY Waiting DEF CacheInv, Clock
<1>1. /\ \A p \in Ports : /\ Misses(p)' = Misses(p) /\ Uncached(p)' = Uncached(p)
                          /\ CacheHit(p)' = CacheHit(p) /\ Index(p)' = Index(p)
                          /\ Tag(p)' = Tag(p)
                          /\ Index(p) \in Sets
      /\ SameLine' = SameLine
  BY <1>0, SameRequest, RequestTypes
<1>2. /\ Fetching => Port \in Ports /\ state = Fetch(Port) /\ h.oper = "REQ" /\ Misses(Port)
                     /\ (Port = 2 => ~SameLine)
      /\ meta_ram \in [Sets -> [Ways -> Meta]]
  BY <1>0, PhaseCases DEF Working, TypeOK, Meta
<1>3. \A i \in Sets : (Fetching => Index(Port) # i) => meta_ram'[i] = meta_ram[i]
  BY <1>1, <1>2, MetaWaiting
<1>4. \A p \in Ports :
        Misses(p) /\ h.oper = "REQ" /\ Fetching /\ Port # p /\ (p = 2 => ~SameLine) =>
          Index(Port) # Index(p)
  BY <1>2, MissesApart DEF Ports
<1>5. (h.oper \in Operations => meta_ram[Index(1)] = h.meta[1])'
  <2>1. h.oper \in Operations => ~Fetching
    BY <1>2 DEF Operations
  <2>2. QED
    BY <1>0, <1>1, <1>3, <2>1 DEF MetaHeld, Ports
<1>6. ASSUME NEW p \in Ports, h.oper = "REQ", CacheHit(p)
      PROVE  meta_ram'[Index(p)][h.line[p]] = LineOf(Tag(p))
  <2>1. Fetching => Index(Port) # Index(p)
    BY <1>2, <1>6, HitsAlike
  <2>2. QED
    BY <1>0, <1>1, <1>3, <1>6, <2>1 DEF MetaHeld
<1>7. ASSUME NEW p \in Ports, h.oper = "REQ", Misses(p), Fetch(p) \notin ended',
             p = 2 => ~SameLine
      PROVE  meta_ram'[Index(p)] = h.meta[p]
  <2>1. Fetch(p) \notin ended /\ ~(Fetching /\ Port = p)
    BY <1>0, <1>2, <1>7, PhaseNames DEF Idle, Fetch
  <2>2. Fetching => Index(Port) # Index(p)
    BY <1>4, <1>7, <2>1
  <2>3. QED
    BY <1>0, <1>1, <1>3, <1>7, <2>1, <2>2 DEF MetaHeld
<1>8. ASSUME NEW p \in Ports, h.oper = "REQ", Misses(p), FetchedFor(p)'
      PROVE  InPlace(p, replace_line_reg[p])'
  <2>0. /\ replace_line_reg \in [Ports -> Ways] /\ miss_addr.line \in Ways
        /\ Fetch(1) # Fetch(2)
    BY <1>0 DEF RestTypeOK, TypeOK, Fetch
  <2>1. CASE state = Fetch(p) /\ state' # state
    <3>1. replace_line_reg'[p] = miss_addr.line
      BY <2>1, RefillEnds
    <3>2. \A w \in Ways : w = miss_addr.line => InPlace(p, w)'
      BY <2>1, RefillPlaces
    <3>3. QED
      BY <2>0, <3>1, <3>2 DEF InPlace
  <2>2. CASE p = 2 /\ SameLine /\ state = Fetch(1) /\ state' # state
    <3>1. replace_line_reg'[2] = miss_addr.line
      BY <2>2, RefillEnds DEF Ports
    <3>2. \A w \in Ways : w = miss_addr.line => InPlace(1, w)'
      BY <2>2, RefillPlaces DEF Ports
    <3>3. Index(1) = Index(2) /\ Tag(1) = Tag(2)
          /\ (h.req[2].strobe # {} => h.req[1].strobe # {})
      <4>1. BothCached(h.req) /\ Served(h.req)
        BY <1>8, <2>2 DEF CacheInv, LookedUp, SameLine, Misses, BothCached,
           Ports
      <4>2. QED
        BY <2>2, <4>1 DEF SameLine, IndexEqual, Index, Tag, Served
    <3>4. QED
      BY <1>0, <1>1, <2>0, <2>2, <3>1, <3>2, <3>3 DEF InPlace, Ports
  <2>3. CASE ~(state = Fetch(p) /\ state' # state)
             /\ ~(p = 2 /\ SameLine /\ state = Fetch(1) /\ state' # state)
    <3>1. FetchedFor(p) /\ state # Fetch(p)
          /\ (p = 2 /\ ~Past(Fetch(2)) => SameLine /\ Past(Fetch(1)))
      <4>1. ASSUME NEW q \in Ports, Past(Fetch(q))', ~(state = Fetch(q) /\ state' # state)
            PROVE  Past(Fetch(q)) /\ state # Fetch(q)
        <5>1. Fetch(q) \in ended' /\ state' # Fetch(q)
          BY <4>1 DEF Past
        <5>2. state # Fetch(q)
          BY <4>1, <5>1
        <5>3. QED
          BY <1>0, <5>1, <5>2 DEF Past
      <4>2. CASE Past(Fetch(p))'
        <5>1. Past(Fetch(p)) /\ state # Fetch(p)
          BY <2>3, <4>1, <4>2
        <5>2. QED
          BY <5>1 DEF FetchedFor
      <4>3. CASE p = 2 /\ SameLine /\ Past(Fetch(1))'
        <5>1. Past(Fetch(1))
          BY <2>3, <4>1, <4>3 DEF Ports
        <5>2. state # Fetch(2)
          BY <1>2, <4>3, PhaseNames DEF Fetching, Port
        <5>3. QED
          BY <4>3, <5>1, <5>2 DEF FetchedFor
      <4>4. QED
        BY <1>1, <1>8, <4>2, <4>3 DEF FetchedFor
    <3>2. InPlace(p, replace_line_reg[p])
      BY <1>0, <1>8, <3>1 DEF MetaHeld
    <3>3. Fetching => Index(Port) # Index(p)
      BY <1>0, <1>2, <1>4, <1>8, <2>0, <3>1 DEF Working, Past, Ports
    <3>4. replace_line_reg'[p] = replace_line_reg[p]
      <4>1. CASE p = 1 \/ ~SameLine \/ ~Resp(ready).last
        BY <1>0, <1>8, <2>0, <3>1, <4>1 DEF ReplaceRegClock, Ports
      <4>2. CASE p = 2 /\ SameLine /\ Resp(ready).last
        <5>1. Past(Fetch(1))
          BY <1>0, <3>1, <4>2 DEF Working, Past
        <5>2. \/ Fetching /\ Port = 1 /\ state = Fetch(1)
              \/ WritingBack /\ Port # 0
              \/ WritingBack /\ Port = 0 /\ state = Writeback(0)
              \/ state[1] = "UNCACHE"
          BY <1>0, <1>2, <4>2, LastBeat, PhaseCases DEF DcreqValid, Ports
        <5>3. CASE WritingBack /\ Port # 0
          BY <1>0, <1>2, <4>2, <5>1, <5>3, PhaseCases DEF Working, Past, Ports
        <5>4. CASE state[1] = "UNCACHE"
          BY <1>0, <1>8, <4>2, <5>4, PhaseCases DEF Working, Uncached, Misses,
             SameLine, Ports
        <5>5. CASE state = Writeback(0)
          BY <1>0, <1>8, <5>5 DEF Working
        <5>6. QED
          BY <5>1, <5>2, <5>3, <5>4, <5>5 DEF Past
      <4>3. QED
        BY <1>8, <4>1, <4>2 DEF Ports
    <3>5. \A w \in Ways : w = replace_line_reg[p] => InPlace(p, w)'
      BY <3>2, <3>3, InPlaceStays
    <3>6. QED
      BY <2>0, <3>4, <3>5 DEF InPlace
  <2>4. QED
    BY <2>1, <2>2, <2>3
<1>9. ASSUME NEW p \in Ports, h.oper = "REQ", Uncached(p), Past(Uncache(p))'
      PROVE  uncached_data'[p] = BusData
  <2>1. CASE state = Uncache(p)
    <3>1. Resp(ready).last
      BY <1>0, <1>9, <2>1, FsmByPhase, PhaseNames DEF Past, FsmUncached
    <3>2. QED
      BY <1>0, <2>1, <3>1 DEF AnswerClock
  <2>2. CASE state # Uncache(p)
    <3>1. Past(Uncache(p))
      BY <1>0, <1>9, <2>2 DEF Past
    <3>2. QED
      BY <1>0, <1>9, <2>2, <3>1 DEF AnswerClock, MetaHeld
  <2>3. QED
    BY <2>1, <2>2
<1>10. (Fetching /\ state \in ended =>
          /\ meta_ram[Index(Port)] = [h.meta[Port] EXCEPT ![miss_addr.line] = LineOf(Tag(Port))]
          /\ InPlace(Port, miss_addr.line))'
  <2>1. SUFFICES ASSUME Fetching', state' \in ended'
        PROVE  (/\ meta_ram[Index(Port)] =
                     [h.meta[Port] EXCEPT ![miss_addr.line] = LineOf(Tag(Port))]
                /\ InPlace(Port, miss_addr.line))'
    OBVIOUS
  <2>2. state' = state
    <3>1. CASE state = Idle /\ state' # Idle
      <4>1. ended' = ended
        BY <1>0, <3>1
      <4>2. \A p \in Ports : state' = Fetch(p) => Fetch(p) \notin ended
        <5> TAKE p \in Ports
        <5>1. state' = Fetch(p) =>
                \A q : state' # Uncache(q) /\ state' # Writeback(q) /\ state' # Store
                       /\ (state' = Fetch(q) => q = p)
          BY DEF Fetch, Uncache, Writeback, Store
        <5>2. QED
          BY <3>1, <5>1, StartedPhase
      <4>3. \E p \in Ports : state' = Fetch(p)
        <5>1. state' \in PhaseType /\ state'[1] = "FETCH"
          BY <2>1, TypeStep DEF TypeOK, PhaseType, Fetching
        <5>2. QED
          BY <5>1, PhaseFacts
      <4>4. QED
        BY <2>1, <4>1, <4>2, <4>3
    <3>2. CASE WritingBack /\ Port \in Ports /\ state = Writeback(Port) /\ state' = Fetch(Port)
      <4>1. Fetch(Port) \notin ended /\ Fetch(Port) # Writeback(Port)
        BY <1>0, <3>2 DEF Working, Fetch, Writeback, Ports
      <4>2. QED
        BY <1>0, <2>1, <3>2, <4>1
    <3>3. CASE state' = Idle
      BY <2>1, <3>3, PhaseNames DEF Fetching
    <3>4. QED
      BY <3>1, <3>2, <3>3, NextPhase
  <2>3. PICK p \in Ports : Fetching /\ Port = p /\ Port' = p /\ state = Fetch(p)
    BY <1>0, <2>1, <2>2, PhaseCases DEF Fetching, Port
  <2>4. miss_addr'.line = miss_addr.line /\ miss_addr.line \in Ways
    BY <1>0, <2>3, FsmByPhase DEF FsmFetch, TypeOK
  <2>5. /\ meta_ram'[Index(p)] = [h.meta[p] EXCEPT ![miss_addr.line] = LineOf(Tag(p))]
        /\ \A w \in Ways : w = miss_addr.line => InPlace(p, w)'
    BY <2>3, RefillPlaces
  <2>6. QED
    BY <1>0, <1>1, <2>3, <2>4, <2>5 DEF InPlace
<1>11. QED
  BY <1>0, <1>1, <1>5, <1>6, <1>7, <1>8, <1>9, <1>10 DEF MetaHeld

(* What a cycle in which the pipeline goes on leaves of the metadata: a    *)
(* cache instruction can drop its line, and that is all. *)
LEMMA MetaLeft ==
  ASSUME CacheInv, en, NEW acc, NEW ready \in BOOLEAN, Clock(acc, ready),
         NEW w \in Ways, NEW s \in Sets
  PROVE  /\ meta_ram'[s][w] \in Meta
         /\ meta_ram'[s][w].valid => meta_ram'[s][w] = meta_ram[s][w]
         /\ meta_ram'[s][w] # meta_ram[s][w] =>
              h.oper \in {"INVALID", "WRITEBACK_INVALID"} /\ s = Index(1) /\ w = h.op_line
         /\ h.oper = "INVALID" /\ s = Index(1) /\ w = h.op_line => ~meta_ram'[s][w].valid
<1>0. /\ MetaClock /\ state = Idle /\ meta_ram \in [Sets -> [Ways -> Meta]]
      /\ MetaHeld /\ RestTypeOK
  BY DEF Clock, CacheInv, TypeOK, Meta
<1>1. /\ MetaClock /\ ~Fetching /\ state # Store
      /\ meta_ram \in [Sets -> [Ways -> Meta]] /\ meta_ram[s][w] \in Meta
      /\ h.oper \in Operations => meta_ram[Index(1)] = h.meta[1]
      /\ Index(1) \in Sets /\ h.op_line \in Ways
  <2>1. ~Fetching /\ state # Store
    BY <1>0, PhaseNames DEF Fetching, Idle, Store
  <2>2. Index(1) \in Sets /\ h.op_line \in Ways
    BY <1>0, RequestTypes DEF Ports
  <2>3. h.oper \in Operations => meta_ram[Index(1)] = h.meta[1]
    BY <1>0 DEF MetaHeld
  <2>4. QED
    BY <1>0, <2>1, <2>2, <2>3
<1>2. CASE h.oper \in {"INVALID", "WRITEBACK_INVALID"}
  <2>1. meta_ram' = [meta_ram EXCEPT ![Index(1)] =
                       [meta_ram[Index(1)] EXCEPT ![h.op_line].valid = FALSE]]
    BY <1>1, <1>2 DEF MetaClock, Index, Operations
  <2>2. meta_ram[Index(1)] \in [Ways -> Meta]
    BY <1>1
  <2>3. CASE s = Index(1) /\ w = h.op_line
    <3>1. meta_ram'[s][w] = [meta_ram[s][w] EXCEPT !.valid = FALSE]
      BY <1>1, <2>1, <2>2, <2>3
    <3>2. meta_ram'[s][w] \in Meta /\ ~meta_ram'[s][w].valid
      BY <1>1, <3>1 DEF Meta
    <3>3. QED
      BY <1>2, <2>3, <3>2
  <2>4. CASE s # Index(1) \/ w # h.op_line
    <3>1. meta_ram'[s][w] = meta_ram[s][w]
      BY <1>1, <2>1, <2>2, <2>4
    <3>2. QED
      BY <1>1, <2>4, <3>1
  <2>5. QED
    BY <2>3, <2>4
<1>3. CASE h.oper \notin {"INVALID", "WRITEBACK_INVALID"}
  <2>1. meta_ram' = meta_ram
    BY <1>1, <1>3 DEF MetaClock
  <2>2. QED
    BY <1>1, <1>3, <2>1
<1>4. QED
  BY <1>2, <1>3

(* The way a refill leaves alone does not hold the line that is fetched. *)
LEMMA OtherWay ==
  ASSUME CacheInv, Fetching
  PROVE  /\ Port \in Ports /\ state = Fetch(Port) /\ h.oper = "REQ" /\ Misses(Port)
         /\ miss_addr.index = Index(Port) /\ miss_addr.line = ReplaceLine(Port)
         /\ Index(Port) \in Sets /\ Tag(Port) \in Tags /\ miss_addr.line \in Ways
         /\ \A w \in Ways : meta_ram[Index(Port)][w] =
              IF w = miss_addr.line /\ state \in ended THEN LineOf(Tag(Port))
              ELSE h.meta[Port][w]
         /\ \A w \in Ways : h.meta[Port][w] # LineOf(Tag(Port))
<1>1. /\ Port \in Ports /\ state = Fetch(Port) /\ h.oper = "REQ" /\ Misses(Port)
      /\ miss_addr.index = Index(Port) /\ miss_addr.line = ReplaceLine(Port)
      /\ Port = 2 => ~SameLine
      /\ MetaHeld /\ LookedUp /\ TypeOK /\ RestTypeOK
  BY PhaseCases DEF CacheInv, Working
<1>2. /\ Index(Port) \in Sets /\ Tag(Port) \in Tags /\ miss_addr.line \in Ways
      /\ h.meta[Port] \in [Ways -> Meta]
  BY <1>1, RequestTypes DEF TypeOK
<1>3. \A w \in Ways : h.meta[Port][w] # LineOf(Tag(Port))
  BY <1>1 DEF LookedUp, Misses
<1>4. CASE state \in ended
  <2>1. meta_ram[Index(Port)] = [h.meta[Port] EXCEPT ![miss_addr.line] = LineOf(Tag(Port))]
    BY <1>1, <1>4 DEF MetaHeld
  <2>2. QED
    BY <1>1, <1>2, <1>3, <1>4, <2>1
<1>5. CASE state \notin ended
  <2>1. meta_ram[Index(Port)] = h.meta[Port]
    BY <1>1, <1>5 DEF MetaHeld
  <2>2. QED
    BY <1>1, <1>2, <1>3, <1>5, <2>1
<1>6. QED
  BY <1>4, <1>5

(* What a cycle of an access in progress does to the metadata. *)
LEMMA MetaDuring ==
  ASSUME CacheInv, ~en, NEW acc, NEW ready \in BOOLEAN, Clock(acc, ready),
         NEW w \in Ways, NEW s \in Sets
  PROVE  meta_ram'[s][w] = IF Victim(w, s) THEN LineOf(Tag(Port)) ELSE meta_ram[s][w]
<1>1. meta_ram \in [Sets -> [Ways -> Meta]]
  BY DEF CacheInv, TypeOK, Meta
<1>2. CASE ~Fetching
  BY <1>2, MetaWaiting DEF Victim
<1>3. CASE Fetching
  <2>1. meta_ram' = [meta_ram EXCEPT ![Index(Port)] =
                       [h.meta[Port] EXCEPT ![miss_addr.line] = LineOf(Tag(Port))]]
    BY <1>3, MetaWaiting
  <2>2. /\ miss_addr.index = Index(Port) /\ Index(Port) \in Sets /\ Port \in Ports
        /\ w # miss_addr.line => meta_ram[Index(Port)][w] = h.meta[Port][w]
    BY <1>3, OtherWay
  <2>3. h.meta[Port] \in [Ways -> Meta]
    BY <2>2, RequestTypes DEF CacheInv
  <2>4. CASE s # Index(Port)
    BY <1>1, <2>1, <2>2, <2>4 DEF Victim
  <2>5. CASE s = Index(Port)
    <3>1. meta_ram'[s] = [h.meta[Port] EXCEPT ![miss_addr.line] = LineOf(Tag(Port))]
      BY <1>1, <2>1, <2>2, <2>5
    <3>2. QED
      BY <1>3, <2>2, <2>3, <2>5, <3>1 DEF Victim
  <2>6. QED
    BY <2>4, <2>5
<1>4. QED
  BY <1>2, <1>3

(* No cycle puts a line into a second way of its set. *)
LEMMA OneCopyStep ==
  ASSUME CacheInv, NEW acc, NEW ready \in BOOLEAN, Clock(acc, ready)
  PROVE  OneCopy'
<1> SUFFICES ASSUME NEW s \in Sets, meta_ram'[s][0].valid, meta_ram'[s][1].valid
             PROVE  meta_ram'[s][0].tag # meta_ram'[s][1].tag
  BY DEF OneCopy
<1>1. OneCopy /\ 0 \in Ways /\ 1 \in Ways /\ meta_ram \in [Sets -> [Ways -> Meta]]
  BY DEF CacheInv, Ways, TypeOK, Meta
<1>2. CASE en
  <2>1. meta_ram'[s][0] = meta_ram[s][0] /\ meta_ram'[s][1] = meta_ram[s][1]
    BY <1>1, <1>2, MetaLeft
  <2>2. QED
    BY <1>1, <2>1 DEF OneCopy
<1>3. CASE ~en
  <2>1. \A w \in Ways :
          meta_ram'[s][w] = IF Victim(w, s) THEN LineOf(Tag(Port)) ELSE meta_ram[s][w]
    BY <1>3, MetaDuring
  <2>2. CASE \A w \in Ways : ~Victim(w, s)
    <3>1. meta_ram'[s][0] = meta_ram[s][0] /\ meta_ram'[s][1] = meta_ram[s][1]
      BY <1>1, <2>1, <2>2
    <3>2. QED
      BY <1>1, <3>1 DEF OneCopy
  <2>3. ASSUME NEW v \in Ways, Victim(v, s)
        PROVE  meta_ram'[s][0].tag # meta_ram'[s][1].tag
    <3>1. /\ Fetching /\ v = miss_addr.line /\ s = Index(Port)
          /\ \A w \in Ways : w # v => meta_ram[s][w] # LineOf(Tag(Port)) /\ ~Victim(w, s)
      BY <2>3, OtherWay DEF Victim
    <3>2. ASSUME NEW w \in Ways, w # v
          PROVE  /\ meta_ram'[s][w] = meta_ram[s][w] /\ meta_ram'[s][w] # LineOf(Tag(Port))
                 /\ meta_ram'[s][v] = LineOf(Tag(Port))
      BY <2>1, <2>3, <3>1, <3>2
    <3>3. \A m \in Meta : m.valid /\ m # LineOf(Tag(Port)) => m.tag # LineOf(Tag(Port)).tag
      BY DEF Meta, LineOf
    <3>4. \A w \in Ways : meta_ram[s][w] \in Meta
      BY <1>1
    <3>5. CASE v = 0
      <4>1. meta_ram'[s][1] \in Meta /\ meta_ram'[s][1] # LineOf(Tag(Port))
            /\ meta_ram'[s][0] = LineOf(Tag(Port))
        BY <1>1, <3>2, <3>4, <3>5
      <4>2. QED
        BY <3>3, <4>1
    <3>6. CASE v = 1
      <4>1. meta_ram'[s][0] \in Meta /\ meta_ram'[s][0] # LineOf(Tag(Port))
            /\ meta_ram'[s][1] = LineOf(Tag(Port))
        BY <1>1, <3>2, <3>4, <3>6
      <4>2. QED
        BY <3>3, <4>1
    <3>7. QED
      BY <3>5, <3>6 DEF Ways
  <2>4. QED
    BY <2>2, <2>3
<1>4. QED
  BY <1>2, <1>3

(* A set holds a line in one way only. *)
LEMMA SameWay ==
  ASSUME OneCopy, NEW s \in Sets, NEW t, NEW v \in Ways, NEW w \in Ways,
         meta_ram[s][v] = LineOf(t), meta_ram[s][w] = LineOf(t)
  PROVE  v = w
BY DEF OneCopy, Ways, LineOf

(* A line that is valid and not dirty is in memory. *)
LEMMA CleanInMemory ==
  ASSUME TypeOK, OneCopy, MemoryHeld, NEW w \in Ways, NEW s \in Sets,
         meta_ram[s][w].valid, ~cache_dirty[w][s]
  PROVE  InMemory(meta_ram[s][w].tag, s)
<1>1. /\ meta_ram[s][w] \in Meta /\ meta_ram[s][w] = LineOf(meta_ram[s][w].tag)
      /\ meta_ram[s][w].tag \in Tags
  <2>1. \A m \in Meta : m.valid => m = LineOf(m.tag) /\ m.tag \in Tags
    BY DEF Meta, LineOf
  <2>2. meta_ram[s][w] \in Meta
    BY DEF TypeOK, Meta
  <2>3. QED
    BY <2>1, <2>2
<1>2. ASSUME NEW o \in Offsets, NEW l \in Lanes
      PROVE  mem_current[At(meta_ram[s][w].tag, s, o)][l]
  <2> DEFINE a == At(meta_ram[s][w].tag, s, o)
  <2>1. a \in Addr /\ a.tag = meta_ram[s][w].tag /\ a.index = s
    BY <1>1 DEF Addr, At
  <2>2. \A v \in Ways : meta_ram[s][v] = LineOf(a.tag) => v = w
    BY <1>1, <2>1, SameWay
  <2>3. ~\E v \in Ways : meta_ram[a.index][v] = LineOf(a.tag) /\ cache_dirty[v][a.index]
    BY <2>1, <2>2
  <2>4. QED
    BY <2>1, <2>3 DEF MemoryHeld
<1>3. QED
  BY <1>2 DEF InMemory

(* A line that is in no way of its set is in memory. *)
LEMMA AbsentInMemory ==
  ASSUME MemoryHeld, NEW t \in Tags, NEW s \in Sets,
         \A w \in Ways : meta_ram[s][w] # LineOf(t)
  PROVE  InMemory(t, s)
<1>1. \A o \in Offsets : At(t, s, o) \in Addr /\ At(t, s, o).tag = t /\ At(t, s, o).index = s
  BY DEF At, Addr
<1>2. QED
  BY <1>1 DEF MemoryHeld, InMemory

-----------------------------------------------------------------------------
(* The data RAM. *)

(* In an access in progress only a refill and a tag store write the RAM, *)
(* at miss_addr. *)
LEMMA RamDuring ==
  ASSUME CacheInv, ~en, NEW acc, NEW ready \in BOOLEAN, Clock(acc, ready),
         NEW w \in Ways, NEW s \in Sets, NEW o \in Offsets, NEW l \in Lanes
  PROVE  /\ miss_addr = [line |-> w, index |-> s, offset |-> o] /\ Fetching =>
              data_ram'[w][s][o][l] = IF mem_current[BeatAddr][l] THEN BeatAddr ELSE Old
         /\ miss_addr # [line |-> w, index |-> s, offset |-> o] \/ (~Fetching /\ state # Store) =>
              data_ram'[w][s][o][l] = data_ram[w][s][o][l]
<1>1. /\ RamClock
      /\ data_ram \in [Ways -> [Sets -> [Offsets -> Word]]]
  BY DEF Clock, CacheInv, TypeOK
<1>2. \A p \in Ports : ~PortEn(p)
  BY Waiting
<1>3. PortWen(1) = {} /\ PortWen(2) = IF Fetching \/ state = Store THEN Lanes ELSE {}
  BY <1>2 DEF PortWen, Ports
<1>4. Fetching \/ state = Store => state # Idle /\ PortAddr(2) = miss_addr
  BY PhaseNames DEF Fetching, PortAddr, Idle, Store
<1>5. Fetching => PortDataW(2)[l] = IF mem_current[BeatAddr][l] THEN BeatAddr ELSE Old
  <2>1. Fetching => state # Store /\ state # Idle
    BY PhaseNames DEF Fetching
  <2>2. QED
    BY <2>1 DEF PortDataW
<1>6. Aged(data_ram[w][s][o])[l] = data_ram[w][s][o][l]
  <2>1. Stored(l) = {} /\ Dropped = {}
    BY Waiting
  <2>2. QED
    BY <2>1 DEF Aged
<1>7. data_ram'[w][s][o][l] =
        CASE PortAddr(2) = [line |-> w, index |-> s, offset |-> o] /\ l \in PortWen(2) ->
               PortDataW(2)[l]
          [] /\ ~(PortAddr(2) = [line |-> w, index |-> s, offset |-> o] /\ l \in PortWen(2))
             /\ PortAddr(1) = [line |-> w, index |-> s, offset |-> o] /\ l \in PortWen(1) ->
               PortDataW(1)[l]
          [] OTHER -> Aged(data_ram[w][s][o])[l]
  BY <1>1 DEF RamClock
<1>8. CASE /\ Fetching \/ state = Store
           /\ miss_addr = [line |-> w, index |-> s, offset |-> o]
  BY <1>3, <1>4, <1>5, <1>7, <1>8, PhaseNames DEF Fetching
<1>9. CASE ~(/\ Fetching \/ state = Store
             /\ miss_addr = [line |-> w, index |-> s, offset |-> o])
  <2>1. ~(PortAddr(2) = [line |-> w, index |-> s, offset |-> o] /\ l \in PortWen(2))
        /\ l \notin PortWen(1)
    BY <1>3, <1>4, <1>9
  <2>2. data_ram'[w][s][o][l] = data_ram[w][s][o][l]
    BY <1>6, <1>7, <2>1
  <2>3. QED
    BY <1>9, <2>2
<1>10. QED
  BY <1>8, <1>9

(* The refill of the line goes on, or this was its last beat. *)
LEMMA FetchStep ==
  ASSUME CacheInv, ~en, NEW acc, NEW ready \in BOOLEAN, Clock(acc, ready), Fetching
  PROVE  /\ miss_addr'.line = miss_addr.line /\ miss_addr'.index = miss_addr.index
         /\ miss_addr.offset = bus_beat /\ bus_beat \in Offsets
         /\ BeatAddr = At(Tag(Port), Index(Port), bus_beat) /\ BeatAddr \in Addr
         /\ \/ /\ Resp(ready).last /\ state' = Idle /\ bus_beat = LineWords - 1
            \/ /\ ~Resp(ready).last /\ state' = state
               /\ bus_beat' \in {bus_beat, bus_beat + 1}
<1>1. /\ FsmClock(Resp(ready)) /\ BusClock(Resp(ready)) /\ (ready => bus_busy)
      /\ miss_addr \in [line : Ways, index : Sets, offset : Offsets]
      /\ bus_beat \in Offsets /\ miss_addr.offset = bus_beat
  BY DEF Clock, CacheInv, TypeOK, BusInStep
<1>2. FsmFetch(Resp(ready)) /\ state[1] # "UNCACHE"
  BY <1>1, FsmByPhase DEF Fetching
<1>3. miss_addr'.line = miss_addr.line /\ miss_addr'.index = miss_addr.index
  BY <1>1, <1>2 DEF FsmFetch
<1>4. BeatAddr = At(Tag(Port), Index(Port), bus_beat) /\ BeatAddr \in Addr
  <2>1. Port \in Ports /\ Index(Port) \in Sets /\ Tag(Port) \in Tags
    BY OtherWay
  <2>2. Port # 0
    BY <2>1 DEF Ports
  <2>3. CbusTag = Tag(Port) /\ CbusIndex = Index(Port)
    BY <2>2 DEF CbusTag, CbusIndex, Tag, Index, Fetching, WritingBack
  <2>4. QED
    BY <1>1, <2>1, <2>3 DEF BeatAddr, At, Addr
<1>5. /\ Resp(ready).ready = ready
      /\ Resp(ready).last <=> ready /\ bus_beat = LineWords - 1
  BY <1>1, <1>2, LastBeat
<1>6. CASE Resp(ready).last
  BY <1>1, <1>2, <1>3, <1>4, <1>5, <1>6 DEF FsmFetch
<1>7. CASE ~Resp(ready).last
  BY <1>1, <1>2, <1>3, <1>4, <1>5, <1>7 DEF FsmFetch, BusClock
<1>8. QED
  BY <1>6, <1>7

(* A valid line keeps its bytes while an access is in progress, and a     *)
(* refill that is complete has brought them all. *)
LEMMA LinesHeldWaiting ==
  ASSUME CacheInv, ~en, NEW acc, NEW ready \in BOOLEAN, Clock(acc, ready)
  PROVE  LinesHeld'
<1> SUFFICES ASSUME NEW w \in Ways, NEW s \in Sets, meta_ram'[s][w].valid, ~Victim(w, s)',
                    NEW o \in Offsets, NEW l \in Lanes
             PROVE  data_ram'[w][s][o][l] = At(meta_ram'[s][w].tag, s, o)
  BY DEF LinesHeld, At
<1>1. /\ meta_ram'[s][w] = IF Victim(w, s) THEN LineOf(Tag(Port)) ELSE meta_ram[s][w]
      /\ LinesHeld
  BY MetaDuring DEF CacheInv
<1>2. CASE ~Victim(w, s)
  <2>1. data_ram[w][s][o][l] = At(meta_ram'[s][w].tag, s, o)
    BY <1>1, <1>2 DEF LinesHeld
  <2>2. CASE ~Fetching /\ state # Store
    BY <2>1, <2>2, RamDuring
  <2>3. CASE Fetching
    <3>1. miss_addr # [line |-> w, index |-> s, offset |-> o]
      BY <1>2, <2>3 DEF Victim
    <3>2. QED
      BY <2>1, <3>1, RamDuring
  <2>4. CASE state = Store
    <3>1. /\ h.oper = "INDEX_STORE" /\ miss_addr.line = h.op_line /\ miss_addr.index = Index(1)
          /\ meta_ram[Index(1)] = h.meta[1] /\ ~h.meta[1][h.op_line].valid
      BY <2>4 DEF CacheInv, Working, MetaHeld, LookedUp, Operations
    <3>2. miss_addr # [line |-> w, index |-> s, offset |-> o]
      BY <1>1, <1>2, <3>1
    <3>3. QED
      BY <2>1, <3>2, RamDuring
  <2>5. QED
    BY <2>2, <2>3, <2>4
<1>3. CASE Victim(w, s)
  <2>1. /\ Fetching /\ w = miss_addr.line /\ s = miss_addr.index /\ s = Index(Port)
        /\ miss_addr'.line = miss_addr.line /\ miss_addr'.index = miss_addr.index
        /\ miss_addr.offset = bus_beat /\ bus_beat \in Offsets
        /\ miss_addr \in [line : Ways, index : Sets, offset : Offsets]
    BY <1>3, FetchStep, OtherWay DEF Victim, CacheInv, TypeOK
  <2>2. bus_beat = LineWords - 1
    <3>1. state' # state
      BY <2>1 DEF Victim, Fetching
    <3>2. QED
      BY <2>1, <3>1, FetchStep
  <2>3. meta_ram'[s][w].tag = Tag(Port)
    BY <1>1, <1>3 DEF LineOf
  <2>4. CASE o = bus_beat
    <3>1. BeatAddr = At(Tag(Port), Index(Port), o)
      BY <2>1, <2>4, FetchStep
    <3>2. mem_current[BeatAddr][l]
      BY <2>1, <3>1 DEF CacheInv, Refill, InMemory
    <3>3. miss_addr = [line |-> w, index |-> s, offset |-> o]
      BY <2>1, <2>4
    <3>4. QED
      BY <2>1, <2>3, <3>1, <3>2, <3>3, RamDuring
  <2>5. CASE o # bus_beat
    <3>1. o < bus_beat
      BY <2>2, <2>5, GeometryAssumption DEF Offsets
    <3>2. data_ram[w][s][o][l] = At(Tag(Port), Index(Port), o)
      BY <2>1, <3>1 DEF CacheInv, Refill
    <3>3. miss_addr # [line |-> w, index |-> s, offset |-> o]
      BY <2>1, <2>5
    <3>4. QED
      BY <2>1, <2>3, <3>2, <3>3, RamDuring
  <2>6. QED
    BY <2>4, <2>5
<1>4. QED
  BY <1>2, <1>3

(* The line of a cached access that is performed is in place. *)
LEMMA Placed ==
  ASSUME CacheInv, NEW p \in Ports, Performs(p)
  PROVE  /\ meta_ram[Index(p)][PortLine(p)] = LineOf(Tag(p))
         /\ PortLine(p) \in Ways /\ Index(p) \in Sets /\ h.req[p].offset \in Offsets
         /\ PortAddr(p) = [line |-> PortLine(p), index |-> Index(p), offset |-> h.req[p].offset]
         /\ ~h.hit[p] /\ h.req[p].strobe # {} => cache_dirty[PortLine(p)][Index(p)]
         /\ AddrOf(h.req[p]) = At(Tag(p), Index(p), h.req[p].offset)
         /\ AddrOf(h.req[p]) \in Addr
         /\ \A l \in Lanes :
              data_ram[PortLine(p)][Index(p)][h.req[p].offset][l] = AddrOf(h.req[p])
<1>1. /\ en /\ h.oper = "REQ" /\ h.req[p].valid /\ ~h.req[p].unc /\ state = Idle
      /\ Index(p) \in Sets /\ h.req[p].offset \in Offsets /\ AddrOf(h.req[p]) \in Addr
      /\ h.line[p] \in Ways /\ replace_line_reg[p] \in Ways
      /\ MetaHeld /\ LinesHeld
  BY RequestTypes DEF Performs, CacheInv, TypeOK, RestTypeOK
<1>2. PortLine(p) \in Ways
  BY <1>1 DEF PortLine
<1>3. meta_ram[Index(p)][PortLine(p)] = LineOf(Tag(p))
      /\ (~h.hit[p] /\ h.req[p].strobe # {} => cache_dirty[PortLine(p)][Index(p)])
  <2>1. CASE h.hit[p]
    <3>1. CacheHit(p)
      BY <1>1, <2>1 DEF CacheHit
    <3>2. meta_ram[Index(p)][h.line[p]] = LineOf(Tag(p))
      BY <1>1, <3>1 DEF MetaHeld
    <3>3. QED
      BY <2>1, <3>2 DEF PortLine
  <2>2. CASE ~h.hit[p]
    <3>1. Misses(p) /\ ~CacheHit(p)
      BY <1>1, <2>2 DEF Misses, CacheHit
    <3>2. FetchedFor(p)
      BY <1>1, <3>1 DEF CacheInv, AllDone, Done
    <3>3. InPlace(p, replace_line_reg[p])
      BY <1>1, <3>1, <3>2 DEF MetaHeld
    <3>4. QED
      BY <2>2, <3>3 DEF PortLine, InPlace
  <2>3. QED
    BY <2>1, <2>2
<1>4. AddrOf(h.req[p]) = At(Tag(p), Index(p), h.req[p].offset)
  BY DEF AddrOf, At, Tag, Index
<1>5. \A l \in Lanes :
        data_ram[PortLine(p)][Index(p)][h.req[p].offset][l] = AddrOf(h.req[p])
  <2>1. ~Victim(PortLine(p), Index(p))
    BY <1>1, PhaseNames DEF Victim, Fetching
  <2>2. LineOf(Tag(p)).valid /\ LineOf(Tag(p)).tag = Tag(p)
    BY DEF LineOf
  <2>3. meta_ram[Index(p)][PortLine(p)].valid /\ meta_ram[Index(p)][PortLine(p)].tag = Tag(p)
    BY <1>3, <2>2
  <2>4. QED
    BY <1>1, <1>2, <1>4, <2>1, <2>3 DEF LinesHeld
<1>6. PortAddr(p) = [line |-> PortLine(p), index |-> Index(p), offset |-> h.req[p].offset]
  BY <1>1 DEF PortAddr, Index
<1>7. QED
  BY <1>1, <1>2, <1>3, <1>4, <1>5, <1>6

(* What is stored by a port, in the cycle that replaces its request. *)
LEMMA StoresOf ==
  ASSUME CacheInv, NEW p \in Ports, NEW l \in Lanes
  PROVE  /\ l \in StoreLanes(p) <=> Performs(p) /\ l \in h.req[p].strobe
         /\ en /\ h.oper = "REQ" /\ ~h.req[p].unc /\ l \in h.req[p].strobe => l \in StoreLanes(p)
         /\ en /\ h.oper = "REQ" /\ AddrSame /\ l \in h.req[p].strobe => l \in StoreLanes(p)
         /\ Performs(p) => (PortEn(p) <=> (p = 1 => ~WToW))
<1>1. l \in StoreLanes(p) <=> Performs(p) /\ l \in h.req[p].strobe
  BY DEF StoreLanes
<1>2. en /\ h.oper = "REQ" /\ ~h.req[p].unc /\ l \in h.req[p].strobe => Performs(p)
  BY DEF CacheInv, LookedUp, Served, Performs
<1>3. en /\ h.oper = "REQ" /\ AddrSame => Performs(p)
  BY DEF AddrSame, Performs
<1>4. Performs(p) => (PortEn(p) <=> (p = 1 => ~WToW))
  BY DEF Performs, PortEn, CacheInv, Flags
<1>5. QED
  BY <1>1, <1>2, <1>3, <1>4

(* Two accesses to one address are to one place. *)
LEMMA SamePlace ==
  ASSUME CacheInv, en, h.oper = "REQ", AddrSame
  PROVE  /\ Performs(1) /\ Performs(2) /\ PortAddr(1) = PortAddr(2)
         /\ AddrOf(h.req[1]) = AddrOf(h.req[2])
<1>1. Performs(1) /\ Performs(2) /\ AddrOf(h.req[1]) = AddrOf(h.req[2])
  BY DEF AddrSame, Performs, Ports
<1>2. /\ Tag(1) = Tag(2) /\ Index(1) = Index(2) /\ h.req[1].offset = h.req[2].offset
  BY <1>1 DEF AddrOf, Tag, Index
<1>3. \A p \in Ports :
        /\ meta_ram[Index(p)][PortLine(p)] = LineOf(Tag(p))
        /\ PortLine(p) \in Ways /\ Index(p) \in Sets
        /\ PortAddr(p) = [line |-> PortLine(p), index |-> Index(p), offset |-> h.req[p].offset]
  BY <1>1, Placed DEF Ports
<1>4. PortLine(1) = PortLine(2)
  <2>1. OneCopy
    BY DEF CacheInv
  <2>2. QED
    BY <1>2, <1>3, <2>1, SameWay DEF Ports
<1>5. QED
  BY <1>1, <1>2, <1>3, <1>4 DEF Ports

(* A write to the RAM puts the latest byte of the line it goes to. *)
LEMMA WrittenBytes ==
  ASSUME CacheInv, en, NEW p \in Ports, NEW l \in Lanes, l \in PortWen(p)
  PROVE  /\ Performs(p) /\ h.oper = "REQ"
         /\ p = 2 \/ ~(l \in PortWen(2) /\ PortAddr(2) = PortAddr(1)) =>
              PortDataW(p)[l] = AddrOf(h.req[p])
<1>1. state = Idle /\ ~Fetching /\ state # Store
  BY PhaseNames DEF CacheInv, TypeOK, Fetching, Idle, Store
<1>2. h.oper = "REQ" /\ PortEn(p)
  BY <1>1 DEF PortWen
<1>3. CASE p = 2 /\ WToW /\ l \notin h.req[2].strobe
  <2>1. l \in h.req[1].strobe
    BY <1>1, <1>2, <1>3 DEF PortWen
  <2>2. Performs(1) /\ Performs(2) /\ AddrOf(h.req[1]) = AddrOf(h.req[2])
    BY <1>2, <1>3, SamePlace DEF WToW
  <2>3. l \in StoreLanes(1) /\ l \notin StoreLanes(2)
    BY <1>3, <2>1, <2>2, StoresOf DEF Ports
  <2>4. Offered(1, l) = AddrOf(h.req[1])
    BY <2>3 DEF Offered
  <2>5. PortDataW(2)[l] = Offered(1, l)
    BY <1>1, <1>3 DEF PortDataW
  <2>6. QED
    BY <1>2, <1>3, <2>2, <2>4, <2>5
<1>4. CASE ~(p = 2 /\ WToW /\ l \notin h.req[2].strobe)
  <2>1. l \in h.req[p].strobe
    BY <1>1, <1>2, <1>4 DEF PortWen, Ports
  <2>2. ~h.req[p].unc
    BY <1>2 DEF PortEn
  <2>3. l \in StoreLanes(p) /\ Performs(p)
    BY <1>2, <2>1, <2>2, StoresOf
  <2>4. PortDataW(p)[l] = Offered(p, l)
    BY <1>1, <1>4 DEF PortDataW
  <2>5. ASSUME p = 2 \/ ~(l \in PortWen(2) /\ PortAddr(2) = PortAddr(1))
        PROVE  ~(p = 1 /\ l \in StoreLanes(2) /\ AddrSame)
    <3>1. SUFFICES ASSUME p = 1, l \in StoreLanes(2), AddrSame PROVE FALSE
      OBVIOUS
    <3>2. Performs(2) /\ l \in h.req[2].strobe /\ PortAddr(2) = PortAddr(1)
      BY <1>2, <3>1, StoresOf, SamePlace DEF Ports
    <3>3. PortEn(2)
      BY <3>2, StoresOf DEF Ports
    <3>4. l \in PortWen(2)
      BY <1>1, <1>2, <3>2, <3>3 DEF PortWen
    <3>5. QED
      BY <2>5, <3>1, <3>2, <3>4
  <2>6. QED
    BY <1>2, <2>3, <2>4, <2>5 DEF Offered
<1>5. QED
  BY <1>3, <1>4

(* A byte a store makes old in a valid line is written in the same cycle. *)
LEMMA AgedIsWritten ==
  ASSUME CacheInv, NEW w \in Ways, NEW s \in Sets, NEW o \in Offsets, NEW l \in Lanes,
         meta_ram[s][w].valid, At(meta_ram[s][w].tag, s, o) \in Stored(l)
  PROVE  \E p \in Ports : /\ PortAddr(p) = [line |-> w, index |-> s, offset |-> o]
                          /\ l \in PortWen(p)
<1>1. PICK q \in Ports : /\ l \in StoreLanes(q)
                         /\ AddrOf(h.req[q]) = At(meta_ram[s][w].tag, s, o)
  BY DEF Stored
<1>2. Performs(q) /\ l \in h.req[q].strobe
  BY <1>1, StoresOf
<1>3. /\ meta_ram[Index(q)][PortLine(q)] = LineOf(Tag(q))
      /\ PortLine(q) \in Ways
      /\ PortAddr(q) = [line |-> PortLine(q), index |-> Index(q), offset |-> h.req[q].offset]
      /\ Tag(q) = meta_ram[s][w].tag /\ Index(q) = s /\ h.req[q].offset = o
      /\ en /\ h.oper = "REQ" /\ state = Idle /\ OneCopy
  BY <1>1, <1>2, Placed DEF AddrOf, At, Tag, Index, Performs, CacheInv, TypeOK
<1>4. meta_ram[s][w] = LineOf(Tag(q))
  <2>1. \A m \in Meta : m.valid => m = LineOf(m.tag)
    BY DEF Meta, LineOf
  <2>2. meta_ram[s][w] \in Meta
    BY DEF CacheInv, TypeOK, Meta
  <2>3. QED
    BY <1>3, <2>1, <2>2
<1>5. PortLine(q) = w
  BY <1>3, <1>4, SameWay
<1>6. PortAddr(q) = [line |-> w, index |-> s, offset |-> o]
  BY <1>3, <1>5
<1>7. ~Fetching /\ state # Store
  BY <1>3, PhaseNames DEF Fetching, Idle, Store
<1>8. CASE q = 1 /\ WToW
  <2>1. Performs(2) /\ PortAddr(2) = PortAddr(1)
    BY <1>3, <1>8, SamePlace DEF WToW
  <2>2. PortEn(2)
    BY <2>1, StoresOf DEF Ports
  <2>3. l \in PortWen(2)
    BY <1>2, <1>3, <1>7, <1>8, <2>2 DEF PortWen
  <2>4. QED
    BY <1>6, <1>8, <2>1, <2>3 DEF Ports
<1>9. CASE ~(q = 1 /\ WToW)
  <2>1. PortEn(q)
    BY <1>2, <1>9, StoresOf
  <2>2. l \in PortWen(q)
    BY <1>2, <1>3, <1>7, <2>1 DEF PortWen, Ports
  <2>3. QED
    BY <1>6, <2>2
<1>10. QED
  BY <1>8, <1>9

(* What D_HIT_INVALID drops is its line. *)
LEMMA DroppedLine ==
  ASSUME CacheInv, NEW w \in Ways, NEW s \in Sets, meta_ram[s][w].valid,
         NEW a \in Dropped, a.tag = meta_ram[s][w].tag, a.index = s
  PROVE  h.oper = "INVALID" /\ s = Index(1) /\ w = h.op_line
<1>1. h.oper = "INVALID" /\ s = Index(1) /\ a.tag = h.meta[1][h.op_line].tag
  BY DEF Dropped, Index
<1>2. /\ meta_ram[Index(1)] = h.meta[1] /\ h.meta[1][h.op_line].valid
      /\ h.op_line \in Ways /\ OneCopy
      /\ meta_ram \in [Sets -> [Ways -> Meta]]
  BY <1>1, RequestTypes DEF CacheInv, MetaHeld, LookedUp, Operations, TypeOK,
     Meta
<1>3. \A m \in Meta : m.valid => m = LineOf(m.tag)
  BY DEF Meta, LineOf
<1>4. meta_ram[s][w] \in Meta /\ meta_ram[s][h.op_line] \in Meta
  BY <1>2
<1>5. meta_ram[s][w] = LineOf(a.tag) /\ meta_ram[s][h.op_line] = LineOf(a.tag)
  BY <1>1, <1>2, <1>3, <1>4
<1>6. w = h.op_line
  BY <1>2, <1>5, SameWay
<1>7. QED
  BY <1>1, <1>6

(* The stores of a cycle reach every copy the cache has of their bytes. *)
LEMMA LinesHeldAccepting ==
  ASSUME CacheInv, en, NEW acc, NEW ready \in BOOLEAN, Clock(acc, ready)
  PROVE  LinesHeld'
<1> SUFFICES ASSUME NEW w \in Ways, NEW s \in Sets, meta_ram'[s][w].valid,
                    NEW o \in Offsets, NEW l \in Lanes
             PROVE  data_ram'[w][s][o][l] = At(meta_ram'[s][w].tag, s, o)
  BY DEF LinesHeld, At
<1> DEFINE a == At(meta_ram[s][w].tag, s, o)
           place == [line |-> w, index |-> s, offset |-> o]
<1>1. /\ meta_ram'[s][w] = meta_ram[s][w] /\ meta_ram[s][w].valid
      /\ ~(h.oper = "INVALID" /\ s = Index(1) /\ w = h.op_line)
  BY MetaLeft
<1>2. ~Victim(w, s) /\ LinesHeld /\ RamClock /\ OneCopy
  BY PhaseNames DEF Victim, Fetching, CacheInv, TypeOK, Clock
<1>3. data_ram[w][s][o][l] = a
  BY <1>1, <1>2 DEF LinesHeld
<1>4. data_ram'[w][s][o][l] =
        CASE PortAddr(2) = place /\ l \in PortWen(2) -> PortDataW(2)[l]
          [] /\ ~(PortAddr(2) = place /\ l \in PortWen(2))
             /\ PortAddr(1) = place /\ l \in PortWen(1) -> PortDataW(1)[l]
          [] OTHER -> Aged(data_ram[w][s][o])[l]
  BY <1>2 DEF RamClock
<1>5. \A p \in Ports : PortAddr(p) = place /\ l \in PortWen(p) => AddrOf(h.req[p]) = a
  <2> SUFFICES ASSUME NEW p \in Ports, PortAddr(p) = place, l \in PortWen(p)
               PROVE  AddrOf(h.req[p]) = a
    OBVIOUS
  <2>1. Performs(p)
    BY WrittenBytes
  <2>2. /\ meta_ram[Index(p)][PortLine(p)] = LineOf(Tag(p))
        /\ PortAddr(p) = [line |-> PortLine(p), index |-> Index(p), offset |-> h.req[p].offset]
        /\ AddrOf(h.req[p]) = At(Tag(p), Index(p), h.req[p].offset)
    BY <2>1, Placed
  <2>3. w = PortLine(p) /\ s = Index(p) /\ o = h.req[p].offset
    BY <2>2
  <2>4. QED
    BY <2>2, <2>3 DEF LineOf
<1>6. CASE PortAddr(2) = place /\ l \in PortWen(2)
  <2>1. PortDataW(2)[l] = AddrOf(h.req[2])
    BY <1>6, WrittenBytes DEF Ports
  <2>2. QED
    BY <1>1, <1>4, <1>5, <1>6, <2>1 DEF Ports
<1>7. CASE /\ ~(PortAddr(2) = place /\ l \in PortWen(2))
           /\ PortAddr(1) = place /\ l \in PortWen(1)
  <2>1. PortDataW(1)[l] = AddrOf(h.req[1])
    BY <1>7, WrittenBytes DEF Ports
  <2>2. QED
    BY <1>1, <1>4, <1>5, <1>7, <2>1 DEF Ports
<1>8. CASE \A p \in Ports : ~(PortAddr(p) = place /\ l \in PortWen(p))
  <2>1. a \notin Stored(l)
    BY <1>1, <1>8, AgedIsWritten
  <2>2. a \notin Dropped
    BY <1>1, DroppedLine DEF At
  <2>3. Aged(data_ram[w][s][o])[l] = a
    BY <1>3, <2>1, <2>2 DEF Aged
  <2>4. data_ram'[w][s][o][l] = Aged(data_ram[w][s][o])[l]
    BY <1>4, <1>8 DEF Ports
  <2>5. QED
    BY <1>1, <2>3, <2>4
<1>9. QED
  BY <1>6, <1>7, <1>8 DEF Ports

-----------------------------------------------------------------------------
(* Memory. *)

(* The line a write-back is for: it is valid, and it stays as it is. *)
LEMMA WritingLine ==
  ASSUME CacheInv, WritingBack
  PROVE  /\ ~en /\ ~Fetching /\ Port \in {0, 1, 2}
         /\ CbusIndex = miss_addr.index /\ CbusIndex \in Sets /\ CbusTag \in Tags
         /\ miss_addr.line \in Ways
         /\ meta_ram[CbusIndex][miss_addr.line] = LineOf(CbusTag)
         /\ BeatAddr = At(CbusTag, CbusIndex, bus_beat) /\ BeatAddr \in Addr
         /\ Port = 0 => /\ h.oper = "WRITEBACK_INVALID" /\ CbusIndex = Index(1)
                        /\ CbusTag = h.meta[1][h.op_line].tag
         /\ Port # 0 => /\ h.oper = "REQ" /\ Misses(Port) /\ CbusIndex = Index(Port)
                        /\ CbusTag = h.meta[Port][ReplaceLine(Port)].tag
                        /\ miss_addr.line = ReplaceLine(Port)
<1>1. /\ state # Idle /\ ~Fetching /\ Port \in {0, 1, 2} /\ state = Writeback(Port)
      /\ Port # 0 => Port \in Ports
      /\ TypeOK /\ WriteBack /\ Working /\ RestTypeOK
  BY PhaseCases DEF CacheInv, Ports
<1>2. ~en /\ miss_addr.index \in Sets /\ miss_addr.line \in Ways /\ bus_beat \in Offsets
  BY <1>1 DEF TypeOK
<1>3. /\ CbusIndex = miss_addr.index /\ meta_ram[CbusIndex][miss_addr.line] = LineOf(CbusTag)
  BY <1>1 DEF WriteBack
<1>4. CbusTag \in Tags
  <2>1. meta_ram[CbusIndex][miss_addr.line] \in Meta
    BY <1>1, <1>2, <1>3 DEF TypeOK, Meta
  <2>2. QED
    BY <1>3, <2>1 DEF Meta, LineOf
<1>5. BeatAddr = At(CbusTag, CbusIndex, bus_beat) /\ BeatAddr \in Addr
  BY <1>2, <1>3, <1>4 DEF BeatAddr, At, Addr
<1>6. Port = 0 => /\ h.oper = "WRITEBACK_INVALID" /\ CbusIndex = Index(1)
                  /\ CbusTag = h.meta[1][h.op_line].tag
  BY <1>1 DEF Working, CbusIndex, CbusTag, Index
<1>7. Port # 0 => /\ h.oper = "REQ" /\ Misses(Port) /\ CbusIndex = Index(Port)
                  /\ CbusTag = h.meta[Port][ReplaceLine(Port)].tag
                  /\ miss_addr.line = ReplaceLine(Port)
  BY <1>1 DEF Working, CbusIndex, CbusTag, Index
<1>8. QED
  BY <1>1, <1>2, <1>3, <1>4, <1>5, <1>6, <1>7

(* A beat the bus takes of a write-back is the word of the line: the buffer *)
(* is filled ahead of the bus. *)
LEMMA BeatIsBuffered ==
  ASSUME CacheInv, WritingBack, bus_busy
  PROVE  /\ delay_counter /\ offset_count = bus_beat /\ bus_beat \in Offsets
         /\ \A l \in Lanes : buffer[offset_count][l] = BeatAddr
<1>1. /\ delay_counter /\ offset_count = bus_beat /\ bus_beat \in Offsets
      /\ WriteBack /\ buffer_offset \in Offsets
      /\ BeatAddr = At(CbusTag, CbusIndex, bus_beat)
  <2>1. delay_counter
    BY DEF CacheInv, BusInStep, DcreqValid, WritingBack, Fetching
  <2>2. QED
    BY <2>1, WritingLine DEF CacheInv, WriteBack, TypeOK
<1>2. Buffered(bus_beat)
  BY <1>1 DEF WriteBack
<1>3. QED
  BY <1>1, <1>2 DEF Buffered

(* While an access is in progress memory only gets more current. *)
LEMMA MemoryDuring ==
  ASSUME CacheInv, ~en, NEW acc, NEW ready \in BOOLEAN, Clock(acc, ready)
  PROVE  /\ \A a \in Addr, l \in Lanes : mem_current[a][l] => mem_current'[a][l]
         /\ WritingBack /\ ready => \A l \in Lanes : mem_current'[BeatAddr][l]
         /\ \A t \in Tags, s \in Sets : InMemory(t, s) => InMemory(t, s)'
<1>1. MemClock(Resp(ready)) /\ (ready => bus_busy) /\ Resp(ready).ready = ready
  BY DEF Clock, Resp
<1>2. \A l \in Lanes : Stored(l) = {} /\ Dropped = {}
  BY Waiting
<1>3. ASSUME NEW a \in Addr, NEW l \in Lanes
      PROVE  mem_current'[a][l] = IF WritingBack /\ ready /\ a = BeatAddr
                                  THEN buffer[offset_count][l] = a
                                  ELSE mem_current[a][l]
  <2>1. mem_current'[a][l] = IF WritingBack /\ ready /\ a = BeatAddr
                             THEN buffer[offset_count][l] = a
                             ELSE (mem_current[a][l] /\ a \notin Stored(l)) \/ a \in Dropped
    BY <1>1 DEF MemClock
  <2>2. mem_current[a][l] \in BOOLEAN
    BY DEF CacheInv, RestTypeOK
  <2>3. ((mem_current[a][l] /\ a \notin Stored(l)) \/ a \in Dropped) = mem_current[a][l]
    BY <1>2, <2>2
  <2>4. QED
    BY <2>1, <2>3
<1>4. WritingBack /\ ready =>
        BeatAddr \in Addr /\ \A l \in Lanes : buffer[offset_count][l] = BeatAddr
  BY <1>1, BeatIsBuffered, WritingLine
<1>5. \A a \in Addr, l \in Lanes : mem_current[a][l] => mem_current'[a][l]
  BY <1>3, <1>4
<1>6. WritingBack /\ ready => \A l \in Lanes : mem_current'[BeatAddr][l]
  BY <1>3, <1>4
<1>7. \A t \in Tags, s \in Sets : InMemory(t, s) => InMemory(t, s)'
  <2>1. \A t \in Tags, s \in Sets, o \in Offsets :
          At(t, s, o) \in Addr /\ At(t, s, o)' = At(t, s, o)
    BY DEF At, Addr
  <2>2. QED
    BY <1>5, <2>1 DEF InMemory
<1>8. QED
  BY <1>5, <1>6, <1>7

(* No refill overwrites a byte that memory does not have. *)
LEMMA MemoryHeldWaiting ==
  ASSUME CacheInv, ~en, NEW acc, NEW ready \in BOOLEAN, Clock(acc, ready)
  PROVE  MemoryHeld'
<1> SUFFICES ASSUME NEW a \in Addr, NEW l \in Lanes
             PROVE  \/ mem_current'[a][l]
                    \/ \E w \in Ways : /\ meta_ram'[a.index][w] = LineOf(a.tag)
                                       /\ cache_dirty'[w][a.index]
  BY DEF MemoryHeld, LineOf
<1>1. /\ a.index \in Sets /\ a.tag \in Tags /\ a.offset \in Offsets
      /\ a = At(a.tag, a.index, a.offset)
  BY DEF Addr, At
<1>2. CASE mem_current[a][l]
  BY <1>2, MemoryDuring
<1>3. CASE ~mem_current[a][l]
  <2>1. PICK w \in Ways : /\ meta_ram[a.index][w] = LineOf(a.tag)
                          /\ cache_dirty[w][a.index]
    BY <1>3 DEF CacheInv, MemoryHeld
  <2>2. ~Victim(w, a.index)
    <3>1. SUFFICES ASSUME Fetching, w = miss_addr.line, a.index = miss_addr.index
                   PROVE  FALSE
      BY DEF Victim
    <3>2. /\ a.index = Index(Port)
          /\ meta_ram[Index(Port)][w] = IF state \in ended THEN LineOf(Tag(Port))
                                        ELSE h.meta[Port][w]
      BY <3>1, OtherWay
    <3>3. Refill
      BY DEF CacheInv
    <3>4. CASE state \in ended
      <4>1. a.tag = Tag(Port)
        BY <2>1, <3>2, <3>4 DEF LineOf
      <4>2. InMemory(Tag(Port), Index(Port))
        BY <3>1, <3>3 DEF Refill
      <4>3. QED
        BY <1>1, <1>3, <3>2, <4>1, <4>2 DEF InMemory
    <3>5. CASE state \notin ended
      <4>1. h.meta[Port][miss_addr.line] = LineOf(a.tag)
        BY <2>1, <3>1, <3>2, <3>5
      <4>2. InMemory(a.tag, Index(Port))
        BY <3>1, <3>3, <3>5, <4>1 DEF Refill, LineOf
      <4>3. QED
        BY <1>1, <1>3, <3>2, <4>2 DEF InMemory
    <3>6. QED
      BY <3>4, <3>5
  <2>3. meta_ram'[a.index][w] = LineOf(a.tag)
    BY <1>1, <2>1, <2>2, MetaDuring
  <2>4. cache_dirty'[w][a.index]
    <3>1. CASE Fetching
      <4>1. cache_dirty' =
              [cache_dirty EXCEPT ![miss_addr.line][Index(Port)] = h.req[Port].strobe # {}]
        BY <3>1, DirtyWaiting
      <4>2. w # miss_addr.line \/ a.index # Index(Port)
        BY <2>2, <3>1, OtherWay DEF Victim
      <4>3. cache_dirty \in [Ways -> [Sets -> BOOLEAN]]
        BY DEF CacheInv, TypeOK
      <4>4. \A v, i, b : w # v \/ a.index # i =>
              [cache_dirty EXCEPT ![v][i] = b][w][a.index] = cache_dirty[w][a.index]
        BY <1>1, <4>3
      <4>5. QED
        BY <2>1, <4>1, <4>2, <4>4
    <3>2. CASE ~Fetching
      BY <1>1, <2>1, <3>2, DirtyWaiting
    <3>3. QED
      BY <3>1, <3>2
  <2>5. QED
    BY <2>3, <2>4
<1>4. QED
  BY <1>2, <1>3

(* Two stores are to one line, so the dirty bit of port 2 is both. *)
LEMMA DirtyAccepting ==
  ASSUME CacheInv, en, NEW acc, NEW ready \in BOOLEAN, Clock(acc, ready)
  PROVE  /\ \A w \in Ways, s \in Sets : cache_dirty[w][s] => cache_dirty'[w][s]
         /\ \A p \in Ports : Performs(p) /\ h.req[p].strobe # {} =>
              cache_dirty'[PortLine(p)][Index(p)]
<1> DEFINE Marked(p) == [cache_dirty EXCEPT ![h.line[p]][h.req[p].index] = TRUE]
<1>1. /\ DirtyClock /\ state = Idle /\ ~Fetching
      /\ cache_dirty \in [Ways -> [Sets -> BOOLEAN]]
  BY PhaseNames DEF Clock, CacheInv, TypeOK, Fetching
<1>2. \A p \in Ports : h.line[p] \in Ways /\ h.req[p].index \in Sets
  BY RequestTypes DEF CacheInv, Index
<1>3. cache_dirty' = CASE h.oper = "REQ" /\ StoreHit(2) -> Marked(2)
                       [] h.oper = "REQ" /\ ~StoreHit(2) /\ StoreHit(1) -> Marked(1)
                       [] OTHER -> cache_dirty
  BY <1>1 DEF DirtyClock
<1>4. \A p \in Ports : /\ \A w \in Ways, s \in Sets : cache_dirty[w][s] => Marked(p)[w][s]
                       /\ Marked(p)[h.line[p]][h.req[p].index]
  BY <1>1, <1>2
<1>5. \A w \in Ways, s \in Sets : cache_dirty[w][s] => cache_dirty'[w][s]
  <2>1. cache_dirty' \in {cache_dirty, Marked(1), Marked(2)}
    BY <1>3
  <2>2. QED
    BY <1>4, <2>1 DEF Ports
<1>6. ASSUME NEW p \in Ports, Performs(p), h.req[p].strobe # {}
      PROVE  cache_dirty'[PortLine(p)][Index(p)]
  <2>1. h.oper = "REQ" /\ h.req[p].valid /\ ~h.req[p].unc
    BY <1>6 DEF Performs
  <2>2. CASE ~h.hit[p]
    BY <1>5, <1>6, <2>2, Placed
  <2>3. CASE h.hit[p]
    <3>1. StoreHit(p) /\ PortLine(p) = h.line[p]
      BY <1>6, <2>1, <2>3 DEF StoreHit, CacheHit, PortLine
    <3>2. CASE p = 2 \/ ~StoreHit(2)
      <4>1. cache_dirty' = Marked(p)
        BY <1>3, <1>6, <2>1, <3>1, <3>2 DEF Ports
      <4>2. QED
        BY <1>4, <3>1, <4>1 DEF Index
    <3>3. CASE p = 1 /\ StoreHit(2)
      <4>1. cache_dirty' = Marked(2)
        BY <1>3, <2>1, <3>3
      <4>2. BothCached(h.req) /\ Served(h.req) /\ h.req[2].strobe # {}
        BY <2>1, <3>3 DEF StoreHit, CacheHit, BothCached, Ports, CacheInv,
           LookedUp
      <4>3. Index(1) = Index(2) /\ Tag(1) = Tag(2)
        BY <1>6, <3>3, <4>2 DEF Served, Index, Tag
      <4>4. h.line[1] = h.line[2]
        BY <4>3 DEF CacheInv, LookedUp, IndexEqual, Index
      <4>5. QED
        BY <1>4, <3>1, <3>3, <4>1, <4>3, <4>4 DEF Index, Ports
    <3>4. QED
      BY <3>2, <3>3 DEF Ports
  <2>4. QED
    BY <2>2, <2>3
<1>7. QED
  BY <1>5, <1>6

(* What a cycle's stores make old in memory is in a line marked dirty. *)
LEMMA MemoryHeldAccepting ==
  ASSUME CacheInv, en, NEW acc, NEW ready \in BOOLEAN, Clock(acc, ready)
  PROVE  MemoryHeld'
<1> SUFFICES ASSUME NEW a \in Addr, NEW l \in Lanes
             PROVE  \/ mem_current'[a][l]
                    \/ \E w \in Ways : /\ meta_ram'[a.index][w] = LineOf(a.tag)
                                       /\ cache_dirty'[w][a.index]
  BY DEF MemoryHeld, LineOf
<1>1. /\ a.index \in Sets /\ a.tag \in Tags /\ a.offset \in Offsets
      /\ a = At(a.tag, a.index, a.offset)
      /\ LineOf(a.tag).valid /\ LineOf(a.tag).tag = a.tag
  BY DEF Addr, At, LineOf
<1>2. mem_current'[a][l] <=> (mem_current[a][l] /\ a \notin Stored(l)) \/ a \in Dropped
  <2>1. ~WritingBack /\ MemClock(Resp(ready))
    BY PhaseNames DEF CacheInv, TypeOK, Clock, WritingBack
  <2>2. QED
    BY <2>1 DEF MemClock
<1>3. CASE a \in Stored(l)
  <2>1. PICK q \in Ports : l \in StoreLanes(q) /\ AddrOf(h.req[q]) = a
    BY <1>3 DEF Stored
  <2>2. Performs(q) /\ h.req[q].strobe # {}
    BY <2>1, StoresOf
  <2>3. /\ PortLine(q) \in Ways /\ Index(q) = a.index /\ Tag(q) = a.tag
        /\ meta_ram[Index(q)][PortLine(q)] = LineOf(Tag(q))
    BY <2>1, <2>2, Placed DEF AddrOf, Index, Tag
  <2>4. cache_dirty'[PortLine(q)][Index(q)]
    BY <2>2, DirtyAccepting
  <2>5. meta_ram'[a.index][PortLine(q)] = meta_ram[a.index][PortLine(q)]
    <3>1. h.oper = "REQ"
      BY <2>2 DEF Performs
    <3>2. QED
      BY <1>1, <2>3, <3>1, MetaLeft
  <2>6. QED
    BY <2>3, <2>4, <2>5
<1>4. CASE a \notin Stored(l) /\ ~mem_current[a][l]
  <2>1. PICK w \in Ways : /\ meta_ram[a.index][w] = LineOf(a.tag)
                          /\ cache_dirty[w][a.index]
    BY <1>4 DEF CacheInv, MemoryHeld
  <2>2. cache_dirty'[w][a.index]
    BY <1>1, <2>1, DirtyAccepting
  <2>3. CASE meta_ram'[a.index][w] = meta_ram[a.index][w]
    BY <2>1, <2>2, <2>3
  <2>4. CASE meta_ram'[a.index][w] # meta_ram[a.index][w]
    <3>1. /\ h.oper \in {"INVALID", "WRITEBACK_INVALID"}
          /\ a.index = Index(1) /\ w = h.op_line
      BY <1>1, <2>4, MetaLeft
    <3>2. h.meta[1][h.op_line] = LineOf(a.tag)
      BY <2>1, <3>1 DEF CacheInv, MetaHeld, Operations
    <3>3. CASE h.oper = "INVALID"
      <4>1. a \in Dropped
        BY <1>1, <3>1, <3>2, <3>3 DEF Dropped, Index
      <4>2. QED
        BY <1>2, <4>1
    <3>4. CASE h.oper = "WRITEBACK_INVALID"
      <4>1. InMemory(a.tag, Index(1))
        BY <1>1, <3>2, <3>4 DEF CacheInv, WrittenBack
      <4>2. mem_current[a][l]
        BY <1>1, <3>1, <4>1 DEF InMemory
      <4>3. QED
        BY <1>4, <4>2
    <3>5. QED
      BY <3>1, <3>3, <3>4
  <2>5. QED
    BY <2>3, <2>4
<1>5. CASE a \notin Stored(l) /\ mem_current[a][l]
  BY <1>2, <1>5
<1>6. QED
  BY <1>3, <1>4, <1>5

-----------------------------------------------------------------------------
(* Refills and write-backs. *)

(* A burst starts at its first beat. *)
LEMMA FirstBeat ==
  ASSUME CacheInv, NEW acc, NEW ready \in BOOLEAN, Clock(acc, ready)
  PROVE  /\ state = Idle => bus_beat' = 0
         /\ Resp(ready).last => bus_beat' = 0
         /\ ~DcreqValid => ~bus_busy'
<1>1. BusClock(Resp(ready)) /\ (ready => bus_busy) /\ BusInStep
  BY DEF Clock, CacheInv
<1>2. Resp(ready).last => bus_beat' = 0
  BY <1>1 DEF BusClock
<1>3. ~DcreqValid => ~bus_busy'
  BY <1>1 DEF BusClock
<1>4. state = Idle => bus_beat' = 0
  <2>1. state = Idle => ~DcreqValid
    BY PhaseNames DEF DcreqValid, Fetching, WritingBack
  <2>2. state = Idle => ~ready /\ ~Resp(ready).last /\ bus_beat = 0
    BY <1>1, <2>1 DEF BusInStep, Resp
  <2>3. Resp(ready).ready = ready
    BY DEF Resp
  <2>4. QED
    BY <1>1, <2>2, <2>3 DEF BusClock
<1>5. QED
  BY <1>2, <1>3, <1>4

(* A line that is to be fetched is in memory. *)
LEMMA MissInMemory ==
  ASSUME CacheInv, h.oper = "REQ", NEW p \in Ports, Misses(p), Fetch(p) \notin ended,
         p = 2 => ~SameLine
  PROVE  /\ InMemory(Tag(p), Index(p))
         /\ meta_ram[Index(p)] = h.meta[p]
         /\ Tag(p) \in Tags /\ Index(p) \in Sets
<1>1. Tag(p) \in Tags /\ Index(p) \in Sets
  BY RequestTypes DEF CacheInv
<1>2. meta_ram[Index(p)] = h.meta[p]
  BY DEF CacheInv, MetaHeld
<1>3. \A w \in Ways : meta_ram[Index(p)][w] # LineOf(Tag(p))
  <2>1. LookedUp
    BY DEF CacheInv
  <2>2. \A w \in Ways : h.meta[p][w] # LineOf(Tag(p))
    BY <2>1 DEF LookedUp, Misses
  <2>3. QED
    BY <1>2, <2>2
<1>4. QED
  BY <1>1, <1>2, <1>3, AbsentInMemory DEF CacheInv

(* The beats of a write-back put the line into memory, word by word. *)
LEMMA LineWritten ==
  ASSUME CacheInv, NEW acc, NEW ready \in BOOLEAN, Clock(acc, ready), WritingBack,
         NEW t, NEW s, t = CbusTag, s = CbusIndex
  PROVE  /\ \A o \in Offsets, l \in Lanes :
              o < bus_beat \/ (ready /\ o = bus_beat) => mem_current'[At(t, s, o)][l]
         /\ Resp(ready).last => InMemory(t, s)'
<1>1. /\ ~en /\ BeatAddr = At(t, s, bus_beat) /\ BeatAddr \in Addr
      /\ \A o \in Offsets : At(t, s, o) \in Addr
      /\ WriteBack
  BY WritingLine DEF At, Addr, CacheInv
<1>2. \A o \in Offsets, l \in Lanes :
        o < bus_beat \/ (ready /\ o = bus_beat) => mem_current'[At(t, s, o)][l]
  <2> SUFFICES ASSUME NEW o \in Offsets, NEW l \in Lanes, o < bus_beat \/ (ready /\ o = bus_beat)
               PROVE  mem_current'[At(t, s, o)][l]
    OBVIOUS
  <2>1. CASE o < bus_beat
    <3>1. mem_current[At(t, s, o)][l]
      BY <1>1, <2>1 DEF WriteBack
    <3>2. QED
      BY <1>1, <3>1, MemoryDuring
  <2>2. CASE ready /\ o = bus_beat
    BY <1>1, <2>2, MemoryDuring
  <2>3. QED
    BY <2>1, <2>2
<1>3. Resp(ready).last => InMemory(t, s)'
  <2>1. SUFFICES ASSUME Resp(ready).last PROVE InMemory(t, s)'
    OBVIOUS
  <2>2. ready /\ bus_beat = LineWords - 1
    <3>1. (ready => bus_busy) /\ state[1] # "UNCACHE"
      BY DEF Clock, WritingBack
    <3>2. QED
      BY <2>1, <3>1, LastBeat
  <2>3. \A o \in Offsets : o < bus_beat \/ o = bus_beat
    BY <2>2, GeometryAssumption DEF Offsets
  <2>4. \A o \in Offsets, l \in Lanes : mem_current'[At(t, s, o)][l]
    BY <1>2, <2>2, <2>3
  <2>5. QED
    BY <2>4 DEF InMemory, At
<1>4. QED
  BY <1>2, <1>3

(* A refill starts on a line memory has, from a line memory has. *)
LEMMA RefillStep ==
  ASSUME CacheInv, NEW acc \in Accesses \union {NoAccess}, NEW ready \in BOOLEAN,
         Clock(acc, ready)
  PROVE  Refill'
<1> SUFFICES ASSUME Fetching' PROVE Refill'
  BY DEF Refill
<1>1. ~en
  BY FsmByPhase, PhaseNames DEF Clock, fsmVars, Fetching
<1>2. h' = h /\ RestTypeOK /\ TypeOK /\ OneCopy /\ MemoryHeld /\ Working
      /\ ended' = IF state = Idle THEN ended ELSE ended \union {state}
  BY <1>1, Waiting DEF CacheInv
<1>3. \A p \in Ports : Tag(p)' = Tag(p) /\ Index(p)' = Index(p)
  BY <1>2, SameRequest
(* The start of the refill of port p. *)
<1>4. ASSUME NEW p \in Ports, state' = Fetch(p), h.oper = "REQ", Misses(p),
             Fetch(p) \notin ended, p = 2 => ~SameLine,
             bus_beat' = 0, miss_addr'.line = ReplaceLine(p),
             h.meta[p][ReplaceLine(p)].valid =>
               \A t \in Tags : t = h.meta[p][ReplaceLine(p)].tag => InMemory(t, Index(p))'
      PROVE  Refill'
  <2>1. Port' = p
    BY <1>4, PhaseNames DEF Port
  <2>2. /\ InMemory(Tag(p), Index(p)) /\ Tag(p) \in Tags /\ Index(p) \in Sets
    BY <1>4, MissInMemory
  <2>3. \A t \in Tags, s \in Sets : InMemory(t, s) => InMemory(t, s)'
    BY <1>1, MemoryDuring
  <2>4. \A t \in Tags, s \in Sets : t = Tag(p) /\ s = Index(p) => InMemory(t, s)'
    BY <2>2, <2>3
  <2>5. InMemory(Tag(Port), Index(Port))'
    BY <1>3, <2>1, <2>2, <2>4 DEF InMemory
  <2>6. (h.meta[Port][miss_addr.line].valid =>
           InMemory(h.meta[Port][miss_addr.line].tag, Index(Port)))'
    <3>1. h.meta[p][ReplaceLine(p)] \in Meta
      BY <1>2, RequestTypes, ReplaceLineType
    <3>2. h.meta[p][ReplaceLine(p)].tag \in Tags
      BY <3>1 DEF Meta
    <3>3. ASSUME NEW t \in Tags, t = h.meta[p][ReplaceLine(p)].tag, InMemory(t, Index(p))'
          PROVE  InMemory(h.meta[Port][miss_addr.line].tag, Index(Port))'
      BY <1>2, <1>3, <1>4, <2>1, <3>3 DEF InMemory
    <3>4. QED
      BY <1>2, <1>4, <2>1, <3>2, <3>3
  <2>7. \A o \in Offsets : ~(o < bus_beat')
    BY <1>4, GeometryAssumption DEF Offsets
  <2>8. QED
    BY <2>5, <2>6, <2>7 DEF Refill
<1>5. CASE state = Idle /\ state' # Idle
  <2>1. bus_beat' = 0
    BY <1>5, FirstBeat
  <2>2. PICK p \in Ports :
          /\ h.oper = "REQ" /\ Misses(p) /\ Fetch(p) \notin ended /\ (p = 2 => ~SameLine)
          /\ state' = IF CacheDirty(p) /\ Writeback(p) \notin ended
                      THEN Writeback(p) ELSE Fetch(p)
          /\ miss_addr' = [line |-> ReplaceLine(p), index |-> Index(p), offset |-> 0]
    <3>1. state' # Writeback(0) /\ state' # Store /\ \A p : state' # Uncache(p)
      BY PhaseNames DEF Fetching
    <3>2. QED
      BY <1>1, <1>5, <3>1, StartedPhase
  <2>3. state' = Fetch(p) /\ ~(CacheDirty(p) /\ Writeback(p) \notin ended)
    BY <2>2, PhaseNames DEF Fetching
  <2>4. ~CacheDirty(p)
    BY <1>2, <1>5, <2>2, <2>3, PhaseNames DEF Working, Past, Idle, Fetch,
       Writeback
  <2>5. /\ meta_ram[Index(p)] = h.meta[p] /\ Index(p) \in Sets /\ ReplaceLine(p) \in Ways
        /\ h.meta[p][ReplaceLine(p)].valid => ~cache_dirty[ReplaceLine(p)][Index(p)]
    BY <1>2, <2>2, <2>4, MissInMemory, ReplaceLineType DEF CacheDirty, Index
  <2>6. h.meta[p][ReplaceLine(p)].valid => InMemory(h.meta[p][ReplaceLine(p)].tag, Index(p))
    BY <1>2, <2>5, CleanInMemory
  <2>7. \A t \in Tags, s \in Sets : InMemory(t, s) => InMemory(t, s)'
    BY <1>1, MemoryDuring
  <2>8. h.meta[p][ReplaceLine(p)].valid =>
          \A t \in Tags : t = h.meta[p][ReplaceLine(p)].tag => InMemory(t, Index(p))'
    <3>1. \A s \in Sets : s = Index(p) =>
            (h.meta[p][ReplaceLine(p)].valid =>
              \A t \in Tags : t = h.meta[p][ReplaceLine(p)].tag => InMemory(t, s)')
      BY <2>6, <2>7
    <3>2. QED
      BY <1>3, <2>5, <3>1 DEF InMemory
  <2>9. miss_addr'.line = ReplaceLine(p)
    BY <2>2
  <2>10. QED
    BY <1>4, <2>1, <2>2, <2>3, <2>8, <2>9
<1>6. CASE /\ WritingBack /\ Port \in Ports /\ state = Writeback(Port)
           /\ Resp(ready).last /\ state' = Fetch(Port)
  <2>1. PICK p \in Ports : p = Port
    BY <1>6
  <2>2. /\ h.oper = "REQ" /\ Misses(p) /\ Fetch(p) \notin ended /\ (p = 2 => ~SameLine)
        /\ miss_addr.line = ReplaceLine(p) /\ p # 0
    BY <1>2, <1>6, <2>1 DEF Working, Ports
  <2>3. /\ CbusIndex = Index(p) /\ CbusTag = h.meta[p][ReplaceLine(p)].tag
        /\ CbusIndex \in Sets /\ CbusTag \in Tags
    BY <1>6, <2>1, <2>2, WritingLine
  <2>4. \A t, s : t = CbusTag /\ s = CbusIndex => InMemory(t, s)'
    BY <1>6, LineWritten
  <2>5. \A t \in Tags : t = h.meta[p][ReplaceLine(p)].tag => InMemory(t, Index(p))'
    BY <1>3, <2>3, <2>4 DEF InMemory
  <2>6. miss_addr'.line = ReplaceLine(p)
    <3>1. FsmWriteback(Resp(ready))
      BY <1>6, FsmByPhase DEF Clock
    <3>2. miss_addr'.line = miss_addr.line
      BY <1>2, <3>1 DEF FsmWriteback, TypeOK
    <3>3. QED
      BY <2>2, <3>2
  <2>7. bus_beat' = 0
    BY <1>6, FirstBeat
  <2>8. QED
    BY <1>4, <1>6, <2>1, <2>2, <2>5, <2>6, <2>7
<1>7. CASE state' = state
  <2>1. Fetching /\ Port' = Port /\ Port \in Ports /\ Tag(Port) \in Tags /\ Index(Port) \in Sets
        /\ state \in ended' /\ miss_addr.index = Index(Port) /\ Refill
        /\ miss_addr.line \in Ways
    BY <1>1, <1>2, <1>7, OtherWay, PhaseNames DEF Fetching, Port, CacheInv
  <2>2. /\ miss_addr'.line = miss_addr.line /\ miss_addr'.index = miss_addr.index
        /\ miss_addr.offset = bus_beat /\ bus_beat \in Offsets
        /\ BeatAddr = At(Tag(Port), Index(Port), bus_beat)
        /\ bus_beat' \in {bus_beat, bus_beat + 1}
        /\ miss_addr \in [line : Ways, index : Sets, offset : Offsets]
    <3>1. state' # Idle
      BY PhaseNames DEF Fetching
    <3>2. QED
      BY <1>1, <1>2, <2>1, <3>1, FetchStep DEF TypeOK
  <2>3. PICK p \in Ports : p = Port /\ p = Port'
    BY <2>1
  <2>4. InMemory(Tag(p), Index(p))
    BY <2>1, <2>3 DEF Refill
  <2>5. InMemory(Tag(p), Index(p))'
    <3>1. \A t \in Tags, s \in Sets : t = Tag(p) /\ s = Index(p) => InMemory(t, s)'
      BY <1>1, <2>4, MemoryDuring
    <3>2. QED
      BY <1>3, <2>1, <2>3, <3>1 DEF InMemory
  <2>6. ASSUME NEW o \in Offsets, NEW l \in Lanes, o < bus_beat'
        PROVE  data_ram'[miss_addr.line][miss_addr.index][o][l] = At(Tag(p), Index(p), o)
    <3>1. o < bus_beat \/ o = bus_beat
      BY <2>2, <2>6, GeometryAssumption DEF Offsets
    <3>2. CASE o = bus_beat
      <4>1. miss_addr = [line |-> miss_addr.line, index |-> miss_addr.index, offset |-> o]
        BY <2>2, <3>2
      <4>2. mem_current[BeatAddr][l] /\ BeatAddr = At(Tag(p), Index(p), o)
        BY <2>2, <2>3, <2>4, <3>2 DEF InMemory
      <4>3. QED
        BY <1>1, <2>1, <2>3, <4>1, <4>2, RamDuring
    <3>3. CASE o < bus_beat
      <4>1. data_ram[miss_addr.line][miss_addr.index][o][l] = At(Tag(p), Index(p), o)
        BY <2>1, <2>3, <3>3 DEF Refill
      <4>2. miss_addr # [line |-> miss_addr.line, index |-> miss_addr.index, offset |-> o]
        BY <2>2, <3>3 DEF Offsets
      <4>3. QED
        BY <1>1, <2>1, <2>3, <4>1, <4>2, RamDuring
    <3>4. QED
      BY <3>1, <3>2, <3>3
  <2>7. QED
    BY <1>3, <1>7, <2>1, <2>2, <2>3, <2>5, <2>6 DEF Refill, At, InMemory
<1>8. CASE state' = Idle
  BY <1>8, PhaseNames DEF Fetching
<1>9. QED
  BY <1>1, <1>5, <1>6, <1>7, <1>8, NextPhase

(* The line, and with it the address, of a write-back that goes on. *)
LEMMA WriteBackStays ==
  ASSUME CacheInv, NEW acc, NEW ready \in BOOLEAN, Clock(acc, ready), WritingBack,
         state' = state
  PROVE  /\ CbusTag' = CbusTag /\ CbusIndex' = CbusIndex
         /\ miss_addr'.line = miss_addr.line /\ miss_addr'.index = miss_addr.index
         /\ meta_ram'[CbusIndex][miss_addr.line] = LineOf(CbusTag)
         /\ ~Resp(ready).last
<1>1. /\ ~en /\ ~Fetching /\ Port' = Port /\ CbusIndex \in Sets /\ miss_addr.line \in Ways
      /\ meta_ram[CbusIndex][miss_addr.line] = LineOf(CbusTag)
  BY WritingLine DEF Port
<1>2. h' = h
  BY <1>1, Waiting
<1>3. CbusIndex' = CbusIndex
  BY <1>1, <1>2 DEF CbusIndex
<1>4. Port = 0 => CbusTag' = CbusTag
  BY <1>1, <1>2 DEF CbusTag, Fetching, WritingBack
<1>5. ASSUME Port # 0 PROVE CbusTag' = CbusTag
  <2>1. Port \in Ports /\ h.oper = "REQ" /\ Misses(Port) /\ \A q \in Ports : state # Fetch(q)
    BY <1>5, WritingLine, PhaseNames DEF Ports, WritingBack
  <2>2. ReplaceLine(Port)' = ReplaceLine(Port)
    <3>1. PICK p \in Ports : p = Port /\ p = Port'
      BY <1>1, <2>1
    <3>2. ReplaceLine(p)' = ReplaceLine(p)
      BY <1>1, <2>1, <3>1, WayStays
    <3>3. QED
      BY <3>1, <3>2
  <2>3. QED
    BY <1>1, <1>2, <1>5, <2>2 DEF CbusTag, Fetching, WritingBack
<1>6. CbusTag' = CbusTag
  BY <1>4, <1>5
<1>7. meta_ram'[CbusIndex][miss_addr.line] = LineOf(CbusTag)
  BY <1>1, MetaDuring DEF Victim
<1>8. ~Resp(ready).last
  BY NextPhase, <1>1, PhaseNames DEF WritingBack
<1>9. miss_addr'.line = miss_addr.line /\ miss_addr'.index = miss_addr.index
  <2>1. FsmWriteback(Resp(ready)) /\ miss_addr \in [line : Ways, index : Sets, offset : Offsets]
    BY FsmByPhase DEF Clock, CacheInv, TypeOK
  <2>2. QED
    BY <2>1 DEF FsmWriteback
<1>10. QED
  BY <1>3, <1>6, <1>7, <1>8, <1>9

(* The word of the line that port 2 reads in a write-back. *)
LEMMA WordRead ==
  ASSUME CacheInv, NEW acc, NEW ready \in BOOLEAN, Clock(acc, ready), WritingBack,
         NEW l \in Lanes
  PROVE  port_data_r'[2][l] = At(CbusTag, CbusIndex, miss_addr.offset)
<1>1. /\ ~en /\ ~Fetching /\ CbusIndex = miss_addr.index /\ CbusIndex \in Sets
      /\ miss_addr.line \in Ways /\ miss_addr.offset \in Offsets
      /\ meta_ram[CbusIndex][miss_addr.line] = LineOf(CbusTag)
      /\ LinesHeld /\ RamClock
  BY WritingLine DEF CacheInv, TypeOK, Clock
<1>2. LineOf(CbusTag).valid /\ LineOf(CbusTag).tag = CbusTag
  BY DEF LineOf
<1>3. meta_ram[CbusIndex][miss_addr.line].valid
      /\ meta_ram[CbusIndex][miss_addr.line].tag = CbusTag
      /\ ~Victim(miss_addr.line, CbusIndex)
  BY <1>1, <1>2 DEF Victim
<1>4. data_ram[miss_addr.line][CbusIndex][miss_addr.offset][l] =
        At(CbusTag, CbusIndex, miss_addr.offset)
  BY <1>1, <1>3 DEF LinesHeld
<1>5. PortAddr(2) = miss_addr
  BY PhaseNames DEF WritingBack, PortAddr
<1>6. l \notin StoreLanes(1)
  BY <1>1, Waiting DEF Ports
<1>7. RamWord(2)[l] = At(CbusTag, CbusIndex, miss_addr.offset)
  BY <1>1, <1>4, <1>5, <1>6 DEF RamWord
<1>8. port_data_r'[2] = RamWord(2)
  BY <1>1 DEF RamClock, Ports
<1>9. QED
  BY <1>7, <1>8

(* The buffer is one word further when the read port is. *)
LEMMA BufferStep ==
  ASSUME CacheInv, NEW acc, NEW ready \in BOOLEAN, Clock(acc, ready), WritingBack,
         delay_counter, ~Resp(ready).last,
         NEW k \in Offsets, k = buffer_offset \/ Buffered(k), NEW l \in Lanes
  PROVE  buffer'[k][l] = At(CbusTag, CbusIndex, k)
<1>1. /\ FsmWriteback(Resp(ready)) /\ buffer \in [Offsets -> Word] /\ buffer_offset \in Offsets
      /\ WriteBack
  BY FsmByPhase DEF Clock, CacheInv, TypeOK
<1>2. buffer' = [buffer EXCEPT ![buffer_offset] = port_data_r[2]]
  BY <1>1 DEF FsmWriteback
<1>3. port_data_r[2][l] = At(CbusTag, CbusIndex, buffer_offset)
  BY <1>1 DEF WriteBack
<1>4. QED
  BY <1>1, <1>2, <1>3 DEF Buffered

(* The write-back buffer stays ahead of the bus. *)
LEMMA WriteBackStep ==
  ASSUME CacheInv, NEW acc \in Accesses \union {NoAccess}, NEW ready \in BOOLEAN,
         Clock(acc, ready)
  PROVE  WriteBack'
<1> SUFFICES ASSUME WritingBack' PROVE WriteBack'
  BY DEF WriteBack
<1>1. ~en
  BY FsmByPhase, PhaseNames DEF Clock, fsmVars, WritingBack
<1>2. /\ h' = h /\ RestTypeOK /\ TypeOK /\ Working
      /\ FsmClock(Resp(ready)) /\ BusClock(Resp(ready)) /\ (ready => bus_busy)
      /\ Resp(ready).ready = ready
  BY <1>1, Waiting DEF CacheInv, Clock, Resp
<1>3. CASE state = Idle /\ state' # Idle
  <2>1. /\ bus_beat' = 0 /\ delay_counter' = FALSE
        /\ \A w \in Ways, s \in Sets : meta_ram'[s][w] = meta_ram[s][w]
    <3>1. ~Fetching
      BY <1>3, PhaseNames DEF Fetching
    <3>2. FsmIdle
      BY <1>1, <1>2, <1>3, FsmByPhase
    <3>3. QED
      BY <1>1, <1>3, <3>1, <3>2, FirstBeat, MetaDuring DEF FsmIdle, Victim
  <2>2. /\ offset_count' = 0 /\ miss_addr'.offset = 0 /\ miss_addr'.index = CbusIndex'
        /\ meta_ram'[CbusIndex'][miss_addr'.line] = LineOf(CbusTag')
    <3>1. state' # Store /\ \A p : state' # Uncache(p) /\ state' # Fetch(p)
      BY PhaseNames DEF WritingBack
    <3>2. CASE /\ state' = Writeback(0) /\ h.oper = "WRITEBACK_INVALID" /\ WbDirty
               /\ miss_addr' = [line |-> h.op_line, index |-> Index(1), offset |-> 0]
               /\ offset_count' = 0
      <4>1. Port' = 0 /\ CbusIndex' = Index(1) /\ CbusTag' = h.meta[1][h.op_line].tag
        BY <1>2, <3>2, PhaseNames
           DEF Port, CbusIndex, CbusTag, Index, Fetching, WritingBack
      <4>2. /\ h.meta[1][h.op_line].valid /\ h.meta[1][h.op_line] \in Meta
            /\ meta_ram[Index(1)] = h.meta[1] /\ Index(1) \in Sets /\ h.op_line \in Ways
        BY <1>2, <3>2, RequestTypes DEF WbDirty, CacheInv, MetaHeld,
           Operations, Ports
      <4>3. h.meta[1][h.op_line] = LineOf(h.meta[1][h.op_line].tag)
        BY <4>2 DEF Meta, LineOf
      <4>4. QED
        BY <2>1, <3>2, <4>1, <4>2, <4>3
    <3>3. ASSUME NEW p \in Ports, h.oper = "REQ", Misses(p), Fetch(p) \notin ended,
                 p = 2 => ~SameLine, state' = Writeback(p), CacheDirty(p),
                 miss_addr' = [line |-> ReplaceLine(p), index |-> Index(p), offset |-> 0]
          PROVE  /\ miss_addr'.offset = 0 /\ miss_addr'.index = CbusIndex'
                 /\ meta_ram'[CbusIndex'][miss_addr'.line] = LineOf(CbusTag')
      <4>1. ReplaceLine(p)' = ReplaceLine(p)
        BY <1>1, <1>3, <3>3, WayStays, PhaseNames
      <4>2. Port' = p /\ p # 0 /\ CbusIndex' = Index(p)
            /\ CbusTag' = h.meta[p][ReplaceLine(p)].tag
        <5>1. Port' = p /\ p # 0
          BY <3>3, PhaseNames DEF Port, Ports
        <5>2. (CbusIndex = Index(Port) /\ CbusTag = h.meta[Port][ReplaceLine(Port)].tag)'
          BY <5>1, <3>3, PhaseNames DEF CbusIndex, CbusTag, Index, Fetching,
             WritingBack
        <5>3. ReplaceLine(Port)' = ReplaceLine(p)' /\ Index(Port)' = Index(p)'
          BY <5>1 DEF ReplaceLine, Index
        <5>4. QED
          BY <1>2, <4>1, <5>1, <5>2, <5>3, SameRequest
      <4>3. /\ h.meta[p][ReplaceLine(p)].valid /\ h.meta[p][ReplaceLine(p)] \in Meta
            /\ meta_ram[Index(p)] = h.meta[p] /\ Index(p) \in Sets /\ ReplaceLine(p) \in Ways
        BY <1>2, <3>3, MissInMemory, ReplaceLineType, RequestTypes DEF
           CacheDirty
      <4>4. h.meta[p][ReplaceLine(p)] = LineOf(h.meta[p][ReplaceLine(p)].tag)
        BY <4>3 DEF Meta, LineOf
      <4>5. QED
        BY <2>1, <3>3, <4>2, <4>3, <4>4
    <3>4. QED
      BY <1>1, <1>3, <3>1, <3>2, <3>3, StartedPhase
  <2>3. \A o \in Offsets : ~(o < bus_beat')
    BY <2>1, GeometryAssumption DEF Offsets
  <2>4. QED
    BY <2>1, <2>2, <2>3 DEF WriteBack
<1>4. CASE state' = state
  <2>1. /\ WritingBack /\ CbusTag' = CbusTag /\ CbusIndex' = CbusIndex
        /\ miss_addr'.line = miss_addr.line /\ miss_addr'.index = CbusIndex
        /\ meta_ram'[CbusIndex][miss_addr.line] = LineOf(CbusTag)
        /\ ~Resp(ready).last
    <3>1. WritingBack
      BY <1>4 DEF WritingBack
    <3>2. QED
      BY <1>4, <3>1, WriteBackStays, WritingLine
  <2>2. /\ offset_count' = IF ready THEN (offset_count + 1) % LineWords ELSE offset_count
        /\ miss_addr'.offset = NextOffset
        /\ buffer_offset' = miss_addr.offset /\ delay_counter' = TRUE
        /\ bus_beat' = (IF ready THEN bus_beat + 1 ELSE bus_beat)
        /\ bus_busy' => DcreqValid
    <3>1. FsmWriteback(Resp(ready)) /\ ~Resp(ready).last
      BY <1>2, <2>1, FsmByPhase
    <3>2. bus_beat' = (IF ready THEN bus_beat + 1 ELSE bus_beat)
      BY <1>2, <3>1 DEF BusClock
    <3>3. bus_busy' => DcreqValid
      BY <1>2, <3>1 DEF BusClock
    <3>4. miss_addr'.offset = NextOffset
      BY <1>2, <3>1 DEF FsmWriteback, TypeOK
    <3>5. QED
      BY <1>2, <3>1, <3>2, <3>3, <3>4 DEF FsmWriteback
  <2>3. /\ bus_beat \in Offsets /\ offset_count = bus_beat /\ buffer_offset \in Offsets
        /\ miss_addr.offset \in Offsets
        /\ ready => bus_beat # LineWords - 1
        /\ WriteBack /\ BusInStep /\ LineWords \in Nat \ {0}
    BY <1>2, <2>1, LastBeat, GeometryAssumption DEF CacheInv, WriteBack,
       WritingBack, TypeOK
  <2>4. offset_count' = bus_beat'
    <3>1. (bus_beat + 1) % LineWords = IF bus_beat + 1 = LineWords THEN 0 ELSE bus_beat + 1
      BY <2>3, Successor
    <3>2. QED
      BY <2>2, <2>3, <3>1 DEF Offsets
  <2>5. \A o \in Offsets, l \in Lanes :
          o < bus_beat' => mem_current'[At(CbusTag, CbusIndex, o)][l]
    <3>1. \A o \in Offsets : o < bus_beat' => o < bus_beat \/ (ready /\ o = bus_beat)
      BY <2>2, <2>3 DEF Offsets
    <3>2. QED
      BY <2>1, <3>1, LineWritten
  <2>6. \A l \in Lanes : port_data_r'[2][l] = At(CbusTag, CbusIndex, miss_addr.offset)
    BY <2>1, WordRead
  <2>7. \/ \A k \in Offsets, l \in Lanes : buffer'[k][l] = At(CbusTag, CbusIndex, k)
        \/ /\ \A k \in Offsets, l \in Lanes :
                k < buffer_offset' => buffer'[k][l] = At(CbusTag, CbusIndex, k)
           /\ bus_busy' => bus_beat' < buffer_offset'
    <3>1. CASE ~delay_counter
      <4>1. buffer_offset' = 0 /\ ~bus_busy'
        BY <2>1, <2>2, <2>3, <3>1, PhaseNames
           DEF WriteBack, DcreqValid, WritingBack, Fetching
      <4>2. QED
        BY <4>1, GeometryAssumption DEF Offsets
    <3>2. CASE delay_counter
      <4>1. /\ miss_addr.offset = (buffer_offset + 1) % LineWords
            /\ \/ \A k \in Offsets : Buffered(k)
               \/ /\ \A k \in Offsets : k < buffer_offset => Buffered(k)
                  /\ bus_busy => bus_beat < buffer_offset
        BY <2>1, <2>3, <3>2 DEF WriteBack
      <4>2. \A k \in Offsets : k = buffer_offset \/ Buffered(k) =>
              \A l \in Lanes : buffer'[k][l] = At(CbusTag, CbusIndex, k)
        BY <2>1, <3>2, BufferStep
      <4>3. CASE \A k \in Offsets : Buffered(k)
        BY <4>2, <4>3
      <4>4. CASE /\ \A k \in Offsets : k < buffer_offset => Buffered(k)
                 /\ bus_busy => bus_beat < buffer_offset
        <5>1. \A k \in Offsets : k \leq buffer_offset =>
                \A l \in Lanes : buffer'[k][l] = At(CbusTag, CbusIndex, k)
          BY <2>3, <4>2, <4>4 DEF Offsets
        <5>2. CASE buffer_offset + 1 = LineWords
          <6>1. \A k \in Offsets : k \leq buffer_offset
            BY <2>3, <5>2 DEF Offsets
          <6>2. QED
            BY <5>1, <6>1
        <5>3. CASE buffer_offset + 1 # LineWords
          <6>1. buffer_offset' = buffer_offset + 1
            BY <2>2, <2>3, <4>1, <5>3, Successor
          <6>2. \A k \in Offsets : k < buffer_offset + 1 => k \leq buffer_offset
            BY <2>3 DEF Offsets
          <6>3. bus_beat' < buffer_offset + 1
            BY <1>2, <2>2, <2>3, <4>4 DEF Offsets, BusInStep
          <6>4. QED
            BY <5>1, <6>1, <6>2, <6>3
        <5>4. QED
          BY <5>2, <5>3
      <4>5. QED
        BY <4>1, <4>3, <4>4
    <3>3. QED
      BY <3>1, <3>2, <2>3 DEF CacheInv, RestTypeOK
  <2>8. \A k \in Offsets, l \in Lanes :
          At(CbusTag, CbusIndex, k)' = At(CbusTag, CbusIndex, k)
    BY <2>1 DEF At
  <2>9. WriteBack'
    <3>1. (meta_ram[CbusIndex][miss_addr.line] = LineOf(CbusTag) /\ miss_addr.index = CbusIndex)'
      BY <2>1 DEF LineOf
    <3>2. (\A o \in Offsets, l \in Lanes :
             o < bus_beat => mem_current[At(CbusTag, CbusIndex, o)][l])'
      BY <2>5, <2>8
    <3>3. (offset_count = bus_beat /\ delay_counter
           /\ miss_addr.offset = (buffer_offset + 1) % LineWords)'
      BY <2>2, <2>4 DEF NextOffset
    <3>4. (\A l \in Lanes : port_data_r[2][l] = At(CbusTag, CbusIndex, buffer_offset))'
      BY <2>1, <2>2, <2>6 DEF At
    <3>5. (\/ \A k \in Offsets : Buffered(k)
           \/ /\ \A k \in Offsets : k < buffer_offset => Buffered(k)
              /\ bus_busy => bus_beat < buffer_offset)'
      BY <2>1, <2>7 DEF Buffered, At
    <3>6. QED
      BY <3>1, <3>2, <3>3, <3>4, <3>5 DEF WriteBack
  <2>10. QED
    BY <2>9
<1>5. CASE state' = Idle
  BY <1>5, PhaseNames DEF WritingBack
<1>6. CASE WritingBack /\ Port \in Ports /\ state' = Fetch(Port)
  BY <1>6, PhaseNames DEF WritingBack
<1>7. QED
  BY <1>1, <1>3, <1>4, <1>5, <1>6, NextPhase

(* A cache instruction that writes a line back ends when memory has it. *)
LEMMA WrittenBackStep ==
  ASSUME CacheInv, NEW acc \in Accesses \union {NoAccess}, NEW ready \in BOOLEAN,
         Clock(acc, ready)
  PROVE  WrittenBack'
<1> SUFFICES ASSUME en', h'.oper = "WRITEBACK_INVALID", h'.meta[1][h'.op_line].valid
             PROVE  InMemory(h.meta[1][h.op_line].tag, Index(1))'
  BY DEF WrittenBack
<1>1. CASE en
  <2>1. CacheOper(acc) = "WRITEBACK_INVALID" /\ DreqEn(acc)
    BY <1>1 DEF Clock, EnClock, Handle
  <2>2. \/ acc.inst = "D_HIT_WRITEBACK_INVALID" /\ Hit(acc.req[1]) /\ acc.req[1].valid
        \/ acc.inst = "D_INDEX_WRITEBACK_INVALID" /\ acc.req[1].valid
    BY <2>1 DEF CacheOper
  <2>3. ~DreqEn(acc)
    BY <2>2 DEF DreqEn, Ports
  <2>4. QED
    BY <2>1, <2>3
<1>2. CASE ~en
  <2>1. /\ h' = h /\ Finish(Resp(ready)) /\ (ready => bus_busy)
        /\ TypeOK /\ RestTypeOK /\ OneCopy /\ MemoryHeld
    BY <1>2, Waiting DEF Clock, CacheInv
  <2>2. /\ h.meta[1][h.op_line].valid /\ h.meta[1][h.op_line].tag \in Tags
        /\ meta_ram[Index(1)] = h.meta[1] /\ Index(1) \in Sets /\ h.op_line \in Ways
    <3>1. h.meta[1] \in [Ways -> Meta] /\ h.op_line \in Ways /\ Index(1) \in Sets
      BY <2>1, RequestTypes DEF Ports
    <3>2. h.meta[1][h.op_line] \in Meta
      BY <3>1
    <3>3. meta_ram[Index(1)] = h.meta[1]
      BY <2>1 DEF CacheInv, MetaHeld, Operations
    <3>4. QED
      BY <2>1, <3>1, <3>2, <3>3 DEF Meta
  <2>3. \A t \in Tags, s \in Sets :
          t = h.meta[1][h.op_line].tag /\ s = Index(1) => InMemory(t, s)'
    <3>1. CASE ~WbDirty
      <4>1. ~cache_dirty[h.op_line][Index(1)]
        BY <2>2, <3>1 DEF WbDirty, Index
      <4>2. InMemory(h.meta[1][h.op_line].tag, Index(1))
        BY <2>1, <2>2, <4>1, CleanInMemory
      <4>3. QED
        BY <1>2, <4>2, MemoryDuring
    <3>2. CASE state = Writeback(0) /\ Resp(ready).last
      <4>1. WritingBack /\ Port = 0
        BY <3>2, PhaseNames DEF WritingBack, Port
      <4>2. CbusTag = h.meta[1][h.op_line].tag /\ CbusIndex = Index(1)
        BY <4>1, WritingLine
      <4>3. QED
        BY <3>2, <4>1, <4>2, LineWritten
    <3>3. QED
      BY <1>2, <2>1, <3>1, <3>2, FinishFacts
  <2>4. QED
    BY <2>1, <2>2, <2>3 DEF InMemory, Index
<1>3. QED
  BY <1>1, <1>2

-----------------------------------------------------------------------------
(* The invariant. *)

(* The invariant holds after reset. *)
LEMMA InitCacheInv == Init => CacheInv
<1> SUFFICES ASSUME Init PROVE CacheInv
  OBVIOUS
<1>1. /\ 0 \in Ways /\ 0 \in Tags /\ 0 \in Sets /\ 0 \in Offsets /\ Lanes = Lanes
      /\ OldWord \in Word
  BY GeometryAssumption DEF Ways, Offsets, OldWord, Word
<1>2. /\ state = Idle /\ ~Fetching /\ ~WritingBack /\ state[1] # "UNCACHE" /\ state # Store
      /\ \A p \in Ports : state # Fetch(p) /\ state # Uncache(p) /\ state # Writeback(p)
      /\ state # Writeback(0) /\ state \in PhaseType
  BY PhaseNames DEF Init, Idle, Fetching, WritingBack, Store, Fetch, Uncache,
     Writeback
<1>3. /\ \A s \in Sets, w \in Ways : meta_ram[s][w] = [valid |-> FALSE, tag |-> 0]
      /\ h.oper = "NULL" /\ en = TRUE
      /\ \A p \in Ports : /\ h.req[p] = ZeroReq /\ h.hit[p] = FALSE /\ h.line[p] = 0
                          /\ h.meta[p] = meta_ram[0]
      /\ h.op_line = 0 /\ h.dreq_en = FALSE
      /\ h.req \in [Ports -> Dreq]
  BY <1>1 DEF Init, NoAccess, ZeroReq, Dreq
<1>4. meta_ram \in [Sets -> [Ways -> Meta]]
  BY <1>1 DEF Init, Meta
<1>5. TypeOK
  <2>1. /\ cache_dirty \in [Ways -> [Sets -> BOOLEAN]]
        /\ plru \in [Sets -> Ways]
        /\ data_ram \in [Ways -> [Sets -> [Offsets -> Word]]]
        /\ buffer \in [Offsets -> Word]
    BY <1>1 DEF Init
  <2>2. /\ miss_addr \in [line : Ways, index : Sets, offset : Offsets]
        /\ en \in BOOLEAN /\ finish_reg \in BOOLEAN /\ bus_busy \in BOOLEAN
        /\ offset_count \in Offsets /\ buffer_offset \in Offsets /\ bus_beat \in Offsets
    BY <1>1 DEF Init
  <2>3. QED
    BY <1>2, <1>4, <2>1, <2>2 DEF TypeOK, Meta, PhaseType
<1>6. RestTypeOK
  <2>1. h \in [oper : Operations \union {"REQ", "NULL"}, req : [Ports -> Dreq],
               hit : [Ports -> BOOLEAN], line : [Ports -> Ways],
               meta : [Ports -> [Ways -> Meta]], op_line : Ways, dreq_en : BOOLEAN]
    <3>1. meta_ram[0] \in [Ways -> Meta]
      BY <1>1, <1>4
    <3>2. h = [oper |-> "NULL", req |-> NoAccess.req,
               hit |-> [p \in Ports |-> FALSE], line |-> [p \in Ports |-> 0],
               meta |-> [p \in Ports |-> meta_ram[0]], op_line |-> 0, dreq_en |-> FALSE]
      BY DEF Init
    <3>3. NoAccess.req \in [Ports -> Dreq]
      BY <1>3, <3>2
    <3>4. QED
      BY <1>1, <3>1, <3>2, <3>3
  <2>2. /\ delay_counter \in BOOLEAN /\ ended \subseteq PhaseType
        /\ replace_line_reg \in [Ports -> Ways]
    BY <1>1 DEF Init
  <2>3. port_data_r \in [Ports -> Word]
    BY <1>1 DEF Init
  <2>4. mem_current \in [Addr -> [Lanes -> BOOLEAN]]
    BY DEF Init
  <2>5. QED
    BY <2>1, <2>2, <2>3, <2>4 DEF RestTypeOK
<1>7. LookedUp
  <2>1. \A p \in Ports, w \in Ways : h.meta[p][w] # LineOf(Tag(p))
    BY <1>1, <1>3 DEF LineOf
  <2>2. h.meta[1] = h.meta[2] /\ h.line[1] = h.line[2]
    BY <1>3 DEF Ports
  <2>3. \A p \in Ports :
          /\ h.hit[p] = (\E w \in Ways : h.meta[p][w] = LineOf(Tag(p)))
          /\ h.hit[p] => h.meta[p][h.line[p]] = LineOf(Tag(p))
    BY <1>3, <2>1
  <2>4. QED
    BY <1>3, <2>2, <2>3 DEF LookedUp
<1>8. Flags /\ BusInStep
  BY <1>2, <1>3 DEF Init, Flags, BusInStep
<1>9. Working
  BY <1>2 DEF Init, Working, Past, Fetch, Writeback, Uncache, Idle
<1>10. AllDone /\ MetaHeld /\ WrittenBack
  BY <1>2, <1>3 DEF AllDone, MetaHeld, WrittenBack, Operations
<1>11. OneCopy /\ LinesHeld
  BY <1>3 DEF OneCopy, LinesHeld, Ways
<1>12. MemoryHeld
  BY DEF Init, MemoryHeld
<1>13. Refill /\ WriteBack
  BY <1>2 DEF Refill, WriteBack
<1>14. QED
  BY <1>5, <1>6, <1>7, <1>8, <1>9, <1>10, <1>11, <1>12, <1>13 DEF CacheInv

(* Every clock cycle keeps the invariant. *)
LEMMA ClockCacheInv ==
  ASSUME CacheInv, Supported, NEW acc \in Accesses \union {NoAccess},
         NEW ready \in BOOLEAN, Clock(acc, ready)
  PROVE  CacheInv'
<1>1. TypeOK' /\ RestTypeOK'
  BY TypeStep
<1>2. LookedUp' /\ Flags' /\ BusInStep' /\ Working' /\ AllDone'
  BY LookedUpStep, FlagsStep, BusInStepStep, WorkingStep, AllDoneStep
<1>3. MetaHeld'
  <2>1. CASE en
    BY <2>1, MetaHeldAccepting
  <2>2. CASE ~en
    BY <2>2, MetaHeldWaiting
  <2>3. QED
    BY <2>1, <2>2
<1>4. OneCopy'
  BY OneCopyStep
<1>5. LinesHeld' /\ MemoryHeld'
  <2>1. CASE en
    BY <2>1, LinesHeldAccepting, MemoryHeldAccepting
  <2>2. CASE ~en
    BY <2>2, LinesHeldWaiting, MemoryHeldWaiting
  <2>3. QED
    BY <2>1, <2>2
<1>6. Refill' /\ WriteBack' /\ WrittenBack'
  BY RefillStep, WriteBackStep, WrittenBackStep
<1>7. QED
  BY <1>1, <1>2, <1>3, <1>4, <1>5, <1>6 DEF CacheInv

(* A stuttering step changes nothing. *)
LEMMA StutterCacheInv == CacheInv /\ UNCHANGED vars => CacheInv'
<1> SUFFICES ASSUME CacheInv, UNCHANGED vars PROVE CacheInv'
  OBVIOUS
<1>1. /\ meta_ram' = meta_ram /\ cache_dirty' = cache_dirty /\ plru' = plru
      /\ data_ram' = data_ram /\ en' = en /\ finish_reg' = finish_reg /\ h' = h
      /\ state' = state /\ miss_addr' = miss_addr /\ offset_count' = offset_count
      /\ delay_counter' = delay_counter /\ buffer_offset' = buffer_offset
      /\ buffer' = buffer /\ ended' = ended /\ replace_line_reg' = replace_line_reg
      /\ port_data_r' = port_data_r /\ uncached_data' = uncached_data
      /\ bus_busy' = bus_busy /\ bus_beat' = bus_beat /\ mem_current' = mem_current
  BY DEF vars, cacheVars, fsmVars
<1>2. TypeOK' /\ RestTypeOK'
  BY <1>1 DEF CacheInv, TypeOK, RestTypeOK
<1>3. LookedUp' /\ Flags'
  BY <1>1 DEF CacheInv, LookedUp, Flags, Tag, IndexEqual
<1>4. BusInStep'
  BY <1>1 DEF CacheInv, BusInStep, DcreqValid, Fetching, WritingBack
<1>5. Working' /\ AllDone'
  BY <1>1 DEF CacheInv, Working, AllDone, Fetching, WritingBack, Port, Misses,
     CacheHit, Uncached,
     SameLine, IndexEqual, ReplaceLine, Index, WbDirty, Done, FetchedFor, Past
<1>6. MetaHeld'
  BY <1>1 DEF CacheInv, MetaHeld, Fetching, Port, Misses, CacheHit, Uncached,
     SameLine,
     IndexEqual, Index, Tag, InPlace, FetchedFor, Past
<1>7. OneCopy' /\ MemoryHeld'
  BY <1>1 DEF CacheInv, OneCopy, MemoryHeld
<1>8. LinesHeld'
  BY <1>1 DEF CacheInv, LinesHeld, Victim, Fetching
<1>9. Refill' /\ WrittenBack'
  BY <1>1 DEF CacheInv, Refill, WrittenBack, Fetching, Port, InMemory, Tag,
     Index
<1>10. WriteBack'
  BY <1>1 DEF CacheInv, WriteBack, WritingBack, CbusTag, CbusIndex, Buffered,
     Fetching, Port,
     ReplaceLine, IndexEqual
<1>11. QED
  BY <1>2, <1>3, <1>4, <1>5, <1>6, <1>7, <1>8, <1>9, <1>10 DEF CacheInv

(* The invariant, for every set of accesses the cache serves correctly. *)
THEOREM CacheInvariant ==
  ASSUME Supported
  PROVE  Spec => []CacheInv
<1>1. Init => CacheInv
  BY InitCacheInv
<1>2. CacheInv /\ [Next]_vars => CacheInv'
  BY ClockCacheInv, StutterCacheInv DEF Next
<1>3. QED
  BY <1>1, <1>2, PTL DEF Spec

-----------------------------------------------------------------------------
(* What follows from it. *)

(* The lines are copies of memory: at most one of each, and between        *)
(* accesses a line whose dirty bit is clear is equal to it. *)
THEOREM LinesAreCopies ==
  ASSUME Supported
  PROVE  Spec => []LinesConsistent
<1>1. CacheInv => LinesConsistent
  <2> SUFFICES ASSUME CacheInv PROVE LinesConsistent
    OBVIOUS
  <2>1. TypeOK /\ OneCopy /\ LinesHeld /\ MemoryHeld
    BY DEF CacheInv
  <2>2. ASSUME en, NEW w \in Ways, NEW s \in Sets, meta_ram[s][w].valid, ~cache_dirty[w][s],
               NEW o \in Offsets, NEW l \in Lanes
        PROVE  /\ data_ram[w][s][o][l] = At(meta_ram[s][w].tag, s, o)
               /\ mem_current[At(meta_ram[s][w].tag, s, o)][l]
    <3>1. ~Victim(w, s)
      BY <2>1, <2>2, PhaseNames DEF TypeOK, Victim, Fetching
    <3>2. InMemory(meta_ram[s][w].tag, s)
      BY <2>1, <2>2, CleanInMemory
    <3>3. QED
      BY <2>1, <2>2, <3>1, <3>2 DEF LinesHeld, InMemory
  <2>3. CleanEqualsMemory
    BY <2>2 DEF CleanEqualsMemory, At
  <2>4. QED
    BY <2>1, <2>3 DEF LinesConsistent
<1>2. QED
  BY <1>1, CacheInvariant, PTL

(* No store is lost: between accesses the latest byte of every address is  *)
(* in memory or in a valid dirty line. *)
THEOREM NoStoreIsLost ==
  ASSUME Supported
  PROVE  Spec => []NothingLost
<1>1. CacheInv => NothingLost
  <2> SUFFICES ASSUME CacheInv, en, NEW a \in Addr, NEW l \in Lanes, ~mem_current[a][l]
               PROVE  \E w \in Ways :
                        /\ meta_ram[a.index][w] = LineOf(a.tag)
                        /\ cache_dirty[w][a.index]
                        /\ data_ram[w][a.index][a.offset][l] = a
    BY DEF NothingLost, LineOf
  <2>1. /\ a.index \in Sets /\ a.offset \in Offsets /\ a = At(a.tag, a.index, a.offset)
        /\ LineOf(a.tag).valid /\ LineOf(a.tag).tag = a.tag
    BY DEF Addr, At, LineOf
  <2>2. PICK w \in Ways : meta_ram[a.index][w] = LineOf(a.tag) /\ cache_dirty[w][a.index]
    BY DEF CacheInv, MemoryHeld
  <2>3. ~Victim(w, a.index)
    BY PhaseNames DEF CacheInv, TypeOK, Victim, Fetching
  <2>4. data_ram[w][a.index][a.offset][l] = a
    BY <2>1, <2>2, <2>3 DEF CacheInv, LinesHeld
  <2>5. QED
    BY <2>2, <2>4
<1>2. QED
  BY <1>1, CacheInvariant, PTL

(* The RAM word a port reads for an access that is performed. *)
LEMMA WordLoaded ==
  ASSUME CacheInv, NEW acc, NEW ready \in BOOLEAN, Clock(acc, ready),
         NEW p \in Ports, Performs(p), NEW l \in Lanes,
         p = 2 => ~(l \in StoreLanes(1) /\ AddrOf(h.req[1]) = AddrOf(h.req[2]))
  PROVE  port_data_r'[p][l] = AddrOf(h.req[p])
<1>1. /\ PortAddr(p) = [line |-> PortLine(p), index |-> Index(p), offset |-> h.req[p].offset]
      /\ data_ram[PortLine(p)][Index(p)][h.req[p].offset][l] = AddrOf(h.req[p])
  BY Placed
<1>2. RamWord(p)[l] = AddrOf(h.req[p])
  BY <1>1 DEF RamWord, Ports
<1>3. port_data_r'[p] = RamWord(p)
  BY DEF Clock, RamClock, Performs
<1>4. QED
  BY <1>2, <1>3

(* The data given with an answer are what the answer is to be. *)
LEMMA AnswerStep ==
  ASSUME CacheInv, NEW acc, NEW ready \in BOOLEAN, Clock(acc, ready)
  PROVE  LoadsSeeStores'
<1> SUFFICES ASSUME NEW p \in Ports, answer'[p] # None, NEW l \in Lanes
             PROVE  RespData(p)'[l] = answer'[p]
  BY DEF LoadsSeeStores, RespData
<1>1. AnswerClock(Resp(ready)) /\ RestTypeOK
  BY DEF Clock, CacheInv
<1>2. /\ en /\ h.oper = "REQ" /\ h.req[p].valid /\ h.req[p].strobe = {}
      /\ answer'[p] = IF h.req[p].unc THEN BusData ELSE AddrOf(h.req[p])
  BY <1>1 DEF AnswerClock
<1>3. state = Idle /\ h.req[p].unc \in BOOLEAN /\ uncache_flag'[p] = h.req[p].unc
  BY <1>1, <1>2, RequestTypes DEF CacheInv, TypeOK, AnswerClock
<1>4. RespData(p)'[l] =
        IF uncache_flag'[p] THEN uncached_data'[p]
        ELSE IF p = 2 /\ w_to_r_reg' # None
             THEN IF w_to_r_reg'[l] # None THEN w_to_r_reg'[l] ELSE port_data_r'[1][l]
        ELSE port_data_r'[p][l]
  BY DEF RespData
<1>5. CASE h.req[p].unc
  <2>1. Uncached(p) /\ ~CacheHit(p)
    BY <1>2, <1>5 DEF Uncached, CacheHit
  <2>2. Past(Uncache(p))
    BY <1>2, <2>1 DEF CacheInv, AllDone, Done
  <2>3. uncached_data[p] = BusData
    BY <1>2, <2>1, <2>2 DEF CacheInv, MetaHeld
  <2>4. uncached_data'[p] = BusData
    BY <1>1, <1>2, <2>1, <2>3 DEF AnswerClock
  <2>5. QED
    BY <1>2, <1>3, <1>4, <1>5, <2>4
<1>6. CASE ~h.req[p].unc
  <2>1. Performs(p) /\ answer'[p] = AddrOf(h.req[p])
    BY <1>2, <1>6 DEF Performs
  <2>2. CASE p = 2 /\ WToR
    <3>1. /\ Performs(1) /\ AddrOf(h.req[1]) = AddrOf(h.req[2])
          /\ h.req[2].strobe = {} /\ AddrOf(h.req[1]) \in Addr
      BY <1>1, <1>2, <2>2, SamePlace, RequestTypes DEF WToR, Ports
    <3>2. w_to_r_reg' = [k \in Lanes |-> IF k \in h.req[1].strobe THEN Offered(1, k) ELSE None]
      BY <1>1, <2>2 DEF AnswerClock
    <3>3. \A k \in Lanes : Offered(1, k) \in Addr \union {Old}
      BY <3>1 DEF Offered
    <3>4. w_to_r_reg' # None
      <4>1. w_to_r_reg' \in [Lanes -> Addr \union {Old, None}]
        BY <3>2, <3>3
      <4>2. QED
        BY <4>1, ModelValuesAssumption
    <3>5. CASE l \in h.req[1].strobe
      <4>1. l \in StoreLanes(1) /\ l \notin StoreLanes(2)
        BY <3>1, <3>5, StoresOf DEF Ports
      <4>2. w_to_r_reg'[l] = AddrOf(h.req[1])
        BY <3>2, <3>5, <4>1 DEF Offered
      <4>3. w_to_r_reg'[l] # None
        BY <3>1, <4>2, ModelValuesAssumption
      <4>4. QED
        BY <1>3, <1>4, <1>6, <2>1, <2>2, <3>1, <3>4, <4>2, <4>3
    <3>6. CASE l \notin h.req[1].strobe
      <4>1. w_to_r_reg'[l] = None
        BY <3>2, <3>6
      <4>2. port_data_r'[1][l] = AddrOf(h.req[1])
        BY <3>1, WordLoaded DEF Ports
      <4>3. QED
        BY <1>3, <1>4, <1>6, <2>1, <2>2, <3>1, <3>4, <4>1, <4>2
    <3>7. QED
      BY <3>5, <3>6
  <2>3. CASE ~(p = 2 /\ WToR)
    <3>1. p = 2 => w_to_r_reg' = None
      BY <1>1, <2>3 DEF AnswerClock
    <3>2. p = 2 => ~(l \in StoreLanes(1) /\ AddrOf(h.req[1]) = AddrOf(h.req[2]))
      <4>1. SUFFICES ASSUME p = 2, l \in StoreLanes(1), AddrOf(h.req[1]) = AddrOf(h.req[2])
                     PROVE  FALSE
        OBVIOUS
      <4>2. Performs(1) /\ l \in h.req[1].strobe
        BY <4>1, StoresOf DEF Ports
      <4>3. AddrSame
        BY <1>2, <1>6, <4>1, <4>2 DEF AddrSame, Performs, Ports
      <4>4. QED
        BY <1>2, <2>3, <4>1, <4>2, <4>3 DEF WToR
    <3>3. port_data_r'[p][l] = AddrOf(h.req[p])
      BY <2>1, <3>2, WordLoaded
    <3>4. QED
      BY <1>3, <1>4, <1>6, <2>1, <3>1, <3>3
  <2>4. QED
    BY <2>2, <2>3
<1>7. QED
  BY <1>5, <1>6

(* The cache is transparent: every load is answered with the bytes last    *)
(* stored. *)
THEOREM LoadsAreCurrent ==
  ASSUME Supported
  PROVE  Spec => []LoadsSeeStores
<1>1. Init => LoadsSeeStores
  BY DEF Init, LoadsSeeStores
<1>2. CacheInv /\ LoadsSeeStores /\ [Next]_vars => LoadsSeeStores'
  <2>1. CacheInv /\ Next => LoadsSeeStores'
    BY AnswerStep DEF Next
  <2>2. LoadsSeeStores /\ UNCHANGED vars => LoadsSeeStores'
    BY DEF LoadsSeeStores, RespData, vars, cacheVars, fsmVars
  <2>3. QED
    BY <2>1, <2>2
<1>3. QED
  BY <1>1, <1>2, CacheInvariant, PTL DEF Spec
=============================================================================
