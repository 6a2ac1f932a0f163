------------------------------- MODULE DCache -------------------------------
(***************************************************************************)
(* The two-ported, two-way, write-back, write-allocate data cache of       *)
(* source/mycpu/cache/DCache.sv, one step per clock cycle, with the memory *)
(* behind the cache bus.                                                   *)
(*                                                                         *)
(* A request is accepted in a cycle with `en' high (dresp.addr_ok) and     *)
(* latched in cache_handle (here h).  If it hits, the data RAM is accessed *)
(* in the next cycle; if not, `en' drops, the FSM runs the bus transfers   *)
(* it needs, and the RAM is accessed in the cycle after `finish'.  The     *)
(* answer is on dresp.data one cycle after that.                           *)
(*                                                                         *)
(* Data.  Values are not modelled; what matters is whether a byte is the   *)
(* one last stored to its address.  So a byte in the RAM, in the buffer or *)
(* on a read port is either the address whose latest byte it is, or Old;   *)
(* and mem_current tells the bytes for which memory holds the latest one.  *)
(* A store makes every other copy of its bytes Old.  Calling a byte Old is  *)
(* always safe: nothing may rely on it.  The labels of the write-back      *)
(* buffer and of the read ports are dropped once the code is done with     *)
(* them.                                                                   *)
(***************************************************************************)
EXTENDS Naturals, FiniteSets

CONSTANTS
  Tags, Sets,     \* 0..m: tag and index values
  LineWords,      \* DATA_PER_LINE
  Lanes,          \* the bytes of a word
  Accesses,       \* the accesses the core may present, see AccessType
  Old, None,      \* model values: a byte that is not the latest; nothing
  BusData         \* model value: the word an uncached load must return

VARIABLES
  meta_ram, cache_dirty, plru, data_ram,
  en, finish_reg, h,
  state, miss_addr, offset_count, delay_counter, buffer_offset, buffer,
  ended,             \* the phases whose *_end flag is set
  replace_line_reg,  \* replace_line_n_reg by port
  port_data_r,       \* port_n_data_r by port
  w_to_r_reg,        \* w_to_r_reg with w_to_r_strobe and w_to_r_data
  uncached_data,     \* uncached_data_n by port
  uncache_flag,      \* uncache_n_flag by port
  bus_busy, bus_beat,  \* the cache bus (external): burst accepted, its beat
  mem_current,       \* memory (external)
  answer             \* history: the load addresses answered in this cycle

cacheVars == <<meta_ram, cache_dirty, plru, data_ram>>
fsmVars   == <<state, miss_addr, offset_count, delay_counter, buffer_offset,
               buffer>>
vars == <<cacheVars, en, finish_reg, h, fsmVars, ended, replace_line_reg,
          port_data_r, w_to_r_reg, uncached_data, uncache_flag, bus_busy,
          bus_beat, mem_current, answer>>

Ways    == {0, 1}
Ports   == {1, 2}
Offsets == 0..(LineWords - 1)
Addr    == [tag : Tags, index : Sets, offset : Offsets]

Word == [Lanes -> Addr \union {Old}]
OldWord == [l \in Lanes |-> Old]

Other(p) == 3 - p
AddrOf(r) == [tag |-> r.tag, index |-> r.index, offset |-> r.offset]

(* A dbus_req_t with the MMU's verdict `unc'.  A store that raises a TLB   *)
(* exception reaches the cache with valid low and its strobe still set     *)
(* (mmu.sv:150-156).                                                       *)
Dreq == [valid : BOOLEAN, unc : BOOLEAN, tag : Tags, index : Sets,
         offset : Offsets, strobe : SUBSET Lanes]

Insts == {"D_UNKNOWN", "D_HIT_INVALID", "D_HIT_WRITEBACK_INVALID",
          "D_INDEX_WRITEBACK_INVALID", "D_INDEX_STORE_TAG"}

AccessType == [inst : Insts, req : [Ports -> Dreq]]

ZeroReq  == [valid |-> FALSE, unc |-> FALSE, tag |-> 0, index |-> 0,
             offset |-> 0, strobe |-> {}]
NoAccess == [inst |-> "D_UNKNOWN", req |-> [p \in Ports |-> ZeroReq]]

ASSUME AccessesAssumption == Accesses \subseteq AccessType
ASSUME GeometryAssumption ==
  /\ LineWords \in Nat \ {0} /\ Tags \subseteq Nat
  /\ 0 \in Tags /\ 0 \in Sets
ASSUME ModelValuesAssumption ==
  /\ None \notin Addr \union {Old} /\ None \notin [Lanes -> Addr \union {Old, None}]
(* The end of INDEX_STORE is told by miss_addr.offset = '1 alone. *)
ASSUME StoreTagAssumption ==
  (\E acc \in Accesses : acc.inst = "D_INDEX_STORE_TAG") => LineWords > 1

-----------------------------------------------------------------------------
(* Stage 1: look-up of the request being presented.                        *)

(* Fault: only the first way is compared. *)
HitWaysFirst(r) ==
  {w \in {0} : meta_ram[r.index][w].valid /\ meta_ram[r.index][w].tag = r.tag}

HitWays(r) ==
  {w \in Ways : meta_ram[r.index][w].valid /\ meta_ram[r.index][w].tag = r.tag}

Hit(r) == HitWays(r) # {}

(* The OR of the matching way numbers. *)
HitLine(r) == IF 1 \in HitWays(r) THEN 1 ELSE 0

(* get_line: the way named by an index operation is the lowest tag bit. *)
GetLine(r) == r.tag % 2

InstOperLine(acc) ==
  IF acc.inst \in {"D_INDEX_WRITEBACK_INVALID", "D_INDEX_STORE_TAG"}
  THEN GetLine(acc.req[1]) ELSE HitLine(acc.req[1])

CacheOper(acc) ==
  LET r == acc.req[1] IN
  CASE acc.inst = "D_HIT_INVALID" /\ Hit(r) /\ r.valid -> "INVALID"
    [] \/ acc.inst = "D_HIT_WRITEBACK_INVALID" /\ Hit(r) /\ r.valid
       \/ acc.inst = "D_INDEX_WRITEBACK_INVALID" /\ r.valid
         -> "WRITEBACK_INVALID"
    [] acc.inst = "D_INDEX_STORE_TAG" /\ r.valid -> "INDEX_STORE"
    [] acc.inst = "D_UNKNOWN" -> "REQ"
    [] OTHER -> "NULL"

DreqEn(acc) ==
  \/ /\ acc.inst = "D_UNKNOWN"
     /\ \A p \in Ports : acc.req[p].valid => ~acc.req[p].unc /\ Hit(acc.req[p])
  \/ acc.inst = "D_HIT_INVALID"
  \/ acc.inst = "D_HIT_WRITEBACK_INVALID"
       /\ (~Hit(acc.req[1]) \/ ~acc.req[1].valid)
  \/ \A p \in Ports : ~acc.req[p].valid

Handle(acc) ==
  [oper    |-> CacheOper(acc),
   req     |-> acc.req,
   hit     |-> [p \in Ports |-> Hit(acc.req[p])],
   line    |-> [p \in Ports |-> HitLine(acc.req[p])],
   meta    |-> [p \in Ports |-> meta_ram[acc.req[p].index]],
   op_line |-> InstOperLine(acc),
   dreq_en |-> DreqEn(acc)]

-----------------------------------------------------------------------------
(* Stage 2: the latched request.  An FSM state is a phase and the port it  *)
(* works for, 0 for a cache instruction.                                   *)

Idle == <<"IDLE", 0>>
Fetch(p) == <<"FETCH", p>>
Writeback(p) == <<"WRITEBACK", p>>
Uncache(p) == <<"UNCACHE", p>>
Store == <<"STORE", 0>>

Fetching == state[1] = "FETCH"
WritingBack == state[1] = "WRITEBACK"
Port == state[2]

IndexEqual == h.req[1].index = h.req[2].index

ReplaceLine(p) ==
  IF IndexEqual /\ h.hit[Other(p)] THEN 1 - h.line[Other(p)]
  ELSE plru[h.req[p].index]

Misses(p) == h.req[p].valid /\ ~h.req[p].unc /\ ~h.hit[p]
CacheHit(p) == h.req[p].valid /\ ~h.req[p].unc /\ h.hit[p]
Uncached(p) == h.req[p].valid /\ h.req[p].unc

SameLine ==
  /\ h.req[1].tag = h.req[2].tag /\ IndexEqual
  /\ h.req[1].valid /\ ~h.req[1].unc

CacheDirty(p) ==
  LET w == ReplaceLine(p)
  IN  cache_dirty[w][h.req[p].index] /\ h.meta[p][w].valid

(* Fault: the dirty bit of the way that stays is looked at. *)
WbDirtyOtherWay ==
  cache_dirty[1 - h.op_line][h.req[1].index] /\ h.meta[1][h.op_line].valid

WbDirty ==
  cache_dirty[h.op_line][h.req[1].index] /\ h.meta[1][h.op_line].valid

AddrSame ==
  /\ AddrOf(h.req[1]) = AddrOf(h.req[2])
  /\ \A p \in Ports : h.req[p].valid /\ ~h.req[p].unc

WToW == AddrSame /\ h.req[1].strobe # {} /\ h.req[2].strobe # {}

WToR == AddrSame /\ h.req[1].strobe # {} /\ h.req[2].strobe = {}

(* Fault: the transfers of port 1 end the access. *)
FinishStatePort1 == IF Uncached(1) THEN Uncache(1) ELSE Fetch(1)

(* Fault: an access of port 1 alone waits for a transfer of port 2. *)
FinishStatePort2 == IF Uncached(2) THEN Uncache(2) ELSE Fetch(2)

FinishState ==
  CASE Uncached(2) -> Uncache(2)
    [] Misses(2) /\ ~SameLine -> Fetch(2)
    [] ~(Misses(2) /\ ~SameLine) /\ ~Uncached(2) /\ Uncached(1) -> Uncache(1)
    [] OTHER -> Fetch(1)

Finish(resp) ==
  \/ h.oper = "REQ" /\ state = FinishState /\ resp.last
  \/ h.oper = "WRITEBACK_INVALID" /\ (~WbDirty \/ resp.last)
  \/ h.oper = "INDEX_STORE" /\ miss_addr.offset = LineWords - 1

-----------------------------------------------------------------------------
(* The cache bus (external, see BusPath): a burst is accepted a cycle      *)
(* after it is requested, and `last' comes with its last beat.             *)

DcreqValid ==
  \/ Fetching \/ state[1] = "UNCACHE"
  \/ WritingBack /\ delay_counter

DcreqLen == IF state[1] = "UNCACHE" THEN 1 ELSE LineWords

(* Fault: a cache instruction writes back to the address it names. *)
CbusTagNamed ==
  IF Fetching \/ Port = 0 THEN h.req[IF Port = 0 THEN 1 ELSE Port].tag
  ELSE h.meta[Port][ReplaceLine(Port)].tag

(* The line the burst is for. *)
CbusTag ==
  CASE Fetching -> h.req[Port].tag
    [] WritingBack /\ Port = 0 -> h.meta[1][h.op_line].tag
    [] WritingBack /\ Port # 0 -> h.meta[Port][ReplaceLine(Port)].tag
CbusIndex == h.req[IF Port = 0 THEN 1 ELSE Port].index
BeatAddr == [tag |-> CbusTag, index |-> CbusIndex, offset |-> bus_beat]

Resp(ready) == [ready |-> ready, last |-> ready /\ bus_beat + 1 = DcreqLen]

BusClock(resp) ==
  /\ bus_busy' = (DcreqValid /\ ~resp.last)
  /\ bus_beat' = IF resp.ready /\ ~resp.last THEN bus_beat + 1
                 ELSE IF resp.last THEN 0 ELSE bus_beat

-----------------------------------------------------------------------------
(* The metadata.                                                           *)

MetaClock ==
  meta_ram' =
    CASE h.oper = "INVALID" \/ (h.oper = "WRITEBACK_INVALID" /\ en) ->
           [meta_ram EXCEPT ![h.req[1].index] =
              [h.meta[1] EXCEPT ![h.op_line].valid = FALSE]]
      [] (h.oper = "WRITEBACK_INVALID" /\ ~en) \/ state = Store ->
           [meta_ram EXCEPT ![h.req[1].index] = h.meta[1]]
      [] h.oper = "REQ" /\ Fetching ->
           [meta_ram EXCEPT ![h.req[Port].index] =
              [h.meta[Port] EXCEPT ![ReplaceLine(Port)] =
                 [valid |-> TRUE, tag |-> h.req[Port].tag]]]
      [] OTHER -> meta_ram

(* Both always_comb loops assign the whole vector for port 2 after port 1, *)
(* from the old register value: only the last assignment takes effect.     *)
Touches(p, resp) == CacheHit(p) \/ (state = Fetch(p) /\ resp.last)

PlruClock(resp) ==
  LET Touched(p) ==
        [plru EXCEPT ![h.req[p].index] =
           1 - (IF CacheHit(p) THEN h.line[p] ELSE ReplaceLine(p))]
  IN  plru' = CASE h.oper = "REQ" /\ Touches(2, resp) -> Touched(2)
                [] h.oper = "REQ" /\ ~Touches(2, resp) /\ Touches(1, resp) ->
                     Touched(1)
                [] OTHER -> plru

StoreHit(p) == CacheHit(p) /\ h.req[p].strobe # {}

DirtyClock ==
  LET Marked(p) == [cache_dirty EXCEPT ![h.line[p]][h.req[p].index] = TRUE]
  IN  cache_dirty' =
        CASE h.oper = "REQ" /\ state = Idle /\ StoreHit(2) -> Marked(2)
          [] h.oper = "REQ" /\ state = Idle /\ ~StoreHit(2) /\ StoreHit(1) ->
               Marked(1)
          [] h.oper = "REQ" /\ Fetching ->
               [cache_dirty EXCEPT ![ReplaceLine(Port)][h.req[Port].index] =
                  h.req[Port].strobe # {}]
          [] OTHER -> cache_dirty

ReplaceRegClock(resp) ==
  replace_line_reg' =
    [p \in Ports |->
       CASE state = Fetch(p) /\ resp.last -> ReplaceLine(p)
         [] p = 2 /\ state # Fetch(2) /\ SameLine /\ resp.last -> ReplaceLine(1)
         [] OTHER -> replace_line_reg[p]]

-----------------------------------------------------------------------------
(* The FSM.                                                                *)

FsmStart(s, w, i) ==
  /\ state' = s
  /\ miss_addr' = [line |-> w, index |-> i, offset |-> 0]
  /\ offset_count' = IF s = Store THEN offset_count ELSE 0

FsmPort(p) ==
  FsmStart(IF CacheDirty(p) /\ Writeback(p) \notin ended
           THEN Writeback(p) ELSE Fetch(p),
           ReplaceLine(p), h.req[p].index)

FsmStay == UNCHANGED <<state, miss_addr, offset_count>>

FsmUncache(p) == state' = Uncache(p) /\ UNCHANGED <<miss_addr, offset_count>>

Todo1 == Misses(1) /\ Fetch(1) \notin ended
Todo2 == Misses(2) /\ Fetch(2) \notin ended /\ ~SameLine

FsmIdle ==
  /\ ~en /\ state = Idle
  /\ CASE h.oper = "WRITEBACK_INVALID" ->
            IF WbDirty /\ Writeback(0) \notin ended
            THEN FsmStart(Writeback(0), h.op_line, h.req[1].index) ELSE FsmStay
       [] h.oper = "INDEX_STORE" ->
            IF Store \notin ended
            THEN FsmStart(Store, h.op_line, h.req[1].index) ELSE FsmStay
       [] h.oper = "REQ" ->
            IF Uncached(1) /\ Uncache(1) \notin ended THEN FsmUncache(1)
            ELSE IF Todo1 THEN FsmPort(1)
            ELSE IF Uncached(2) /\ Uncache(2) \notin ended THEN FsmUncache(2)
            ELSE IF Todo2 THEN FsmPort(2) ELSE FsmStay
       [] OTHER -> FsmStay
  /\ delay_counter' = FALSE
  /\ UNCHANGED <<buffer_offset, buffer>>

NextOffset == (miss_addr.offset + 1) % LineWords

FsmFetch(resp) ==
  /\ ~en /\ Fetching
  /\ IF resp.ready
     THEN /\ state' = IF resp.last THEN Idle ELSE state
          /\ miss_addr' = [miss_addr EXCEPT !.offset = NextOffset]
     ELSE UNCHANGED <<state, miss_addr>>
  /\ UNCHANGED <<offset_count, delay_counter, buffer_offset, buffer>>

FsmWriteback(resp) ==
  /\ ~en /\ WritingBack
  /\ state' = IF ~resp.last THEN state ELSE IF Port = 0 THEN Idle ELSE Fetch(Port)
  /\ offset_count' = IF resp.ready THEN (offset_count + 1) % LineWords
                     ELSE offset_count
  /\ miss_addr' = [miss_addr EXCEPT !.offset = IF resp.last THEN 0 ELSE NextOffset]
  /\ buffer_offset' = miss_addr.offset
  /\ buffer' = IF resp.last THEN [o \in Offsets |-> OldWord]
               ELSE [buffer EXCEPT ![buffer_offset] = port_data_r[2]]
  /\ delay_counter' = TRUE

FsmUncached(resp) ==
  /\ ~en /\ state[1] = "UNCACHE"
  /\ state' = IF resp.last THEN Idle ELSE state
  /\ UNCHANGED <<miss_addr, offset_count, delay_counter, buffer_offset, buffer>>

FsmStore ==
  /\ ~en /\ state = Store
  /\ state' = IF miss_addr.offset = LineWords - 1 THEN Idle ELSE Store
  /\ miss_addr' = [miss_addr EXCEPT !.offset = NextOffset]
  /\ UNCHANGED <<offset_count, delay_counter, buffer_offset, buffer>>

FsmClock(resp) ==
  \/ en /\ UNCHANGED fsmVars
  \/ FsmIdle \/ FsmFetch(resp) \/ FsmWriteback(resp) \/ FsmUncached(resp)
  \/ FsmStore

(* The *_end flags: each phase that has been entered, until `finish_reg'. *)
EndedClock ==
  ended' = IF finish_reg THEN {}
           ELSE IF state = Idle THEN ended ELSE ended \union {state}

-----------------------------------------------------------------------------
(* The data RAM.                                                           *)

(* The stores the core makes with the latched request are performed in     *)
(* the cycle that replaces the latch, port 1 first.                        *)
Performs(p) ==
  en /\ h.oper = "REQ" /\ h.req[p].valid /\ ~h.req[p].unc
StoreLanes(p) == IF Performs(p) THEN h.req[p].strobe ELSE {}

(* The addresses whose byte in lane l is overwritten in this cycle. *)
Stored(l) == {AddrOf(h.req[p]) : p \in {q \in Ports : l \in StoreLanes(q)}}

(* D_HIT_INVALID drops the line's stores: memory is right from then on. *)
Dropped ==
  IF h.oper = "INVALID"
  THEN {a \in Addr : a.index = h.req[1].index
                     /\ a.tag = h.meta[1][h.op_line].tag}
  ELSE {}

(* A copy after the stores and drops of this cycle. *)
Aged(word) ==
  [l \in Lanes |-> IF word[l] \in Stored(l) \union Dropped THEN Old ELSE word[l]]

(* What port p offers the RAM in lane l: the latest byte, unless port 2    *)
(* stores the same byte after port 1.  A request that is not valid offers  *)
(* bytes no program order accounts for.                                    *)
Offered(p, l) ==
  IF l \in StoreLanes(p) /\ ~(p = 1 /\ l \in StoreLanes(2) /\ AddrSame)
  THEN AddrOf(h.req[p]) ELSE Old

PortEn(p) ==
  /\ h.dreq_en \/ finish_reg
  /\ ~h.req[p].unc
  /\ p = 1 => ~WToW

(* Fault: the refilled way is not used. *)
PortLineHit(p) == h.line[p]

PortLine(p) == IF h.hit[p] THEN h.line[p] ELSE replace_line_reg[p]

PortAddr(p) ==
  IF p = 2 /\ state # Idle THEN miss_addr
  ELSE [line |-> PortLine(p), index |-> h.req[p].index,
        offset |-> h.req[p].offset]

(* Fault: of two stores to one word only the younger one's lanes count. *)
PortWenYounger(p) ==
  CASE p = 2 /\ (Fetching \/ state = Store) -> Lanes
    [] p = 2 /\ state = Idle /\ h.oper = "REQ" /\ PortEn(2) -> h.req[2].strobe
    [] p = 1 /\ h.oper = "REQ" /\ PortEn(1) -> h.req[1].strobe
    [] OTHER -> {}

(* The lanes written by the port and the word it writes. *)
PortWen(p) ==
  CASE p = 2 /\ (Fetching \/ state = Store) -> Lanes
    [] p = 2 /\ state = Idle /\ h.oper = "REQ" /\ PortEn(2) ->
         IF WToW THEN h.req[1].strobe \union h.req[2].strobe
         ELSE h.req[2].strobe
    [] p = 1 /\ h.oper = "REQ" /\ PortEn(1) -> h.req[1].strobe
    [] OTHER -> {}

PortDataW(p) ==
  [l \in Lanes |->
     CASE p = 2 /\ Fetching ->
            IF mem_current[BeatAddr][l] THEN BeatAddr ELSE Old
       [] p = 2 /\ state = Store -> Old
       [] p = 2 /\ state = Idle /\ WToW /\ l \notin h.req[2].strobe ->
            Offered(1, l)
       [] OTHER -> Offered(p, l)]

(* The registered read of port p.  Both ports read the RAM as it was, so   *)
(* port 2 misses what port 1 stores in the same cycle.                     *)
RamWord(p) ==
  LET a == PortAddr(p)
      word == data_ram[a.line][a.index][a.offset]
  IN  [l \in Lanes |->
         IF p = 2 /\ l \in StoreLanes(1) /\ word[l] = AddrOf(h.req[1])
         THEN Old ELSE word[l]]

RamClock ==
  LET Written(p, w, s, o, l) ==
        /\ PortAddr(p) = [line |-> w, index |-> s, offset |-> o]
        /\ l \in PortWen(p)
  IN  /\ data_ram' =
           [w \in Ways |-> [s \in Sets |-> [o \in Offsets |-> [l \in Lanes |->
              CASE Written(2, w, s, o, l) -> PortDataW(2)[l]
                [] ~Written(2, w, s, o, l) /\ Written(1, w, s, o, l) ->
                     PortDataW(1)[l]
                [] OTHER -> Aged(data_ram[w][s][o])[l]]]]]
      /\ port_data_r' = [p \in Ports |->
           IF (en /\ h.req[p].valid) \/ (p = 2 /\ WritingBack)
           THEN RamWord(p) ELSE OldWord]

MemClock(resp) ==
  mem_current' =
    [a \in Addr |-> [l \in Lanes |->
       IF WritingBack /\ resp.ready /\ a = BeatAddr
       THEN buffer[offset_count][l] = a
       ELSE (mem_current[a][l] /\ a \notin Stored(l)) \/ a \in Dropped]]

-----------------------------------------------------------------------------
(* The answer.                                                             *)

AnswerClock(resp) ==
  /\ w_to_r_reg' =
       IF WToR THEN [l \in Lanes |->
                       IF l \in h.req[1].strobe THEN Offered(1, l) ELSE None]
       ELSE None
  /\ uncached_data' =
       [p \in Ports |-> IF state = Uncache(p) /\ resp.last THEN BusData
                        ELSE IF en /\ ~Uncached(p) THEN Old
                        ELSE uncached_data[p]]
  /\ uncache_flag' = [p \in Ports |-> h.req[p].unc]
  /\ answer' =
       [p \in Ports |->
          IF en /\ h.oper = "REQ" /\ h.req[p].valid /\ h.req[p].strobe = {}
          THEN IF h.req[p].unc THEN BusData ELSE AddrOf(h.req[p])
          ELSE None]

(* Fault: uncached data is not selected. *)
RespDataRam(p) ==
  [l \in Lanes |->
     IF p = 2 /\ w_to_r_reg # None
     THEN IF w_to_r_reg[l] # None THEN w_to_r_reg[l] ELSE port_data_r[1][l]
     ELSE port_data_r[p][l]]

(* dresp.data of port p, by lane. *)
RespData(p) ==
  [l \in Lanes |->
     IF uncache_flag[p] THEN uncached_data[p]
     ELSE IF p = 2 /\ w_to_r_reg # None
          THEN IF w_to_r_reg[l] # None THEN w_to_r_reg[l] ELSE port_data_r[1][l]
     ELSE port_data_r[p][l]]

-----------------------------------------------------------------------------

Init ==
  /\ meta_ram = [s \in Sets |-> [w \in Ways |-> [valid |-> FALSE, tag |-> 0]]]
  /\ cache_dirty = [w \in Ways |-> [s \in Sets |-> FALSE]]
  /\ plru = [s \in Sets |-> 0]
  /\ data_ram = [w \in Ways |-> [s \in Sets |-> [o \in Offsets |-> OldWord]]]
  /\ en = TRUE /\ finish_reg = FALSE
  /\ h = [oper |-> "NULL", req |-> NoAccess.req,
          hit |-> [p \in Ports |-> FALSE], line |-> [p \in Ports |-> 0],
          meta |-> [p \in Ports |-> meta_ram[0]], op_line |-> 0,
          dreq_en |-> FALSE]
  /\ state = Idle /\ miss_addr = [line |-> 0, index |-> 0, offset |-> 0]
  /\ offset_count = 0 /\ delay_counter = FALSE
  /\ buffer_offset = 0 /\ buffer = [o \in Offsets |-> OldWord]
  /\ ended = {}
  /\ replace_line_reg = [p \in Ports |-> 0]
  /\ port_data_r = [p \in Ports |-> OldWord]
  /\ w_to_r_reg = None
  /\ uncached_data = [p \in Ports |-> Old]
  /\ uncache_flag = [p \in Ports |-> FALSE]
  /\ bus_busy = FALSE /\ bus_beat = 0
  /\ mem_current = [a \in Addr |-> [l \in Lanes |-> TRUE]]
  /\ answer = [p \in Ports |-> None]

EnClock(acc, resp) ==
  /\ en' = IF en THEN DreqEn(acc) ELSE Finish(resp)
  /\ finish_reg' = Finish(resp)
  /\ h' = IF en THEN Handle(acc) ELSE h

(* What the core presents.  A cache instruction refetches what follows it  *)
(* (execute.sv:211-213), so no access comes right behind one; and software *)
(* stores tags only to initialise lines that hold nothing.                 *)
Presents(acc) ==
  IF ~en THEN acc = NoAccess
  ELSE /\ h.oper \notin {"REQ", "NULL"} => acc = NoAccess
       /\ acc.inst = "D_INDEX_STORE_TAG" =>
            ~meta_ram[acc.req[1].index][GetLine(acc.req[1])].valid

Clock(acc, ready) ==
  LET resp == Resp(ready) IN
  /\ Presents(acc)
  /\ ready => bus_busy
  /\ EnClock(acc, resp)
  /\ MetaClock /\ PlruClock(resp) /\ DirtyClock /\ ReplaceRegClock(resp)
  /\ FsmClock(resp) /\ EndedClock
  /\ RamClock /\ MemClock(resp) /\ AnswerClock(resp)
  /\ BusClock(resp)

Next == \E acc \in Accesses \union {NoAccess}, ready \in BOOLEAN : Clock(acc, ready)

Spec == Init /\ [][Next]_vars

(* While an access is in progress the clock runs, and again and again the  *)
(* bus takes a beat it is asked for.                                       *)
FairSpec == Spec /\ WF_vars(~en /\ Clock(NoAccess, bus_busy))

-----------------------------------------------------------------------------
(* The accesses the cache serves correctly.  With the others the properties *)
(* below fail: two stores to two lines, two lines of one set, a load on    *)
(* port 1 beside a store to its line on port 2, and a store that is not    *)
(* valid (see README.md, Findings).                                        *)

BothCached(req) == \A p \in Ports : req[p].valid /\ ~req[p].unc

Served(req) ==
  /\ \A p \in Ports : ~req[p].valid => req[p].strobe = {}
  /\ BothCached(req) =>
       /\ req[1].index = req[2].index => req[1].tag = req[2].tag
       /\ req[1].index # req[2].index => req[1].strobe = {} \/ req[2].strobe = {}
       /\ req[1].index = req[2].index /\ req[2].strobe # {} => req[1].strobe # {}

AllServed(accesses) ==
  \A acc \in accesses : acc.inst = "D_UNKNOWN" => Served(acc.req)

Supported == AllServed(Accesses)

-----------------------------------------------------------------------------

(* Registers and memories hold values of their types. *)
TypeOK ==
  /\ meta_ram \in [Sets -> [Ways -> [valid : BOOLEAN, tag : Tags]]]
  /\ cache_dirty \in [Ways -> [Sets -> BOOLEAN]]
  /\ plru \in [Sets -> Ways]
  /\ data_ram \in [Ways -> [Sets -> [Offsets -> Word]]]
  /\ en \in BOOLEAN /\ finish_reg \in BOOLEAN
  /\ state \in {Idle, Store, Writeback(0)} \union
               {Fetch(1), Fetch(2), Writeback(1), Writeback(2), Uncache(1),
                Uncache(2)}
  /\ miss_addr \in [line : Ways, index : Sets, offset : Offsets]
  /\ offset_count \in Offsets /\ buffer_offset \in Offsets
  /\ buffer \in [Offsets -> Word]
  /\ bus_beat \in Offsets /\ bus_busy \in BOOLEAN
  /\ en => state = Idle

(* "Valid: the line holds data, the same as in memory": between accesses a *)
(* valid line whose dirty bit is clear holds the latest bytes, and so does *)
(* memory (DCache.sv:491-526 keeps the dirty bits).                        *)
CleanEqualsMemory ==
  en => \A w \in Ways, s \in Sets :
          meta_ram[s][w].valid /\ ~cache_dirty[w][s] =>
            \A o \in Offsets, l \in Lanes :
              LET a == [tag |-> meta_ram[s][w].tag, index |-> s, offset |-> o]
              IN  data_ram[w][s][o][l] = a /\ mem_current[a][l]

(* No store is lost: the latest byte of every address is in memory or in a *)
(* valid dirty line that will be written back to it.                       *)
NothingLost ==
  en => \A a \in Addr, l \in Lanes :
          \/ mem_current[a][l]
          \/ \E w \in Ways :
               /\ meta_ram[a.index][w] = [valid |-> TRUE, tag |-> a.tag]
               /\ cache_dirty[w][a.index]
               /\ data_ram[w][a.index][a.offset][l] = a

(* The cache is transparent: every load, cached or not, on either port, is *)
(* answered with the bytes last stored, the store of port 1 in the same    *)
(* cycle included for port 2 (DCache.sv:916-921).                          *)
LoadsSeeStores ==
  \A p \in Ports : answer[p] # None => \A l \in Lanes : RespData(p)[l] = answer[p]

(* At most one way of a set holds a line: hit_line is the OR of the ways   *)
(* that match.                                                             *)
OneCopy ==
  \A s \in Sets :
    meta_ram[s][0].valid /\ meta_ram[s][1].valid =>
      meta_ram[s][0].tag # meta_ram[s][1].tag

(* The lines are copies of memory: one of each at most, and a clean one is *)
(* equal to it.                                                            *)
LinesConsistent == TypeOK /\ OneCopy /\ CleanEqualsMemory

(* Every access that stops the pipeline (d_wait) is finished. *)
AccessEnds == ~en ~> en
=============================================================================
