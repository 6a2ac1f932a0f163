--------------------------- MODULE BusPath_proofs ---------------------------
(***************************************************************************)
(* Proofs about the path from the caches to memory, for bursts of any      *)
(* length, any behaviour of the AXI slave and any pauses of the simulated  *)
(* device.  The argument has two halves.  The caches and the arbiter       *)
(* (CacheInv) only see beats; BusDoes is what they need to know of the bus *)
(* end.  The bridge with the AXI slave (BridgeInv) and the simulated       *)
(* device (DeviceInv) are each shown to do that.                           *)
(***************************************************************************)
EXTENDS BusPath, TLAPS

-----------------------------------------------------------------------------
(* The inductive invariant.                                                *)

(* A burst is moving data, and the number of beats it has moved. *)
Run  == in_issue \intersect {"R", "W"} # {} \/ tx.busy
Beat == IF tx.busy THEN tx.N - 1 ELSE saved_req.len - count

Serving(i) == Run /\ index = i

ReqOf(i) == IF i = 0 THEN Dcreq ELSE Icreq

(* The grant is held by a cache whose request is up. *)
GrantHeld ==
  /\ Run => astate = "BUSY"
  /\ astate = "BUSY" => ReqOf(index).valid
  /\ Run => Beat \in 0..Creq.len

(* The word counters of the caches count the beats of their bursts. *)
WordCounters ==
  /\ dstate = "FETCH_n" => miss_offset = IF Serving(0) THEN Beat ELSE 0
  /\ WritingBack => offset_count = IF Serving(0) THEN Beat ELSE 0
  /\ istate # "IDLE" => imiss_offset = IF Serving(1) THEN Beat ELSE 0

(* The buffer is filled ahead of the beats. *)
AheadOfBus ==
  \/ \A k \in Offsets : buffer[k] = k
  \/ /\ \A k \in Offsets : k < buffer_offset => buffer[k] = k
     /\ Serving(0) => offset_count < buffer_offset

BufferFilled ==
  WritingBack =>
    /\ delay_counter => /\ port_2_data_r = buffer_offset
                        /\ miss_offset = Succ(buffer_offset)
                        /\ AheadOfBus
    /\ ~delay_counter => miss_offset = 0

(* A waiting instruction fetch that has been overtaken is next, or the     *)
(* refill after a write-back is.                                           *)
Overtaking ==
  overtaken > 0 =>
    /\ istate # "IDLE"
    /\ \/ astate = "JUDGE" /\ dstate = "IDLE" /\ overtaken <= 2
       \/ astate = "JUDGE" /\ dstate = "FETCH_n" /\ overtaken = 1
       \/ astate = "BUSY" /\ index = 1 /\ overtaken <= 2
       \/ astate = "BUSY" /\ index = 0 /\ dstate = "FETCH_n" /\ overtaken = 1

CacheInv == GrantHeld /\ WordCounters /\ BufferFilled /\ Overtaking

CacheTypeOK ==
  /\ ArbTypeOK
  /\ dstate \in {"IDLE", "FETCH_n", "WRITEBACK_n", "WRITEBACK", "UNCACHE_n"}
  /\ dwrite \in BOOLEAN /\ daddr \in {0, 1}
  /\ miss_offset \in Offsets /\ buffer_offset \in Offsets
  /\ offset_count \in Offsets
  /\ port_2_data_r \in Offsets \union {Stale}
  /\ buffer \in [Offsets -> Offsets \union {Stale}]
  /\ delay_counter \in BOOLEAN
  /\ istate \in {"IDLE", "FETCH_1", "FETCH_2"} /\ iaddr \in {0, 1}
  /\ imiss_offset \in Offsets
  /\ overtaken \in Nat

(* The pending channels, the bridge's counter and the slave agree.  A      *)
(* write ends with its response, which the slave gives when it has both    *)
(* the address and the last beat.                                          *)
WriteShape ==
  saved_req.is_write =>
    /\ in_issue \subseteq {"AW", "W", "B"} /\ rleft = 0
    /\ in_issue = {} \/ "B" \in in_issue
    /\ "B" \in in_issue => /\ "AW" \in in_issue <=> ~awdone
                           /\ "W" \in in_issue <=> ~wdone
                           /\ "W" \in in_issue => wbeats + count = saved_req.len
    /\ "B" \notin in_issue => ~awdone /\ ~wdone /\ wbeats = 0

ReadShape ==
  ~saved_req.is_write =>
    /\ in_issue \subseteq {"AR", "R"} /\ ~awdone /\ ~wdone /\ wbeats = 0
    /\ "AR" \in in_issue => "R" \in in_issue /\ rleft = 0 /\ count = saved_req.len
    /\ "R" \in in_issue /\ "AR" \notin in_issue => rleft = count + 1
    /\ in_issue = {} => rleft = 0

BridgeInv ==
  /\ target \in {"AXI", "simulation"}
  /\ target = "simulation" => in_issue = {}
  /\ WriteShape /\ ReadShape /\ LiveIsSaved

(* The transaction of the simulated device is the live request. *)
DeviceInv ==
  /\ target = "AXI" => ~tx.busy
  /\ tx.busy =>
       /\ tx.is_write = Creq.is_write
       /\ tx.Start_Address = ByteAddr(Creq)
       /\ tx.Burst_Length = Creq.len + 1
       /\ tx.N \in 1..tx.Burst_Length
       /\ tx.addr = tx.Start_Address + WordBytes * (tx.N - 1)
       /\ tx.aligned \/ tx.N = 1

BusInv == TypeOK /\ CacheInv /\ BridgeInv /\ DeviceInv

-----------------------------------------------------------------------------
(* The request wires.                                                      *)

LEMMA CreqIs ==
  ASSUME CacheTypeOK
  PROVE  /\ astate = "IDLE" => Creq = NoReq
         /\ astate = "BUSY" => Creq = ReqOf(index)
         /\ astate = "JUDGE" => Creq = ReqOf(Select(Ireqs))
         /\ Select(Ireqs) = IF Dcreq.valid \/ ~Icreq.valid THEN 0 ELSE 1
         /\ Select(Ireqs) \in Inputs
         /\ Ireqs[0] = Dcreq /\ Ireqs[1] = Icreq
<1>1. Ireqs[0] = Dcreq /\ Ireqs[1] = Icreq
  BY DEF Ireqs, Inputs
<1>2. Select(Ireqs) = IF Dcreq.valid \/ ~Icreq.valid THEN 0 ELSE 1
  BY <1>1 DEF Select
<1>3. QED
  BY <1>1, <1>2 DEF Creq, Oreq, Granted, ReqOf, CacheTypeOK, ArbTypeOK, Inputs

LEMMA ReqType ==
  ASSUME CacheTypeOK
  PROVE  /\ Dcreq \in [valid : BOOLEAN, is_write : BOOLEAN, addr : 0..4,
                       len : 0..MaxLen, data : Nat]
         /\ Icreq \in [valid : BOOLEAN, is_write : BOOLEAN, addr : 0..4,
                       len : 0..MaxLen, data : Nat]
         /\ Creq \in [valid : BOOLEAN, is_write : BOOLEAN, addr : 0..4,
                      len : 0..MaxLen, data : Nat]
         /\ NoReq \in [valid : BOOLEAN, is_write : BOOLEAN, addr : 0..4,
                       len : 0..MaxLen, data : Nat]
<1> USE MaxLenAssumption
<1>1. Dcreq.data \in Nat
  BY DEF Dcreq, CacheTypeOK, Offsets, Stale
<1>2. Dcreq \in [valid : BOOLEAN, is_write : BOOLEAN, addr : 0..4,
                 len : 0..MaxLen, data : Nat]
  BY <1>1 DEF Dcreq, CacheTypeOK, WritingBack
<1>3. Icreq \in [valid : BOOLEAN, is_write : BOOLEAN, addr : 0..4,
                 len : 0..MaxLen, data : Nat]
  BY DEF Icreq, CacheTypeOK
<1>4. NoReq \in [valid : BOOLEAN, is_write : BOOLEAN, addr : 0..4,
                 len : 0..MaxLen, data : Nat]
  BY DEF NoReq
<1>5. QED
  BY <1>2, <1>3, <1>4, CreqIs DEF ReqOf, CacheTypeOK, ArbTypeOK

(* What the caches and the arbiter need to know of the bus end that        *)
(* answers with resp: beats come only in a burst, the last one is the one  *)
(* the request asks for, and a burst begins only with a request that is up. *)
BusDoes(resp) ==
  /\ resp \in [ready : BOOLEAN, last : BOOLEAN]
  /\ resp.ready => Run
  /\ resp.last <=> resp.ready /\ Beat = Creq.len
  /\ Run /\ ~resp.last => Run' /\ Beat' = IF resp.ready THEN Beat + 1 ELSE Beat
  /\ Run /\ resp.last => ~Run'
  /\ ~Run /\ Run' => Creq.valid /\ Beat' = 0

SameRequest(r1, r2) ==
  /\ r1.valid = r2.valid /\ r1.is_write = r2.is_write
  /\ r1.addr = r2.addr /\ r1.len = r2.len

LEMMA CacheTypeStep ==
  ASSUME CacheTypeOK, NEW resp, CacheSide(resp)
  PROVE  CacheTypeOK'
<1> USE MaxLenAssumption
<1> DEFINE dresp == Iresp(Ireqs, resp, 0)
           iresp == Iresp(Ireqs, resp, 1)
<1> HIDE DEF dresp, iresp
<1>0. /\ ArbClock(Ireqs, resp) /\ DClock(dresp) /\ IClock(iresp)
      /\ overtaken' = IF istate' = "IDLE" \/ istate = "IDLE" THEN 0
                      ELSE IF dresp.last THEN overtaken + 1 ELSE overtaken
  BY DEF CacheSide, dresp, iresp
<1>1. ArbTypeOK'
  BY <1>0, CreqIs DEF CacheTypeOK, ArbTypeOK, ArbClock, ArbChoose, ArbServe
<1>2. \A k \in Offsets : Succ(k) \in Offsets
  BY DEF Succ, Offsets
<1>3. 0 \in Offsets
  BY DEF Offsets
<1>4. /\ dstate' \in {"IDLE", "FETCH_n", "WRITEBACK_n", "WRITEBACK", "UNCACHE_n"}
      /\ dwrite' \in BOOLEAN /\ daddr' \in {0, 1}
      /\ miss_offset' \in Offsets /\ buffer_offset' \in Offsets
      /\ offset_count' \in Offsets
      /\ port_2_data_r' \in Offsets \union {Stale}
      /\ buffer' \in [Offsets -> Offsets \union {Stale}]
      /\ delay_counter' \in BOOLEAN
  <2>1. CASE DIdle
    <3>1. 1 - daddr \in {0, 1}
      BY DEF CacheTypeOK
    <3>2. [k \in Offsets |-> Stale] \in [Offsets -> Offsets \union {Stale}]
      OBVIOUS
    <3>3. CASE \E q \in {"WRITEBACK_n", "FETCH_n", "WRITEBACK"} : DStart(q)
      <4>1. PICK q \in {"WRITEBACK_n", "FETCH_n", "WRITEBACK"} : DStart(q)
        BY <3>3
      <4>2. /\ dstate' \in {"WRITEBACK_n", "FETCH_n", "WRITEBACK"}
            /\ miss_offset' = 0 /\ offset_count' = 0 /\ daddr' = 1 - daddr
            /\ buffer' = [k \in Offsets |-> Stale]
        BY <4>1 DEF DStart
      <4>3. /\ port_2_data_r' = Stale /\ buffer_offset' = buffer_offset
            /\ delay_counter' \in BOOLEAN /\ dwrite' \in BOOLEAN
        BY <2>1 DEF DIdle, CacheTypeOK
      <4>4. QED
        BY <1>3, <3>1, <3>2, <4>2, <4>3 DEF CacheTypeOK
    <3>4. CASE ~\E q \in {"WRITEBACK_n", "FETCH_n", "WRITEBACK"} : DStart(q)
      BY <2>1, <3>1, <3>4 DEF DIdle, CacheTypeOK
    <3>5. QED
      BY <3>3, <3>4
  <2>2. CASE DFetch(dresp)
    BY <1>2, <2>2 DEF DFetch, CacheTypeOK
  <2>3. CASE DWriteback(dresp)
    BY <1>2, <1>3, <2>3 DEF DWriteback, WritingBack, CacheTypeOK
  <2>4. CASE DUncache(dresp)
    BY <2>4 DEF DUncache, CacheTypeOK
  <2>5. QED
    BY <1>0, <2>1, <2>2, <2>3, <2>4 DEF DClock
<1>5. /\ istate' \in {"IDLE", "FETCH_1", "FETCH_2"} /\ iaddr' \in {0, 1}
      /\ imiss_offset' \in Offsets
  BY <1>0, <1>2, <1>3 DEF IClock, IIdle, IFetch, iVars, CacheTypeOK
<1>6. overtaken' \in Nat
  BY <1>0 DEF CacheTypeOK
<1>7. QED
  BY <1>1, <1>4, <1>5, <1>6 DEF CacheTypeOK

(* One cycle of the caches and the arbiter keeps CacheInv, and a request   *)
(* that is being served stays as it is.                                    *)
LEMMA CacheStep ==
  ASSUME CacheTypeOK, CacheInv, NEW resp, CacheSide(resp), BusDoes(resp)
  PROVE  /\ CacheInv'
         /\ Run' => SameRequest(Creq, Creq')
<1> USE MaxLenAssumption
<1> DEFINE dresp == Iresp(Ireqs, resp, 0)
           iresp == Iresp(Ireqs, resp, 1)
<1> HIDE DEF dresp, iresp
<1>0. /\ ArbClock(Ireqs, resp) /\ DClock(dresp) /\ IClock(iresp)
      /\ overtaken' = IF istate' = "IDLE" \/ istate = "IDLE" THEN 0
                      ELSE IF dresp.last THEN overtaken + 1 ELSE overtaken
      /\ CacheTypeOK'
  BY CacheTypeStep DEF CacheSide, dresp, iresp
<1>1. /\ dresp.ready <=> Serving(0) /\ resp.ready
      /\ dresp.last <=> Serving(0) /\ resp.last
      /\ iresp.ready <=> Serving(1) /\ resp.ready
      /\ iresp.last <=> Serving(1) /\ resp.last
  BY DEF dresp, iresp, Iresp, Granted, NoResp, BusDoes, CacheInv, GrantHeld,
         Serving
<1>2. /\ astate = "BUSY" => index' = index
                            /\ astate' = IF resp.last THEN "JUDGE" ELSE "BUSY"
      /\ astate # "BUSY" => /\ index' = Select(Ireqs)
                            /\ astate' = IF ReqOf(Select(Ireqs)).valid
                                         THEN "BUSY" ELSE "IDLE"
  BY <1>0, CreqIs
     DEF ArbClock, ArbChoose, ArbServe, CacheTypeOK, ArbTypeOK, ReqOf, Inputs
<1>3. Run' => astate' = "BUSY" /\ Creq = ReqOf(index') /\ Creq.valid
  <2>1. CASE Run
    BY <1>2, <2>1, CreqIs DEF BusDoes, CacheInv, GrantHeld
  <2>2. CASE ~Run
    BY <1>2, <2>2, CreqIs DEF BusDoes, CacheInv, GrantHeld, CacheTypeOK, ArbTypeOK, NoReq
  <2>3. QED
    BY <2>1, <2>2
<1>4. Dcreq.valid /\ ~dresp.last => SameRequest(Dcreq, Dcreq')
  BY <1>0, <1>1 DEF DClock, DIdle, DFetch, DWriteback, DUncache, Dcreq,
       WritingBack, SameRequest, CacheTypeOK
<1>5. Icreq.valid /\ ~iresp.last => SameRequest(Icreq, Icreq')
  BY <1>0, <1>1 DEF IClock, IIdle, IFetch, Icreq, SameRequest, CacheTypeOK
<1>6. Run' => SameRequest(Creq, Creq')
  <2> SUFFICES ASSUME Run' PROVE SameRequest(Creq, Creq')
    OBVIOUS
  <2>1. Creq' = ReqOf(index)'
    BY <1>0, <1>3
       DEF Creq, Oreq, Granted, ReqOf, Ireqs, CacheTypeOK, ArbTypeOK, Inputs
  <2>2. ~dresp.last \/ index' # 0
    BY <1>1, <1>2 DEF BusDoes, Serving, CacheInv, GrantHeld
  <2>3. ~iresp.last \/ index' = 0
    BY <1>1, <1>2 DEF BusDoes, Serving, CacheInv, GrantHeld
  <2>4. QED
    BY <1>3, <1>4, <1>5, <2>1, <2>2, <2>3 DEF ReqOf
<1>7. GrantHeld'
  <2>1. (Run => astate = "BUSY")'
    BY <1>3
  <2>2. (astate = "BUSY" => ReqOf(index).valid)'
    <3> SUFFICES ASSUME astate' = "BUSY" PROVE ReqOf(index)'.valid
      OBVIOUS
    <3>1. ReqOf(index').valid /\ ~resp.last
      BY <1>2 DEF CacheInv, GrantHeld, BusDoes
    <3>2. ~dresp.last /\ ~iresp.last
      BY <1>1, <3>1
    <3>3. QED
      BY <1>4, <1>5, <3>1, <3>2 DEF ReqOf, SameRequest
  <2>3. (Run => Beat \in 0..Creq.len)'
    BY <1>6, ReqType DEF SameRequest, BusDoes, CacheInv, GrantHeld
  <2>4. QED
    BY <2>1, <2>2, <2>3 DEF GrantHeld
<1>8. ASSUME NEW i \in Inputs
      PROVE  /\ Serving(i) => ReqOf(i).valid /\ Creq = ReqOf(i)
                              /\ Beat \in 0..ReqOf(i).len
             /\ Serving(i) /\ ~resp.last =>
                  Serving(i)' /\ Beat' = IF resp.ready THEN Beat + 1 ELSE Beat
             /\ Serving(i) /\ resp.last => ~Serving(i)'
             /\ Serving(i) => (resp.last <=> resp.ready /\ Beat = ReqOf(i).len)
             /\ ~Serving(i) /\ Serving(i)' => ReqOf(i).valid /\ Beat' = 0
  BY <1>2, <1>3, CreqIs DEF Serving, BusDoes, CacheInv, GrantHeld
<1>9. /\ Serving(0) => dstate # "IDLE" /\ Beat \in 0..MaxLen
      /\ Serving(0) /\ dstate # "UNCACHE_n" =>
           (resp.last <=> resp.ready /\ Beat = MaxLen)
      /\ Serving(0) /\ ~resp.last =>
           Serving(0)' /\ Beat' = IF resp.ready THEN Beat + 1 ELSE Beat
      /\ Serving(0) /\ resp.last => ~Serving(0)'
      /\ ~Serving(0) /\ Serving(0)' => Dcreq.valid /\ dstate # "IDLE" /\ Beat' = 0
  <2>1. 0 \in Inputs /\ ReqOf(0) = Dcreq
    BY DEF Inputs, ReqOf
  <2>2. /\ Dcreq.valid => dstate # "IDLE"
        /\ dstate # "UNCACHE_n" => Dcreq.len = MaxLen
        /\ Dcreq.len \in 0..MaxLen
    BY ReqType DEF Dcreq, WritingBack
  <2>3. QED
    BY <1>8, <2>1, <2>2
<1>10. WordCounters'
  <2>1. (dstate = "FETCH_n" => miss_offset = IF Serving(0) THEN Beat ELSE 0)'
    <3>1. CASE DIdle
      BY <1>9, <3>1 DEF DIdle, DStart
    <3>2. CASE DFetch(dresp)
      BY <1>1, <1>9, <3>2 DEF DFetch, CacheInv, WordCounters, Succ, BusDoes
    <3>3. CASE DWriteback(dresp)
      BY <1>1, <1>9, <3>3 DEF DWriteback, WritingBack
    <3>4. CASE DUncache(dresp)
      BY <3>4 DEF DUncache
    <3>5. QED
      BY <1>0, <3>1, <3>2, <3>3, <3>4 DEF DClock
  <2>2. (WritingBack => offset_count = IF Serving(0) THEN Beat ELSE 0)'
    <3>1. CASE DIdle
      BY <1>9, <3>1 DEF DIdle, DStart, WritingBack
    <3>2. CASE DFetch(dresp)
      BY <3>2 DEF DFetch, WritingBack
    <3>3. CASE DWriteback(dresp)
      BY <1>1, <1>9, <3>3 DEF DWriteback, WritingBack, CacheInv, WordCounters, Succ,
         BusDoes
    <3>4. CASE DUncache(dresp)
      BY <3>4 DEF DUncache, WritingBack
    <3>5. QED
      BY <1>0, <3>1, <3>2, <3>3, <3>4 DEF DClock
  <2>3. (istate # "IDLE" => imiss_offset = IF Serving(1) THEN Beat ELSE 0)'
    <3>0. Icreq.valid <=> istate # "IDLE"
      BY DEF Icreq, CacheTypeOK
    <3>1. 1 \in Inputs /\ ReqOf(1) = Icreq /\ Icreq.len = MaxLen
          /\ (Icreq.valid <=> istate # "IDLE")
      BY <3>0 DEF Inputs, ReqOf, Icreq
    <3>2. QED
      BY <1>0, <1>1, <1>8, <3>1
         DEF IClock, IIdle, IFetch, iVars, CacheInv, WordCounters, Succ, BusDoes
  <2>4. QED
    BY <2>1, <2>2, <2>3 DEF WordCounters
<1>11. BufferFilled'
  <2> SUFFICES ASSUME WritingBack' PROVE BufferFilled'
    BY DEF BufferFilled
  <2>1. CASE DIdle
    BY <2>1 DEF DIdle, DStart, WritingBack, BufferFilled
  <2>2. CASE DWriteback(dresp)
    <3>1. /\ WritingBack /\ (~resp.last \/ ~Serving(0))
          /\ delay_counter' /\ port_2_data_r' = buffer_offset'
          /\ miss_offset' = Succ(buffer_offset')
      BY <1>1, <1>9, <2>2 DEF DWriteback, WritingBack, CacheTypeOK, BusDoes
    <3>2. AheadOfBus'
      <4>1. /\ buffer' = [buffer EXCEPT ![buffer_offset] = port_2_data_r]
            /\ buffer_offset' = miss_offset
            /\ offset_count' = IF dresp.ready THEN Succ(offset_count) ELSE offset_count
            /\ WritingBack
        BY <2>2 DEF DWriteback
      <4>2. /\ buffer \in [Offsets -> Offsets \union {Stale}]
            /\ buffer_offset \in Offsets /\ offset_count \in Offsets
        BY DEF CacheTypeOK
      <4>3. CASE ~delay_counter
        <5>1. miss_offset = 0 /\ ~Dcreq.valid
          BY <4>1, <4>3 DEF CacheInv, BufferFilled, Dcreq, WritingBack
        <5>2. ~Serving(0)'
          <6>1. ReqOf(0) = Dcreq /\ 0 \in Inputs
            BY DEF ReqOf, Inputs
          <6>2. QED
            BY <1>8, <5>1, <6>1
        <5>3. QED
          BY <4>1, <5>1, <5>2 DEF AheadOfBus, Offsets
      <4>4. CASE delay_counter
        <5>1. /\ port_2_data_r = buffer_offset /\ miss_offset = Succ(buffer_offset)
              /\ AheadOfBus
          BY <4>1, <4>4 DEF CacheInv, BufferFilled
        <5>2. /\ buffer'[buffer_offset] = buffer_offset
              /\ \A k \in Offsets : k # buffer_offset => buffer'[k] = buffer[k]
          BY <4>1, <4>2, <5>1
        <5>3. CASE \A k \in Offsets : buffer[k] = k
          BY <5>2, <5>3 DEF AheadOfBus
        <5>4. CASE /\ \A k \in Offsets : k < buffer_offset => buffer[k] = k
                   /\ Serving(0) => offset_count < buffer_offset
          <6>1. CASE buffer_offset = MaxLen
            BY <4>2, <5>2, <5>4, <6>1 DEF AheadOfBus, Offsets
          <6>2. CASE buffer_offset # MaxLen
            <7>1. buffer_offset' = buffer_offset + 1
              BY <4>1, <5>1, <6>2 DEF Succ
            <7>2. \A k \in Offsets : k < buffer_offset' => buffer'[k] = k
              BY <4>2, <5>2, <5>4, <7>1 DEF Offsets
            <7>3. Serving(0)' => offset_count' < buffer_offset'
              <8>1. CASE Serving(0)
                BY <4>1, <4>2, <5>4, <7>1, <8>1 DEF Succ, Offsets
              <8>2. CASE ~Serving(0)
                BY <1>9, <1>10, <4>2, <7>1, <8>2 DEF WordCounters, Offsets
              <8>3. QED
                BY <8>1, <8>2
            <7>4. QED
              BY <7>2, <7>3 DEF AheadOfBus
          <6>3. QED
            BY <6>1, <6>2
        <5>5. QED
          BY <5>1, <5>3, <5>4 DEF AheadOfBus
      <4>5. QED
        BY <4>3, <4>4
    <3>3. QED
      BY <3>1, <3>2 DEF BufferFilled
  <2>3. QED
    BY <1>0, <2>1, <2>2 DEF DClock, DFetch, DUncache, WritingBack
<1>12. Overtaking'
  <2>1. Icreq.valid <=> istate # "IDLE"
    BY DEF Icreq, CacheTypeOK
  <2>2. dstate = "IDLE" => ~Dcreq.valid
    BY DEF Dcreq, WritingBack
  <2>3. dstate = "FETCH_n" => Dcreq.valid
    BY DEF Dcreq, WritingBack
  <2>4. CASE dresp.last
    <3>1. astate = "BUSY" /\ index = 0 /\ astate' = "JUDGE"
      BY <1>1, <1>2, <2>4 DEF Serving, CacheInv, GrantHeld
    <3>2. dstate' = "IDLE" \/ (dstate = "WRITEBACK_n" /\ dstate' = "FETCH_n")
      BY <1>0, <1>1, <1>9, <2>4
         DEF DClock, DIdle, DFetch, DWriteback, DUncache, WritingBack, BusDoes
    <3>3. overtaken' > 0 => istate' # "IDLE" /\ overtaken' = overtaken + 1
      BY <1>0, <2>4
    <3>4. overtaken = 0 \/ (overtaken = 1 /\ dstate = "FETCH_n")
      BY <3>1 DEF CacheInv, Overtaking, CacheTypeOK
    <3>5. QED
      BY <3>1, <3>2, <3>3, <3>4 DEF Overtaking
  <2>5. CASE ~dresp.last
    <3>1. overtaken' > 0 =>
            istate # "IDLE" /\ istate' # "IDLE" /\ overtaken' = overtaken
      BY <1>0, <2>5
    <3>2. CASE astate = "BUSY" /\ index = 1
      <4>1. istate' # "IDLE" /\ istate # "IDLE" => ~resp.last
        BY <1>0, <1>1, <1>8, <3>2
           DEF IClock, IIdle, IFetch, Serving, BusDoes, CacheInv, GrantHeld, CacheTypeOK
      <4>2. QED
        BY <1>2, <3>1, <3>2, <4>1 DEF CacheInv, Overtaking
    <3>3. CASE astate = "BUSY" /\ index = 0
      <4>1. ~resp.last
        BY <1>1, <2>5, <3>3 DEF Serving, BusDoes
      <4>2. dstate = "FETCH_n" => dstate' = "FETCH_n"
        BY <1>0, <2>5 DEF DClock, DIdle, DFetch, DWriteback, DUncache, WritingBack
      <4>3. QED
        BY <1>2, <3>1, <3>3, <4>1, <4>2 DEF CacheInv, Overtaking
    <3>4. CASE astate = "JUDGE"
      <4>1. dstate = "FETCH_n" => dstate' = "FETCH_n"
        BY <1>0, <2>5 DEF DClock, DIdle, DFetch, DWriteback, DUncache, WritingBack
      <4>2. QED
        BY <1>2, <2>1, <2>2, <2>3, <3>1, <3>4, <4>1, CreqIs
           DEF CacheInv, Overtaking, ReqOf
    <3>5. QED
      BY <3>1, <3>2, <3>3, <3>4 DEF CacheInv, Overtaking
  <2>6. QED
    BY <2>4, <2>5
<1>13. QED
  BY <1>6, <1>7, <1>10, <1>11, <1>12 DEF CacheInv

-----------------------------------------------------------------------------
(* The bridge and the AXI slave.                                           *)

LEMMA TypeParts ==
  TypeOK <=> /\ CacheTypeOK /\ BridgeTypeOK
             /\ rleft \in 0..(MaxLen + 1) /\ awdone \in BOOLEAN
             /\ wbeats \in 0..(MaxLen + 1) /\ wdone \in BOOLEAN
             /\ tx \in [busy : BOOLEAN, is_write : BOOLEAN, aligned : BOOLEAN,
                        N : 0..(MaxLen + 1), addr : Nat, Start_Address : Nat,
                        Burst_Length : 0..(MaxLen + 1)]
             /\ enable \in BOOLEAN
  BY DEF TypeOK, CacheTypeOK

(* The beat counter counts down; at zero only a new request sets it. *)
LEMMA CountDown ==
  ASSUME NEW c \in 0..MaxLen, c # 0
  PROVE  (c + MaxLen) % (MaxLen + 1) = c - 1
<1>1. c + MaxLen = (MaxLen + 1) + (c - 1) /\ c - 1 \in 0..MaxLen
  BY MaxLenAssumption
<1>2. QED
  BY <1>1, MaxLenAssumption

(* A request is taken: the bridge starts a burst for it. *)
LEMMA BridgeAccepts ==
  ASSUME TypeOK, CacheInv, BridgeInv, DeviceInv, NEW axi \in SUBSET Channels,
         Tick(axi), in_issue = {}
  PROVE  /\ BusDoes(Cresp(axi, Rlast))
         /\ BridgeTypeOK' /\ WriteShape' /\ ReadShape'
         /\ rleft' = 0 /\ awdone' = FALSE /\ wbeats' = 0 /\ wdone' = FALSE
         /\ saved_req' = Creq
<1> USE MaxLenAssumption
<1>1. /\ in_issue' = IF Creq.valid THEN NextIssue(Creq) ELSE {}
      /\ saved_req' = Creq /\ count' = Creq.len /\ tx' = tx
  BY DEF Tick, BridgeClock, BridgeAccept, BridgeRun, devVars
<1>2. Handshake(axi) = {}
  BY DEF Handshake
<1>3. rleft = 0 /\ ~awdone /\ wbeats = 0 /\ ~wdone
  BY TypeParts DEF BridgeInv, WriteShape, ReadShape, BridgeTypeOK
<1>4. rleft' = 0 /\ awdone' = FALSE /\ wbeats' = 0 /\ wdone' = FALSE
  BY <1>2, <1>3 DEF Tick, SlaveClock
<1>5. Creq \in [valid : BOOLEAN, is_write : BOOLEAN, addr : 0..4,
                len : 0..MaxLen, data : Nat]
  BY ReqType, TypeParts
<1>6. BridgeTypeOK' /\ WriteShape' /\ ReadShape'
  BY <1>1, <1>4, <1>5
     DEF BridgeTypeOK, NextIssue, Channels, WriteShape, ReadShape
<1>7. ~Run /\ ~tx.busy /\ ~tx'.busy
  BY <1>1 DEF Run, DeviceInv, Tick
<1>8. /\ Cresp(axi, Rlast) \in [ready : BOOLEAN, last : BOOLEAN]
      /\ ~Cresp(axi, Rlast).ready /\ ~Cresp(axi, Rlast).last
  BY <1>2 DEF Cresp, Ready
<1>9. Run' => Creq.valid /\ Beat' = 0
  BY <1>1, <1>5, <1>7 DEF Run, Beat
<1>10. QED
  BY <1>1, <1>4, <1>6, <1>7, <1>8, <1>9 DEF BusDoes

(* A burst goes on: the counters move together. *)
LEMMA BridgeRuns ==
  ASSUME TypeOK, CacheInv, BridgeInv, DeviceInv, NEW axi \in SUBSET Channels,
         Tick(axi), in_issue # {}
  PROVE  /\ BusDoes(Cresp(axi, Rlast))
         /\ BridgeTypeOK' /\ WriteShape' /\ ReadShape'
         /\ rleft' \in 0..(MaxLen + 1) /\ awdone' \in BOOLEAN
         /\ wbeats' \in 0..(MaxLen + 1) /\ wdone' \in BOOLEAN
         /\ saved_req' = saved_req /\ in_issue' \subseteq in_issue
<1> USE MaxLenAssumption
<1> DEFINE resp == Cresp(axi, Rlast)
<1>1. /\ in_issue' = in_issue \ Ended(axi, Rlast)
      /\ count' = IF resp.ready /\ ~resp.last
                  THEN (count + MaxLen) % (MaxLen + 1) ELSE count
      /\ saved_req' = saved_req /\ tx' = tx
      /\ SlaveMay(axi) /\ SlaveClock(axi)
      /\ ~tx.busy
  BY DEF Tick, BridgeClock, BridgeAccept, BridgeRun, devVars, DeviceInv
<1>2. /\ BridgeTypeOK /\ rleft \in 0..(MaxLen + 1) /\ awdone \in BOOLEAN
      /\ wbeats \in 0..(MaxLen + 1) /\ wdone \in BOOLEAN
      /\ saved_req.len \in 0..MaxLen /\ saved_req.is_write \in BOOLEAN
      /\ count \in 0..MaxLen
  BY TypeParts DEF BridgeTypeOK
<1>3. WriteShape /\ ReadShape /\ LiveIsSaved
  BY DEF BridgeInv
<1>4. CASE saved_req.is_write
  <2>1. /\ resp.ready <=> "W" \in Handshake(axi)
        /\ resp.last <=> "W" \in Handshake(axi) /\ count = 0
        /\ resp \in [ready : BOOLEAN, last : BOOLEAN]
    BY <1>3, <1>4 DEF Cresp, Ready, Handshake, WriteShape, IsLast
  <2>2. count' = IF resp.ready /\ ~resp.last THEN count - 1 ELSE count
    BY <1>1, <1>2, <2>1, CountDown
  <2>3. /\ in_issue' \subseteq in_issue
        /\ "AW" \in in_issue' <=> "AW" \in in_issue /\ "AW" \notin axi
        /\ "W" \in in_issue' <=> "W" \in in_issue /\ ~resp.last
        /\ "B" \in in_issue' <=> "B" \notin axi
        /\ "B" \in in_issue
        /\ "R" \notin in_issue /\ "AR" \notin in_issue
    BY <1>1, <1>3, <1>4, <2>1 DEF Ended, Handshake, IsLast, WriteShape
  <2>4. /\ rleft' = rleft
        /\ awdone' <=> ("AW" \in Handshake(axi) \/ awdone) /\ "B" \notin axi
        /\ wdone' <=> (resp.last \/ wdone) /\ "B" \notin axi
        /\ wbeats' = IF "B" \in axi THEN 0
                     ELSE IF resp.ready THEN wbeats + 1 ELSE wbeats
        /\ awdone' \in BOOLEAN /\ wdone' \in BOOLEAN
        /\ "B" \in axi => awdone /\ wdone
    BY <1>1, <1>2, <2>1, <2>3 DEF SlaveClock, SlaveMay, Handshake, IsLast
  <2>5. BridgeTypeOK' /\ rleft' \in 0..(MaxLen + 1)
    BY <1>1, <1>2, <2>1, <2>2, <2>3, <2>4 DEF BridgeTypeOK
  <2>6. wbeats' \in 0..(MaxLen + 1)
    BY <1>2, <1>3, <1>4, <2>1, <2>3, <2>4 DEF WriteShape, Handshake
  <2>7. WriteShape'
    <3>1. /\ in_issue' \subseteq {"AW", "W", "B"} /\ rleft' = 0
          /\ in_issue' = {} \/ "B" \in in_issue'
      BY <1>3, <1>4, <2>3, <2>4 DEF WriteShape
    <3>2. CASE "B" \in axi
      BY <2>3, <2>4, <3>1, <3>2 DEF WriteShape
    <3>3. CASE "B" \notin axi
      <4>1. /\ "AW" \in in_issue' <=> ~awdone'
            /\ "W" \in in_issue' <=> ~wdone'
        BY <1>3, <1>4, <2>1, <2>3, <2>4, <3>3 DEF WriteShape, Handshake
      <4>2. "W" \in in_issue' => wbeats' + count' = saved_req'.len
        BY <1>1, <1>2, <1>3, <1>4, <2>1, <2>2, <2>3, <2>4, <3>3 DEF WriteShape
      <4>3. QED
        BY <2>3, <3>1, <3>3, <4>1, <4>2 DEF WriteShape
    <3>4. QED
      BY <3>2, <3>3
  <2>8. ReadShape'
    BY <1>1, <1>4 DEF ReadShape
  <2>9. BusDoes(resp)
    <3>1. /\ Run <=> "W" \in in_issue
          /\ Run' <=> "W" \in in_issue'
          /\ Beat = saved_req.len - count /\ Beat' = saved_req.len - count'
      BY <1>1, <2>3 DEF Run, Beat
    <3>2. Run => Creq.len = saved_req.len
      BY <1>3, <3>1 DEF LiveIsSaved
    <3>3. resp.ready => Run
      BY <2>1, <3>1 DEF Handshake
    <3>4. resp.last <=> resp.ready /\ Beat = Creq.len
      BY <1>2, <2>1, <3>1, <3>2, <3>3
    <3>5. Run /\ ~resp.last => Run' /\ Beat' = IF resp.ready THEN Beat + 1 ELSE Beat
      BY <1>2, <2>1, <2>2, <2>3, <3>1
    <3>6. QED
      BY <2>1, <2>3, <3>1, <3>3, <3>4, <3>5 DEF BusDoes
  <2>10. QED
    BY <1>1, <2>3, <2>4, <2>5, <2>6, <2>7, <2>8, <2>9
<1>5. CASE ~saved_req.is_write
  <2>1. "R" \in in_issue /\ "W" \notin in_issue /\ "AW" \notin in_issue
        /\ "B" \notin in_issue
    BY <1>3, <1>5 DEF ReadShape
  <2>2. /\ "R" \in axi => rleft > 0 /\ "AR" \notin in_issue /\ rleft = count + 1
        /\ resp.ready <=> "R" \in axi
        /\ resp.last <=> "R" \in axi /\ count = 0
        /\ resp.last <=> "R" \in axi /\ rleft = 1
        /\ resp \in [ready : BOOLEAN, last : BOOLEAN]
    <3>1. "R" \in axi => rleft > 0 /\ "AR" \notin in_issue /\ rleft = count + 1
      BY <1>1, <1>2, <1>3, <1>5, <2>1 DEF ReadShape, SlaveMay
    <3>2. "R" \in Handshake(axi) <=> "R" \in axi
      BY <2>1 DEF Handshake
    <3>3. "W" \notin Handshake(axi)
      BY <2>1 DEF Handshake
    <3>4. /\ resp.ready <=> "R" \in axi
          /\ resp.last <=> "R" \in axi /\ rleft = 1 /\ count = 0
          /\ resp \in [ready : BOOLEAN, last : BOOLEAN]
      BY <2>1, <3>2, <3>3 DEF Cresp, Ready, Rlast, IsLast
    <3>5. QED
      BY <1>2, <3>1, <3>4
  <2>3. count' = IF resp.ready /\ ~resp.last THEN count - 1 ELSE count
    BY <1>1, <1>2, <2>2, CountDown
  <2>4. /\ in_issue' \subseteq in_issue
        /\ "AR" \in in_issue' <=> "AR" \in in_issue /\ "AR" \notin axi
        /\ "R" \in in_issue' <=> ~resp.last
    BY <1>1, <1>3, <1>5, <2>1, <2>2 DEF Ended, Handshake, Rlast
  <2>5. /\ rleft' = IF "AR" \in Handshake(axi) THEN saved_req.len + 1
                    ELSE IF resp.ready THEN rleft - 1 ELSE rleft
        /\ awdone' = FALSE /\ wdone' = FALSE /\ wbeats' = 0
    BY <1>1, <1>2, <1>3, <1>5, <2>1, <2>2 DEF SlaveClock, Handshake, ReadShape
  <2>6. BridgeTypeOK' /\ rleft' \in 0..(MaxLen + 1) /\ wbeats' \in 0..(MaxLen + 1)
    BY <1>1, <1>2, <2>2, <2>3, <2>4, <2>5 DEF BridgeTypeOK
  <2>7. ReadShape'
    <3>1. CASE "AR" \in in_issue
      <4>1. ~resp.ready /\ ~resp.last /\ count' = saved_req.len /\ rleft = 0
        BY <1>3, <1>5, <2>2, <2>3, <3>1 DEF ReadShape
      <4>2. QED
        BY <1>1, <1>2, <1>3, <1>5, <2>1, <2>4, <2>5, <3>1, <4>1
           DEF ReadShape, Handshake
    <3>2. CASE "AR" \notin in_issue
      <4>1. rleft = count + 1 /\ "AR" \notin in_issue' /\ "AR" \notin Handshake(axi)
        BY <1>3, <1>5, <2>1, <2>4, <3>2 DEF ReadShape, Handshake
      <4>2. QED
        BY <1>1, <1>2, <1>3, <1>5, <2>1, <2>2, <2>3, <2>4, <2>5, <4>1 DEF ReadShape
    <3>3. QED
      BY <3>1, <3>2
  <2>8. WriteShape'
    BY <1>1, <1>5 DEF WriteShape
  <2>9. BusDoes(resp)
    <3>1. /\ Run /\ (Run' <=> "R" \in in_issue')
          /\ Beat = saved_req.len - count /\ Beat' = saved_req.len - count'
      BY <1>1, <2>1, <2>4 DEF Run, Beat
    <3>2. Creq.len = saved_req.len
      BY <1>3, <2>1 DEF LiveIsSaved
    <3>3. resp.last <=> resp.ready /\ Beat = Creq.len
      BY <1>2, <2>2, <3>1, <3>2
    <3>4. ~resp.last => Run' /\ Beat' = IF resp.ready THEN Beat + 1 ELSE Beat
      BY <1>2, <2>2, <2>3, <2>4, <3>1
    <3>5. QED
      BY <2>2, <2>4, <3>1, <3>3, <3>4 DEF BusDoes
  <2>10. QED
    BY <1>1, <2>4, <2>5, <2>6, <2>7, <2>8, <2>9
<1>6. QED
  BY <1>2, <1>4, <1>5

-----------------------------------------------------------------------------
(* The simulated device.                                                   *)

LEMMA MultipleDivides ==
  ASSUME NEW a \in Nat, NEW b \in Nat, b > 0
  PROVE  ((a * b) \div b) * b = a * b
  OBVIOUS

(* The device's next address is the next word of the line: a line starts   *)
(* at a multiple of its length, so that the burst does not wrap.           *)
LEMMA DeviceAddress ==
  ASSUME NEW t \in [busy : BOOLEAN, is_write : BOOLEAN, aligned : BOOLEAN,
                    N : 0..(MaxLen + 1), addr : Nat, Start_Address : Nat,
                    Burst_Length : 0..(MaxLen + 1)],
         NEW a \in Nat, t.Start_Address = a * (MaxLen + 1) * WordBytes,
         t.Burst_Length = MaxLen + 1, t.N \in 1..MaxLen,
         t.addr = t.Start_Address + WordBytes * (t.N - 1),
         t.aligned \/ t.N = 1
  PROVE  TxSync(t).addr = t.Start_Address + WordBytes * t.N
<1> USE MaxLenAssumption
<1> DEFINE b == WordBytes * (MaxLen + 1)
<1>1. b \in Nat /\ b > 0 /\ t.Start_Address = a * b /\ Dtsize(t) = b
  BY DEF WordBytes, Dtsize
<1>2. Lower_Wrap_Boundry(t) = t.Start_Address
  BY <1>1, MultipleDivides DEF Lower_Wrap_Boundry
<1>3. Aligned_Address(t) = t.Start_Address
  <2>1. a * (MaxLen + 1) \in Nat
    OBVIOUS
  <2>2. QED
    BY <2>1, MultipleDivides DEF Aligned_Address, WordBytes
<1>4. Upper_Wrap_Boundry(t) = t.Start_Address + b
  BY <1>1, <1>2 DEF Upper_Wrap_Boundry
<1>5. t.Start_Address + WordBytes * t.N < Upper_Wrap_Boundry(t)
  BY <1>1, <1>4 DEF WordBytes
<1>6. (IF t.aligned THEN t.addr + WordBytes ELSE Aligned_Address(t) + WordBytes)
        = t.Start_Address + WordBytes * t.N
  BY <1>3 DEF WordBytes
<1>7. t.Start_Address + WordBytes * t.N \in Nat /\ Upper_Wrap_Boundry(t) \in Nat
  BY <1>1, <1>4 DEF WordBytes
<1>8. QED
  BY <1>5, <1>6, <1>7 DEF TxSync

TxType == [busy : BOOLEAN, is_write : BOOLEAN, aligned : BOOLEAN,
           N : 0..(MaxLen + 1), addr : Nat, Start_Address : Nat,
           Burst_Length : 0..(MaxLen + 1)]

LEMMA ByteAddrType ==
  ASSUME NEW r, r.addr \in 0..4
  PROVE  ByteAddr(r) \in Nat
  BY MaxLenAssumption DEF ByteAddr, WordBytes

(* The device answers like the bridge. *)
LEMMA DeviceStep ==
  ASSUME TypeOK, CacheInv, BridgeInv, DeviceInv, SimTick
  PROVE  /\ BusDoes(DeviceResp)
         /\ tx' \in TxType /\ enable' \in BOOLEAN
         /\ (Run' => SameRequest(Creq, Creq')) => DeviceInv'
<1> USE MaxLenAssumption
<1>0. /\ CacheTypeOK /\ tx \in TxType /\ enable \in BOOLEAN
      /\ in_issue = {} /\ in_issue' = {} /\ target' = target /\ target = "simulation"
      /\ DeviceClock(Creq, ByteAddr(Creq))
  BY TypeParts DEF SimTick, BridgeInv, TxType, bridgeVars, CacheSide
<1>1. /\ Run <=> tx.busy
      /\ Run' <=> tx'.busy
      /\ tx.busy => Beat = tx.N - 1
      /\ tx'.busy => Beat' = tx'.N - 1
  BY <1>0 DEF Run, Beat
<1>2. Creq.len \in 0..MaxLen /\ Creq.addr \in 0..4 /\ Creq.is_write \in BOOLEAN
      /\ Creq.valid \in BOOLEAN /\ ByteAddr(Creq) \in Nat
  BY <1>0, ReqType, ByteAddrType
<1>3. enable' \in BOOLEAN
  BY <1>0 DEF DeviceClock
<1>4. CASE ~enable
  <2>1. tx' = tx /\ DeviceResp = [ready |-> FALSE, last |-> FALSE]
    BY <1>0, <1>4 DEF DeviceClock, DeviceResp
  <2>2. BusDoes(DeviceResp)
    BY <1>0, <1>1, <2>1 DEF BusDoes
  <2>3. (Run' => SameRequest(Creq, Creq')) => DeviceInv'
    BY <1>0, <1>1, <2>1 DEF DeviceInv, SameRequest, ByteAddr
  <2>4. QED
    BY <1>0, <1>3, <2>1, <2>2, <2>3
<1>5. CASE enable /\ ~tx.busy
  <2>1. DeviceResp = [ready |-> FALSE, last |-> FALSE]
    BY <1>5 DEF DeviceResp
  <2>2. CASE Creq.valid
    <3>1. tx' = TxInit(ByteAddr(Creq), Creq.len, Creq.is_write)
      BY <1>0, <1>5, <2>2 DEF DeviceClock
    <3>2. tx' \in TxType
      BY <1>2, <3>1 DEF TxInit, TxType
    <3>3. BusDoes(DeviceResp)
      BY <1>1, <1>5, <2>1, <2>2, <3>1 DEF BusDoes, TxInit
    <3>4. (Run' => SameRequest(Creq, Creq')) => DeviceInv'
      BY <1>0, <1>1, <1>2, <3>1 DEF DeviceInv, SameRequest, ByteAddr, TxInit, WordBytes
    <3>5. QED
      BY <1>3, <3>2, <3>3, <3>4
  <2>3. CASE ~Creq.valid
    <3>1. tx' = tx
      BY <1>0, <1>5, <2>3 DEF DeviceClock
    <3>2. QED
      BY <1>0, <1>1, <1>3, <1>5, <2>1, <3>1 DEF BusDoes, DeviceInv
  <2>4. QED
    BY <1>2, <2>2, <2>3
<1>6. CASE enable /\ tx.busy
  <2>1. /\ tx.is_write = Creq.is_write
        /\ tx.Start_Address = ByteAddr(Creq)
        /\ tx.Burst_Length = Creq.len + 1
        /\ tx.N \in 1..tx.Burst_Length
        /\ tx.addr = tx.Start_Address + WordBytes * (tx.N - 1)
        /\ tx.aligned \/ tx.N = 1
    BY <1>6 DEF DeviceInv
  <2>2. DeviceResp = [ready |-> TRUE, last |-> TxLast(tx)]
    BY <1>6 DEF DeviceResp
  <2>3. TxLast(tx) <=> Beat = Creq.len
    BY <1>1, <1>2, <1>6, <2>1 DEF TxLast
  <2>4. CASE TxLast(tx)
    <3>1. tx' = NoTx
      BY <1>0, <1>6, <2>4 DEF DeviceClock
    <3>2. tx' \in TxType /\ ~tx'.busy
      BY <3>1 DEF NoTx, TxType
    <3>3. QED
      BY <1>0, <1>1, <1>3, <1>6, <2>2, <2>3, <2>4, <3>2 DEF BusDoes, DeviceInv
  <2>5. CASE ~TxLast(tx)
    <3>1. tx' = TxSync(tx)
      BY <1>0, <1>6, <2>5 DEF DeviceClock
    <3>2. /\ tx'.busy /\ tx'.N = tx.N + 1 /\ tx'.aligned
          /\ tx'.is_write = tx.is_write /\ tx'.Start_Address = tx.Start_Address
          /\ tx'.Burst_Length = tx.Burst_Length
      BY <1>0, <1>6, <3>1 DEF TxSync, TxType
    <3>3. tx'.N \in 1..tx.Burst_Length /\ tx.N < Creq.len + 1
      BY <1>2, <2>1, <2>5, <3>2 DEF TxLast
    <3>4. Creq.len = MaxLen
      <4>1. Creq.len \in {0, MaxLen}
        BY <1>0, CreqIs DEF ReqOf, Dcreq, Icreq, NoReq, CacheTypeOK, ArbTypeOK
      <4>2. QED
        BY <2>1, <3>3, <4>1
    <3>5. tx'.addr = tx.Start_Address + WordBytes * tx.N
      <4>1. Creq.addr \in Nat /\ tx.N \in 1..MaxLen /\ tx.Burst_Length = MaxLen + 1
        BY <1>2, <2>1, <3>3, <3>4
      <4>2. tx.Start_Address = Creq.addr * (MaxLen + 1) * WordBytes
        BY <2>1 DEF ByteAddr
      <4>3. TxSync(tx).addr = tx.Start_Address + WordBytes * tx.N
        BY <1>0, <2>1, <4>1, <4>2, DeviceAddress DEF TxType
      <4>4. QED
        BY <3>1, <4>3
    <3>6. tx' \in TxType
      <4>1. tx.Start_Address + WordBytes * tx.N \in Nat
        BY <1>0 DEF TxType, WordBytes
      <4>2. TxSync(tx) = [tx EXCEPT !.N = tx.N + 1, !.aligned = TRUE,
                                    !.addr = TxSync(tx).addr]
        BY <1>0 DEF TxSync, TxType
      <4>3. tx.N + 1 \in 0..(MaxLen + 1)
        BY <1>0, <2>1, <3>3, <3>4
      <4>4. QED
        BY <1>0, <3>1, <3>5, <4>1, <4>2, <4>3 DEF TxType
    <3>7. BusDoes(DeviceResp)
      <4>1. /\ DeviceResp \in [ready : BOOLEAN, last : BOOLEAN]
            /\ DeviceResp.ready /\ ~DeviceResp.last
        BY <2>2, <2>5 DEF TxLast
      <4>2. Run /\ Run' /\ Beat' = Beat + 1 /\ Beat # Creq.len
        BY <1>0, <1>1, <1>6, <2>1, <2>3, <2>5, <3>2 DEF TxType
      <4>3. QED
        BY <4>1, <4>2 DEF BusDoes
    <3>8. (Run' => SameRequest(Creq, Creq')) => DeviceInv'
      BY <1>0, <1>1, <1>2, <2>1, <3>2, <3>3, <3>5
         DEF DeviceInv, SameRequest, ByteAddr, WordBytes
    <3>9. QED
      BY <1>3, <3>6, <3>7, <3>8
  <2>6. QED
    BY <2>4, <2>5
<1>7. QED
  BY <1>0, <1>4, <1>5, <1>6 DEF TxType

-----------------------------------------------------------------------------
(* The theorems.                                                           *)

LEMMA BusInit == Init => BusInv
<1> SUFFICES ASSUME Init PROVE BusInv
  OBVIOUS
<1> USE MaxLenAssumption
<1>1. 0 \in Offsets /\ Stale \in Offsets \union {Stale}
      /\ buffer \in [Offsets -> Offsets \union {Stale}]
  BY DEF Init, Offsets
<1>2. CacheTypeOK
  BY <1>1 DEF Init, CacheTypeOK, ArbTypeOK, ArbInit, Inputs
<1>3. BridgeTypeOK
  BY DEF Init, BridgeInit, BridgeTypeOK, NoReq
<1>4. tx \in TxType /\ ~tx.busy /\ enable \in BOOLEAN
  BY DEF Init, DeviceInit, NoTx, TxType
<1>5. TypeOK
  <2>1. 0 \in 0..(MaxLen + 1)
    OBVIOUS
  <2>2. QED
    BY <1>2, <1>3, <1>4, <2>1 DEF Init, TxType, TypeOK, CacheTypeOK
<1>6. ~Run /\ in_issue = {}
  BY <1>4 DEF Run, Init, BridgeInit
<1>7. CacheInv
  BY <1>6 DEF Init, ArbInit, CacheInv, GrantHeld, WordCounters, BufferFilled,
              Overtaking, WritingBack
<1>8. BridgeInv
  BY <1>6 DEF Init, BridgeInit, NoReq, BridgeInv, WriteShape, ReadShape, LiveIsSaved
<1>9. DeviceInv
  BY <1>4 DEF DeviceInv
<1>10. QED
  BY <1>5, <1>7, <1>8, <1>9 DEF BusInv

(* A cycle on the chip keeps the invariant. *)
LEMMA TickStep ==
  ASSUME BusInv, NEW axi \in SUBSET Channels, Tick(axi)
  PROVE  BusInv'
<1>0. TypeOK /\ CacheInv /\ BridgeInv /\ DeviceInv
  BY DEF BusInv
<1>1. /\ BusDoes(Cresp(axi, Rlast))
      /\ BridgeTypeOK' /\ WriteShape' /\ ReadShape'
      /\ rleft' \in 0..(MaxLen + 1) /\ awdone' \in BOOLEAN
      /\ wbeats' \in 0..(MaxLen + 1) /\ wdone' \in BOOLEAN
  <2>1. CASE in_issue = {}
    <3>1. 0 \in 0..(MaxLen + 1)
      BY MaxLenAssumption
    <3>2. QED
      BY <1>0, <2>1, <3>1, BridgeAccepts
  <2>2. CASE in_issue # {}
    BY <1>0, <2>2, BridgeRuns
  <2>3. QED
    BY <2>1, <2>2
<1>2. /\ CacheSide(Cresp(axi, Rlast)) /\ target = "AXI" /\ target' = "AXI"
      /\ tx' = tx /\ enable' = enable
  BY DEF Tick, CacheSide, devVars
<1>3. CacheTypeOK /\ CacheTypeOK'
  BY <1>0, <1>2, TypeParts, CacheTypeStep
<1>4. CacheInv' /\ (Run' => SameRequest(Creq, Creq'))
  BY <1>0, <1>1, <1>2, <1>3, CacheStep
<1>5. TypeOK'
  BY <1>0, <1>1, <1>2, <1>3 DEF TypeOK, CacheTypeOK
<1>6. DeviceInv'
  BY <1>0, <1>2 DEF DeviceInv
<1>7. LiveIsSaved'
  <2> SUFFICES ASSUME (in_issue \intersect {"R", "W"} # {})'
               PROVE  LiveIsSaved'
    BY DEF LiveIsSaved
  <2>1. Run' /\ astate' = "BUSY" /\ SameRequest(Creq, Creq')
    BY <1>4 DEF Run, CacheInv, GrantHeld
  <2>2. Creq'.valid
    <3>1. Creq' = ReqOf(index)'
      BY <1>3, <2>1
         DEF Creq, Oreq, Granted, ReqOf, Ireqs, CacheTypeOK, ArbTypeOK, Inputs
    <3>2. QED
      BY <1>4, <2>1, <3>1 DEF CacheInv, GrantHeld
  <2>3. CASE in_issue = {}
    <3>1. saved_req' = Creq
      BY <1>0, <2>3, BridgeAccepts
    <3>2. QED
      BY <2>1, <2>2, <3>1 DEF LiveIsSaved, SameRequest
  <2>4. CASE in_issue # {}
    <3>1. saved_req' = saved_req /\ in_issue' \subseteq in_issue
      BY <1>0, <2>4, BridgeRuns
    <3>2. QED
      BY <1>0, <2>1, <2>2, <3>1 DEF LiveIsSaved, SameRequest, BridgeInv
  <2>5. QED
    BY <2>3, <2>4
<1>8. QED
  BY <1>1, <1>2, <1>4, <1>5, <1>6, <1>7 DEF BusInv, BridgeInv

(* A cycle of the simulation keeps the invariant. *)
LEMMA SimTickStep ==
  ASSUME BusInv, SimTick
  PROVE  BusInv'
<1>0. TypeOK /\ CacheInv /\ BridgeInv /\ DeviceInv
  BY DEF BusInv
<1>1. /\ BusDoes(DeviceResp) /\ tx' \in TxType /\ enable' \in BOOLEAN
      /\ (Run' => SameRequest(Creq, Creq')) => DeviceInv'
  BY <1>0, DeviceStep
<1>2. /\ CacheSide(DeviceResp) /\ target = "simulation" /\ target' = target
      /\ UNCHANGED <<in_issue, saved_req, count, rleft, awdone, wbeats, wdone>>
  BY DEF SimTick, CacheSide, bridgeVars, axiVars
<1>3. CacheTypeOK /\ CacheTypeOK'
  BY <1>0, <1>2, TypeParts, CacheTypeStep
<1>4. CacheInv' /\ (Run' => SameRequest(Creq, Creq'))
  BY <1>0, <1>1, <1>2, <1>3, CacheStep
<1>5. TypeOK'
  BY <1>0, <1>1, <1>2, <1>3 DEF TypeOK, CacheTypeOK, BridgeTypeOK, TxType
<1>6. BridgeInv'
  BY <1>0, <1>2 DEF BridgeInv, WriteShape, ReadShape, LiveIsSaved
<1>7. QED
  BY <1>1, <1>4, <1>5, <1>6 DEF BusInv

LEMMA BusInvariant == Spec => []BusInv
<1>1. Init => BusInv
  BY BusInit
<1>2. BusInv /\ [Next]_vars => BusInv'
  <2> SUFFICES ASSUME BusInv, [Next]_vars
               PROVE  BusInv'
    OBVIOUS
  <2>1. CASE \E axi \in SUBSET Channels : Tick(axi)
    BY <2>1, TickStep
  <2>2. CASE SimTick
    BY <2>2, SimTickStep
  <2>3. CASE UNCHANGED vars
    <3>1. UNCHANGED <<target, astate, index, in_issue, saved_req, count, tx, enable,
                      dstate, dwrite, daddr, miss_offset, buffer_offset,
                      port_2_data_r, buffer, offset_count, delay_counter, istate,
                      iaddr, imiss_offset, rleft, awdone, wbeats, wdone, overtaken>>
      BY <2>3 DEF vars, arbVars, bridgeVars, devVars, dVars, iVars, axiVars
    <3>2. Dcreq' = Dcreq /\ Icreq' = Icreq /\ WritingBack' = WritingBack
      BY <3>1 DEF Dcreq, Icreq, WritingBack
    <3>3. Creq' = Creq /\ Run' = Run /\ Beat' = Beat
      BY <3>1, <3>2 DEF Creq, Oreq, Granted, Select, Ireqs, Run, Beat
    <3>4. TypeOK'
      BY <3>1 DEF BusInv, TypeOK, ArbTypeOK, BridgeTypeOK
    <3>5. CacheInv'
      BY <3>1, <3>2, <3>3
         DEF BusInv, CacheInv, GrantHeld, WordCounters, BufferFilled, AheadOfBus,
             Overtaking, Serving, ReqOf
    <3>6. BridgeInv' /\ DeviceInv'
      BY <3>1, <3>3
         DEF BusInv, BridgeInv, WriteShape, ReadShape, LiveIsSaved, DeviceInv, ByteAddr
    <3>7. QED
      BY <3>4, <3>5, <3>6 DEF BusInv
  <2>4. QED
    BY <2>1, <2>2, <2>3 DEF Next
<1>3. QED
  BY <1>1, <1>2, PTL DEF Spec

(* A request stays up and the same until its last beat: at the bridge the  *)
(* live request is the latched one while data moves, and no assertion of   *)
(* the simulated device fires.  All registers hold values of their types.  *)
THEOREM RequestsStay == Spec => []RequestStays
<1>1. BusInv => RequestStays
  <2> SUFFICES ASSUME BusInv PROVE RequestStays
    OBVIOUS
  <2>1. TypeOK /\ LiveIsSaved
    BY DEF BusInv, BridgeInv
  <2>2. tx.busy => Creq.valid
    <3>1. tx.busy => astate = "BUSY" /\ ReqOf(index).valid
      BY DEF BusInv, CacheInv, GrantHeld, Run
    <3>2. QED
      BY <2>1, <3>1, TypeParts, CreqIs
  <2>3. SanityChecks
    BY <2>2 DEF SanityChecks, DeviceAsserts, BusInv, DeviceInv
  <2>4. QED
    BY <2>1, <2>3 DEF RequestStays
<1>2. QED
  BY <1>1, BusInvariant, PTL

(* Bursts move word by word: the counters of the caches, the bridge, the   *)
(* slave and the simulated device agree in every cycle, and the word       *)
(* offered for writing is the word of that beat.                           *)
THEOREM BurstsWordByWord == Spec => []WordByWord
<1>1. BusInv => WordByWord
  <2> SUFFICES ASSUME BusInv PROVE WordByWord
    OBVIOUS
  <2> USE MaxLenAssumption
  <2>0. TypeOK /\ CacheTypeOK /\ BridgeTypeOK /\ tx \in TxType
        /\ rleft \in 0..(MaxLen + 1) /\ wbeats \in 0..(MaxLen + 1)
    BY TypeParts DEF BusInv, TxType
  <2>1. /\ saved_req.len \in 0..MaxLen /\ count \in 0..MaxLen
        /\ index \in {0, 1} /\ saved_req.is_write \in BOOLEAN
    BY <2>0 DEF BridgeTypeOK, CacheTypeOK, ArbTypeOK, Inputs
  <2>2. /\ CacheInv /\ WriteShape /\ ReadShape /\ LiveIsSaved /\ DeviceInv
        /\ target \in {"AXI", "simulation"}
        /\ target = "simulation" => in_issue = {}
    BY DEF BusInv, BridgeInv
  <2>3. Run => /\ astate = "BUSY" /\ Creq = ReqOf(index) /\ Creq.valid
               /\ Beat \in 0..Creq.len
    BY <2>0, <2>2, CreqIs DEF CacheInv, GrantHeld
  <2>4. Icreq.len = MaxLen /\ ~Icreq.is_write
        /\ (dstate # "UNCACHE_n" => Dcreq.len = MaxLen)
        /\ (dstate = "UNCACHE_n" => Dcreq.len = 0 /\ Dcreq.data = 0)
        /\ (WritingBack => Dcreq.data = buffer[offset_count] /\ dstate # "UNCACHE_n")
        /\ (Dcreq.is_write => WritingBack \/ dstate = "UNCACHE_n")
        /\ (WritingBack /\ Dcreq.valid => delay_counter)
        /\ (dstate = "FETCH_n" => ~Dcreq.is_write)
        /\ (Icreq.valid => istate # "IDLE")
    BY DEF Icreq, Dcreq, WritingBack
  <2>5. Run /\ Creq.is_write => index = 0 /\ Creq = Dcreq /\ Creq.data = Beat
    <3> SUFFICES ASSUME Run, Creq.is_write
                 PROVE  index = 0 /\ Creq = Dcreq /\ Creq.data = Beat
      OBVIOUS
    <3>1. index = 0 /\ Creq = Dcreq /\ Serving(0)
      BY <2>1, <2>3, <2>4 DEF ReqOf, Serving
    <3>2. CASE WritingBack
      <4>1. offset_count = Beat /\ AheadOfBus /\ offset_count \in Offsets
        BY <2>0, <2>2, <2>3, <2>4, <3>1, <3>2
           DEF CacheInv, WordCounters, BufferFilled, CacheTypeOK
      <4>2. buffer[offset_count] = offset_count
        BY <2>0, <3>1, <4>1 DEF AheadOfBus, CacheTypeOK, Offsets
      <4>3. QED
        BY <2>4, <3>1, <3>2, <4>1, <4>2
    <3>3. CASE dstate = "UNCACHE_n"
      BY <2>3, <2>4, <3>1, <3>3
    <3>4. QED
      BY <2>4, <3>1, <3>2, <3>3
  <2>6. in_issue # {} => ~tx.busy
    BY <2>2 DEF DeviceInv
  <2>7. "W" \in in_issue =>
          /\ Run /\ saved_req.is_write /\ Creq.is_write
          /\ wbeats + count = saved_req.len /\ Beat = wbeats
    BY <2>0, <2>1, <2>2, <2>6 DEF Run, Beat, WriteShape, ReadShape, LiveIsSaved
  <2>8. "R" \in in_issue =>
          /\ Run /\ ~saved_req.is_write
          /\ "AR" \notin in_issue => rleft = count + 1
          /\ Beat + count = Creq.len
    BY <2>0, <2>1, <2>2, <2>6 DEF Run, Beat, WriteShape, ReadShape, LiveIsSaved
  <2>9. tx.busy => Run /\ Beat = tx.N - 1
                   /\ tx.addr = ByteAddr(Creq) + WordBytes * Beat
                   /\ tx.is_write = Creq.is_write
    BY <2>2 DEF Run, Beat, DeviceInv
  <2>10. /\ Run /\ index = 0 /\ dstate = "FETCH_n" => miss_offset = Beat /\ Creq.len = MaxLen
         /\ Run /\ index = 0 /\ WritingBack => offset_count = Beat
         /\ Run /\ index = 1 => imiss_offset = Beat /\ Creq.len = MaxLen
    BY <2>2, <2>3, <2>4 DEF CacheInv, WordCounters, Serving, ReqOf
  <2>11. BeatsAgree
    BY <2>1, <2>5, <2>7, <2>8, <2>9, <2>10 DEF BeatsAgree
  <2>12. WriteDataReady
    BY <2>5, <2>7, <2>9 DEF WriteDataReady
  <2>13. QED
    BY <2>11, <2>12 DEF WordByWord
<1>2. QED
  BY <1>1, BusInvariant, PTL

(* No read is on its way while a write is unanswered. *)
THEOREM ReadsBehindWrites == Spec => []NoReadOverWrite
<1>1. BusInv => NoReadOverWrite
  BY TypeParts DEF BusInv, BridgeInv, WriteShape, ReadShape, NoReadOverWrite, BridgeTypeOK
<1>2. QED
  BY <1>1, BusInvariant, PTL

(* A waiting instruction fetch is overtaken by at most two bursts of the   *)
(* data cache, a write-back and its refill.                                *)
THEOREM BypassBounded == Spec => []BoundedBypass
<1>1. BusInv => BoundedBypass
  BY TypeParts DEF BusInv, CacheInv, Overtaking, BoundedBypass, CacheTypeOK
<1>2. QED
  BY <1>1, BusInvariant, PTL
=============================================================================
