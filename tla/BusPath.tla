------------------------------ MODULE BusPath ------------------------------
(***************************************************************************)
(* The path from the two caches to memory: the cache-bus side of DCache.sv *)
(* and ICache.sv, MyArbiter.sv between them (cache_manage.sv), and what    *)
(* the cache bus ends in: on the chip CBusToAXI.sv (mycpu_top.sv) and an   *)
(* AXI slave (external), under Verilator (VTop.sv) the test bench's class  *)
(* CBusDevice, which "should match the behavior of module CBusToAXI"       *)
(* (verilate/include/memory.h).  `target' says which.  Everything is       *)
(* clocked by one clock, so a step is one clock cycle; what the slave does *)
(* in the cycle is the set `axi' of channels on which it is ready/valid.   *)
(*                                                                         *)
(* Only what a burst needs is kept of the caches: their FSM state, the     *)
(* word counters, and the data cache's write-back buffer.  Port 1 and port *)
(* 2 of the data cache go through the same bus states (WRITEBACK_n,        *)
(* FETCH_n, UNCACHE_n); which access the core asks for is left open.       *)
(*                                                                         *)
(* Data words are named by their position: in the buffer k stands for word *)
(* k of the line being written back, Stale for anything else.  Successive  *)
(* bursts of a cache alternate between two addresses, so that a request    *)
(* left over from an earlier burst is never mistaken for the current one.  *)
(***************************************************************************)
EXTENDS MyArbiter, CBusToAXI, CBusDevice

VARIABLES
  target,        \* "AXI" or "simulation"
  dstate,        \* DCache FSM register `state', without the port number
  dwrite,        \* the latched dreq_n.strobe is not zero (used by UNCACHE_n)
  daddr,         \* 0 or 1: which of its two addresses the burst is for
  miss_offset,   \* miss_addr.offset
  buffer_offset, \* buffer_offset
  port_2_data_r, \* the data RAM's registered read port
  buffer,        \* the write-back buffer
  offset_count,  \* read index into the buffer
  delay_counter,
  istate,        \* ICache FSM register `state'
  iaddr,
  imiss_offset,
  rleft,         \* AXI slave: read beats it still owes
  awdone,        \* AXI slave: it holds an unanswered write address
  wbeats,        \* AXI slave: write beats received for the next response
  wdone,         \* AXI slave: it has received wlast
  overtaken      \* history: data-cache bursts finished while I is waiting

dVars   == <<dstate, dwrite, daddr, miss_offset, buffer_offset,
             port_2_data_r, buffer, offset_count, delay_counter>>
iVars   == <<istate, iaddr, imiss_offset>>
axiVars == <<rleft, awdone, wbeats, wdone>>
vars    == <<target, arbVars, bridgeVars, devVars, dVars, iVars, axiVars,
             overtaken>>

Offsets == 0..MaxLen
Stale   == MaxLen + 1
Succ(k) == IF k = MaxLen THEN 0 ELSE k + 1     \* offset_t wraps

-----------------------------------------------------------------------------
(* The request wires.                                                      *)

WritingBack == dstate \in {"WRITEBACK_n", "WRITEBACK"}

(* Fault: the write-back does not wait for the first word of the buffer. *)
DcreqNoDelay ==
  [valid    |-> dstate # "IDLE",
   is_write |-> WritingBack \/ (dstate = "UNCACHE_n" /\ dwrite),
   addr     |-> IF dstate = "IDLE" THEN 0 ELSE 1 + daddr,
   len      |-> IF dstate = "UNCACHE_n" THEN 0 ELSE MaxLen,
   data     |-> IF dstate = "UNCACHE_n" THEN 0 ELSE buffer[offset_count]]

Dcreq ==
  [valid    |-> \/ dstate \in {"FETCH_n", "UNCACHE_n"}
                \/ WritingBack /\ delay_counter,
   is_write |-> WritingBack \/ (dstate = "UNCACHE_n" /\ dwrite),
   addr     |-> IF dstate = "IDLE" THEN 0 ELSE 1 + daddr,
   len      |-> IF dstate = "UNCACHE_n" THEN 0 ELSE MaxLen,
   data     |-> IF dstate = "UNCACHE_n" THEN 0 ELSE buffer[offset_count]]

Icreq ==
  [valid    |-> istate \in {"FETCH_1", "FETCH_2"},
   is_write |-> FALSE,
   addr     |-> 3 + iaddr,
   len      |-> MaxLen,
   data     |-> 0]

Ireqs == [i \in Inputs |-> IF i = 0 THEN Dcreq ELSE Icreq]

Creq == Oreq(Ireqs)

(* The byte address of a request: its line's, lines being MaxLen + 1 words. *)
ByteAddr(req) == req.addr * (MaxLen + 1) * WordBytes

Rlast == rleft = 1

-----------------------------------------------------------------------------
(* The data cache's FSM.                                                   *)

DStart(s) ==
  /\ dstate' = s
  /\ miss_offset' = 0 /\ offset_count' = 0
  /\ daddr' = 1 - daddr
  /\ buffer' = [k \in Offsets |-> Stale]    \* old words are not this line's

DIdle ==
  /\ dstate = "IDLE"
  /\ port_2_data_r' = Stale
  /\ UNCHANGED buffer_offset
  /\ \/ /\ UNCHANGED <<dstate, dwrite, daddr, miss_offset, buffer,
                       offset_count>>
        /\ delay_counter' \in {delay_counter, FALSE}       \* en, or ~en
     \/ /\ \E s \in {"WRITEBACK_n", "FETCH_n", "WRITEBACK"} : DStart(s)
        /\ delay_counter' = FALSE
        /\ UNCHANGED dwrite
     \/ /\ dstate' = "UNCACHE_n"
        /\ dwrite' \in BOOLEAN
        /\ daddr' = 1 - daddr
        /\ delay_counter' = FALSE
        /\ UNCHANGED <<miss_offset, buffer, offset_count>>

(* Fault: the word counter moves without `ready'. *)
DFetchFreeRunning(resp) ==
  /\ dstate = "FETCH_n"
  /\ dstate' = IF resp.last THEN "IDLE" ELSE "FETCH_n"
  /\ miss_offset' = Succ(miss_offset)
  /\ port_2_data_r' = Stale
  /\ UNCHANGED <<dwrite, daddr, buffer_offset, buffer, offset_count,
                 delay_counter>>

DFetch(resp) ==
  /\ dstate = "FETCH_n"
  /\ IF resp.ready
     THEN /\ dstate' = IF resp.last THEN "IDLE" ELSE "FETCH_n"
          /\ miss_offset' = Succ(miss_offset)
     ELSE UNCHANGED <<dstate, miss_offset>>
  /\ port_2_data_r' = Stale
  /\ UNCHANGED <<dwrite, daddr, buffer_offset, buffer, offset_count,
                 delay_counter>>

DWriteback(resp) ==
  /\ WritingBack
  /\ IF resp.ready
     THEN /\ dstate' = IF ~resp.last THEN dstate
                       ELSE IF dstate = "WRITEBACK" THEN "IDLE" ELSE "FETCH_n"
          /\ offset_count' = Succ(offset_count)
     ELSE UNCHANGED <<dstate, offset_count>>
  /\ miss_offset' = IF resp.last THEN 0 ELSE Succ(miss_offset)
  /\ buffer_offset' = miss_offset
  /\ buffer' = [buffer EXCEPT ![buffer_offset] = port_2_data_r]
  /\ port_2_data_r' = miss_offset
  /\ delay_counter' = TRUE
  /\ daddr' = IF dstate' = "FETCH_n" THEN 1 - daddr ELSE daddr
  /\ UNCHANGED dwrite

DUncache(resp) ==
  /\ dstate = "UNCACHE_n"
  /\ dstate' = IF resp.last THEN "IDLE" ELSE "UNCACHE_n"
  /\ port_2_data_r' = Stale
  /\ UNCHANGED <<dwrite, daddr, miss_offset, buffer_offset, buffer,
                 offset_count, delay_counter>>

DClock(resp) ==
  DIdle \/ DFetch(resp) \/ DWriteback(resp) \/ DUncache(resp)

-----------------------------------------------------------------------------
(* The instruction cache's FSM.                                            *)

IIdle ==
  /\ istate = "IDLE"
  /\ \/ UNCHANGED iVars
     \/ /\ istate' \in {"FETCH_1", "FETCH_2"}
        /\ iaddr' = 1 - iaddr
        /\ imiss_offset' = 0

IFetch(resp) ==
  /\ istate \in {"FETCH_1", "FETCH_2"}
  /\ IF resp.ready
     THEN /\ istate' = IF resp.last THEN "IDLE" ELSE istate
          /\ imiss_offset' = Succ(imiss_offset)
     ELSE UNCHANGED <<istate, imiss_offset>>
  /\ UNCHANGED iaddr

IClock(resp) == IIdle \/ IFetch(resp)

-----------------------------------------------------------------------------
(* The AXI slave (external).  It answers a read address with len + 1 beats *)
(* from the next cycle on, and a write only after it has taken both the    *)
(* address and the last data beat; it may take data before the address.    *)

SlaveMay(axi) ==
  /\ "R" \in axi => rleft > 0
  /\ "B" \in axi => awdone /\ wdone

SlaveClock(axi) ==
  LET hs == Handshake(axi) IN
  /\ rleft' = IF "AR" \in hs THEN saved_req.len + 1
              ELSE IF "R" \in hs THEN rleft - 1 ELSE rleft
  /\ awdone' = (("AW" \in hs \/ awdone) /\ "B" \notin hs)
  /\ wbeats' = IF "B" \in hs THEN 0
               ELSE IF "W" \in hs THEN wbeats + 1 ELSE wbeats
  /\ wdone' = ((("W" \in hs /\ IsLast) \/ wdone) /\ "B" \notin hs)

-----------------------------------------------------------------------------

Init ==
  /\ target \in {"AXI", "simulation"}
  /\ ArbInit
  /\ BridgeInit(NoReq)
  /\ DeviceInit
  /\ dstate = "IDLE" /\ dwrite = FALSE /\ daddr = 0
  /\ miss_offset = 0 /\ buffer_offset = 0 /\ offset_count = 0
  /\ port_2_data_r = Stale
  /\ buffer = [k \in Offsets |-> Stale]
  /\ delay_counter = FALSE
  /\ istate = "IDLE" /\ iaddr = 0 /\ imiss_offset = 0
  /\ rleft = 0 /\ awdone = FALSE /\ wbeats = 0 /\ wdone = FALSE
  /\ overtaken = 0

(* One clock cycle of the caches and the arbiter, answered with resp. *)
CacheSide(resp) ==
  LET dresp == Iresp(Ireqs, resp, 0)
      iresp == Iresp(Ireqs, resp, 1)
  IN  /\ ArbClock(Ireqs, resp)
      /\ DClock(dresp)
      /\ IClock(iresp)
      /\ overtaken' = IF istate' = "IDLE" \/ istate = "IDLE" THEN 0
                      ELSE IF dresp.last THEN overtaken + 1 ELSE overtaken
      /\ UNCHANGED target

(* One clock cycle on the chip. *)
Tick(axi) ==
  /\ target = "AXI"
  /\ SlaveMay(axi)
  /\ CacheSide(Cresp(axi, Rlast))
  /\ BridgeClock(Creq, axi, Rlast)
  /\ SlaveClock(axi)
  /\ UNCHANGED devVars

(* One call of tick() in the simulation (mycpu.cpp). *)
SimTick ==
  /\ target = "simulation"
  /\ CacheSide(DeviceResp)
  /\ DeviceClock(Creq, ByteAddr(Creq))
  /\ UNCHANGED <<bridgeVars, axiVars>>

Next == (\E axi \in SUBSET Channels : Tick(axi)) \/ SimTick

(* The clock keeps running, the slave does not leave a channel that the    *)
(* bridge is waiting on unanswered for ever, and the simulated device does *)
(* not pause for ever (p_disable < 1).                                     *)
Fairness ==
  /\ WF_vars(Next)
  /\ \A c \in Channels :
       WF_vars(\E axi \in SUBSET Channels : c \in Handshake(axi) /\ Tick(axi))
  /\ WF_vars(SimTick /\ enable')

Spec     == Init /\ [][Next]_vars
FairSpec == Spec /\ Fairness
-----------------------------------------------------------------------------

(* Every register holds a value of its type. *)
TypeOK ==
  /\ ArbTypeOK /\ BridgeTypeOK
  /\ dstate \in {"IDLE", "FETCH_n", "WRITEBACK_n", "WRITEBACK", "UNCACHE_n"}
  /\ dwrite \in BOOLEAN /\ daddr \in {0, 1}
  /\ miss_offset \in Offsets /\ buffer_offset \in Offsets
  /\ offset_count \in Offsets
  /\ port_2_data_r \in Offsets \union {Stale}
  /\ buffer \in [Offsets -> Offsets \union {Stale}]
  /\ delay_counter \in BOOLEAN
  /\ istate \in {"IDLE", "FETCH_1", "FETCH_2"} /\ iaddr \in {0, 1}
  /\ imiss_offset \in Offsets
  /\ rleft \in 0..(MaxLen + 1) /\ awdone \in BOOLEAN
  /\ wbeats \in 0..(MaxLen + 1) /\ wdone \in BOOLEAN
  /\ overtaken \in Nat
  /\ tx \in [busy : BOOLEAN, is_write : BOOLEAN, aligned : BOOLEAN,
             N : 0..(MaxLen + 1), addr : Nat, Start_Address : Nat,
             Burst_Length : 0..(MaxLen + 1)]
  /\ enable \in BOOLEAN

(* Data moves (CBusToAXI.sv:91, creq.data) between the AXI port and the    *)
(* cache whose request the bridge latched: as long as an R or W beat is    *)
(* pending, the arbiter is BUSY and the live request it forwards is still  *)
(* the one in saved_req, although AR/AW use the saved copy and W the live  *)
(* wires.                                                                  *)
LiveIsSaved ==
  in_issue \intersect {"R", "W"} # {} =>
    /\ astate = "BUSY"
    /\ Creq.valid
    /\ Creq.is_write = saved_req.is_write
    /\ Creq.addr = saved_req.addr
    /\ Creq.len = saved_req.len

(* In the simulation none of the assertions of CBusDevice::eval_req fires  *)
(* (cbus_device.cpp:36-40): whatever the arbiter and the caches do, and    *)
(* whenever the device pauses, the request stays up and the same until its *)
(* last beat.                                                              *)
SanityChecks == target = "simulation" => DeviceAsserts(Creq, ByteAddr(Creq))

(* A request stays up and the same until its last beat, which both ends of *)
(* the bus rely on.                                                        *)
RequestStays == TypeOK /\ LiveIsSaved /\ SanityChecks

(* The four beat counters of a burst agree: the bridge's `count', the      *)
(* slave's, and the cache's word counter, so that beat k is word k of the  *)
(* line and `last' falls on the last word.  The simulated device counts in *)
(* addresses: the one it loads is that of the word the cache stores.       *)
BeatsAgree ==
  /\ "W" \in in_issue => wbeats + count = saved_req.len
  /\ "W" \in in_issue /\ WritingBack => offset_count = wbeats
  /\ "R" \in in_issue /\ "AR" \notin in_issue => rleft = count + 1
  /\ "R" \in in_issue /\ index = 0 /\ dstate = "FETCH_n" =>
       miss_offset + count = MaxLen
  /\ "R" \in in_issue /\ index = 1 => imiss_offset + count = MaxLen
  /\ tx.busy /\ dstate = "FETCH_n" /\ index = 0 =>
       tx.addr = ByteAddr(Creq) + WordBytes * miss_offset
  /\ tx.busy /\ index = 1 =>
       tx.addr = ByteAddr(Creq) + WordBytes * imiss_offset

(* The write-back buffer is filled one word a cycle while the bus may      *)
(* already be draining it (DCache.sv:671-689): the word offered on W is    *)
(* always the word of that beat.                                           *)
WriteDataReady ==
  /\ "W" \in in_issue => Creq.data = wbeats
  /\ tx.busy /\ tx.is_write /\ WritingBack =>
       tx.addr = ByteAddr(Creq) + WordBytes * Creq.data

(* Bursts move word by word, in both directions (CBusToAXI.sv:148,         *)
(* DCache.sv:671, cbus_device.cpp:12).                                     *)
WordByWord == BeatsAgree /\ WriteDataReady

(* Memory order: no read address is offered while a write is unanswered,   *)
(* so a refill never overtakes the write-back before it.                   *)
NoReadOverWrite ==
  in_issue \intersect {"AR", "R"} # {} => ~awdone /\ wbeats = 0

(* The data cache has priority (MyArbiter.sv:28-36), but a waiting         *)
(* instruction fetch is overtaken by at most one write-back and the refill *)
(* that follows it without a gap.                                          *)
BoundedBypass == overtaken <= 2

(* A request a cache has raised is answered to its last beat, the one of   *)
(* the instruction cache although the data cache has priority.             *)
DServed == dstate # "IDLE" ~> dstate = "IDLE"
IServed == istate # "IDLE" ~> istate = "IDLE"
BurstsEnd == DServed /\ IServed
=============================================================================
