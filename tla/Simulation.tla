----------------------------- MODULE Simulation -----------------------------
(***************************************************************************)
(* A simulated run of the CPU: MyCPU::tick and run                         *)
(* (verilate/source/mycpu/VTop/mycpu.cpp) over CBusDevice, Confreg and     *)
(* TextDiff, with the thread that reads the UART's terminal.               *)
(*                                                                         *)
(* The design under test is external: it makes one access of Accesses at a *)
(* time, holding its request until the answer, and moves bundles of at     *)
(* most two instructions into the writeback stage.  An instruction is      *)
(* "right" or "wrong" against the line the reference trace has for it, "-" *)
(* if it writes no register, "end" at TEST_END_PC + 4.  The program ends   *)
(* before the latter: what is written there or behind it is not its own.   *)
(* The instruction before it, at TEST_END_PC, is one like any other, and   *)
(* may be in the same bundle.                                              *)
(*                                                                         *)
(* A call of tick is two steps, because the UART thread may push between   *)
(* sync's pop and its test for emptiness; everything else the thread does  *)
(* commutes with the rest of tick.                                         *)
(***************************************************************************)
EXTENDS CBusDevice, Confreg, TextDiff

CONSTANTS
  Accesses,     \* what the design may ask for: <<is_write, addr, data>>
  MaxAccesses,  \* bound on their number
  MaxRetired,   \* bound on the register writes before the last bundle
  Terminal,     \* the characters typed at the terminal, in order
  MAX_CYCLE

ASSUME BoundsAssumption ==
  MaxAccesses \in Nat /\ MaxRetired \in Nat /\ MAX_CYCLE \in Nat \ {0}
ASSUME InputsAssumption ==
  /\ Accesses \subseteq BOOLEAN \X (0..ADDR_MASK) \X Nat
  /\ \A a \in Accesses : a[1] => a[2] # UART_LSR   \* the store panics
  /\ Terminal \in Seq(0..255)

VARIABLES
  phase,          \* "tick", "sync", "exit", or "abort"
  current_cycle,
  test_finished,
  current_num,    \* _current_num
  creq,           \* the request wires
  wb,             \* the bundle in the writeback stage
  typed,          \* how many characters of Terminal the thread has read
  retired,        \* history: the register writes of the program
  accessed,       \* history: accesses made
  received,       \* history: characters the design read from the UART
  stored,         \* history: the characters it wrote to each output register
  shown,          \* history: the characters checkout_confreg has seen
  promised,       \* history: LSR said there is a character, not read since
  cr0             \* history: <<last value stored in CR0, last value loaded>>

benchVars == <<phase, current_cycle, test_finished, current_num>>
history   == <<retired, accessed, received, stored, shown, promised, cr0>>
vars == <<devVars, conVars, diff, benchVars, creq, wb, typed, history>>

NoReq == [valid |-> FALSE, is_write |-> FALSE, addr |-> 0, data |-> 0, len |-> 0]

Request(a) == [valid |-> TRUE, is_write |-> a[1], addr |-> a[2], data |-> a[3],
               len |-> 0]

Lines == {"right", "wrong"}

(* The bundles that may come, the older instruction first. *)
Bundles ==
  {<<>>, <<"end">>}
    \union {<<a>> : a \in Lines}
    \union {<<a, b>> : a \in Lines, b \in Lines \union {"-"}}
    \union {<<a, "end">> : a \in Lines \union {"-"}}
    \union {<<"end", b>> : b \in Lines \union {"-"}}

(* The instruction in slot k writes a register (TEST_END_PC + 4 does, but  *)
(* no bundle with it is ever printed). *)
Writes(bundle, k) == k \in DOMAIN bundle /\ bundle[k] \in Lines

(* What a bundle adds to the trace of the program. *)
LineOf(bundle, k) == IF Writes(bundle, k) THEN <<bundle[k]>> ELSE <<>>
LinesOf(bundle) ==
  LineOf(bundle, 1) \o (IF 1 \in DOMAIN bundle /\ bundle[1] = "end" THEN <<>>
                        ELSE LineOf(bundle, 2))

OutputRegisters == {UART_TXD, VIRTUAL_UART}

-----------------------------------------------------------------------------
(* The first half of tick: eval_resp, eval, print_writeback, eval_req, and *)
(* con->sync up to the pop.                                                *)

(* Fault: the device loads in the cycles in which it pauses, too. *)
LoadingPaused == tx.busy /\ ~tx.is_write

(* eval_resp loads: only then, because a load may have an effect. *)
Loading == enable /\ tx.busy /\ ~tx.is_write

(* The design takes the answer to a load. *)
Answered == DeviceResp.ready /\ ~tx.is_write

(* Fault: of two registers written only the first is compared. *)
DumpFirst(d, k) ==
  IF Writes(wb, k) /\ (k = 2 => ~Writes(wb, 1))
  THEN TextDump(d, trace_enabled, wb[k]) ELSE d

(* print_writeback: a line for each register written, in program order. *)
Dump(d, k) == IF Writes(wb, k) THEN TextDump(d, trace_enabled, wb[k]) ELSE d

PrintWriteback == diff' = Dump(Dump(diff, 1), 2)

TickFront ==
  /\ phase = "tick" /\ ~test_finished /\ current_cycle <= MAX_CYCLE
  /\ PrintWriteback
  /\ SyncUart(IF Loading THEN LoadContext(tx.addr) ELSE ctx)
  /\ phase' = IF diff'.aborted THEN "abort" ELSE "sync"
  /\ received' = IF Answered /\ tx.addr = UART_RXD /\ ctx.uart_avail
                 THEN Append(received, LoadValue(UART_RXD)) ELSE received
  /\ promised' = IF ~Answered THEN promised
                 ELSE CASE tx.addr = UART_LSR -> ctx.uart_avail
                        [] tx.addr = UART_RXD -> FALSE
                        [] OTHER -> promised
  /\ cr0' = IF Answered /\ tx.addr = CR0
            THEN [cr0 EXCEPT ![2] = LoadValue(CR0)] ELSE cr0
  /\ UNCHANGED <<devVars, ctx0, mem, changes, current_cycle, test_finished,
                 current_num, creq, wb, typed, retired, accessed, stored, shown>>

-----------------------------------------------------------------------------
(* The second half: the rest of con->sync, dev->sync, the clock edge, and  *)
(* checkout_confreg.                                                       *)

Storing == enable /\ tx.busy /\ tx.is_write

(* Fault: the store of the cycle comes before con->sync. *)
DevSyncFirst ==
  /\ ctx0' = IF Storing THEN StoreContext(ctx, tx.addr, creq.data) ELSE ctx
  /\ ctx' = SyncContext
  /\ changes' = IF Storing THEN StoreChanges(tx.addr, creq.data) ELSE <<>>
  /\ mem' = Committed
  /\ UNCHANGED <<ififo, opty>>

(* con->sync, then the store of dev->sync. *)
ConfregClock ==
  /\ ctx0' = ctx
  /\ ctx' = IF Storing THEN StoreContext(SyncContext, tx.addr, creq.data)
            ELSE SyncContext
  /\ changes' = IF Storing THEN StoreChanges(tx.addr, creq.data) ELSE <<>>
  /\ mem' = Committed
  /\ UNCHANGED <<ififo, opty>>

(* The check for TEST_END_PC + 4 in either slot. *)
EndsRun(bundle) == \E k \in DOMAIN bundle : bundle[k] = "end"

(* The design at the clock edge (external). *)
DesignClock ==
  /\ IF creq.valid
     THEN /\ creq' = IF DeviceResp.last THEN NoReq ELSE creq
          /\ UNCHANGED accessed
     ELSE \/ UNCHANGED <<creq, accessed>>
          \/ /\ accessed < MaxAccesses
             /\ \E a \in Accesses : creq' = Request(a)
             /\ accessed' = accessed + 1
  /\ wb' \in Bundles
  /\ retired' = retired \o LinesOf(wb')
  /\ ~EndsRun(wb') => Len(retired') <= MaxRetired

(* checkout_confreg and the end of tick. *)
Checkout ==
  /\ shown' = IF has_char' THEN Append(shown, get_char') ELSE shown
  /\ current_num' = IF ctx0'.v_num_monitor THEN get_current_num' ELSE current_num
  /\ test_finished' = (EndsRun(wb') \/ (has_char' /\ get_char' = 255))

TickBack ==
  /\ phase = "sync"
  /\ ConfregClock
  /\ DeviceClock(creq, creq.addr)
  /\ DesignClock
  /\ Checkout
  /\ phase' = "tick"
  /\ current_cycle' = current_cycle + 1
  /\ stored' = IF Storing /\ tx.addr \in OutputRegisters
               THEN [stored EXCEPT ![tx.addr] = Append(@, creq.data % 256)]
               ELSE stored
  /\ cr0' = IF Storing /\ tx.addr = CR0
            THEN [cr0 EXCEPT ![1] = creq.data] ELSE cr0
  /\ UNCHANGED <<diff, typed, received, promised>>

(* The end of run(): the cycle limit, then diff_eof. *)
RunEnds ==
  /\ phase = "tick"
  /\ test_finished \/ current_cycle > MAX_CYCLE
  /\ IF current_cycle > MAX_CYCLE
     THEN phase' = "abort" /\ UNCHANGED diff
     ELSE /\ diff' = CheckEof(diff)
          /\ phase' = IF diff'.aborted THEN "abort" ELSE "exit"
  /\ UNCHANGED <<devVars, conVars, current_cycle, test_finished, current_num,
                 creq, wb, typed, history>>

(* The background thread. *)
UartThread ==
  /\ phase \in {"tick", "sync"}
  /\ typed < Len(Terminal)
  /\ Receive(Terminal[typed + 1])
  /\ typed' = typed + 1
  /\ UNCHANGED <<devVars, diff, benchVars, creq, wb, history>>

-----------------------------------------------------------------------------

Init ==
  /\ DeviceInit /\ ConfregReset /\ DiffInit
  /\ phase = "tick" /\ current_cycle = 1 /\ test_finished = FALSE
  /\ current_num = 0
  /\ creq = NoReq /\ wb = <<>> /\ typed = 0
  /\ retired = <<>> /\ accessed = 0
  /\ received = <<>> /\ shown = <<>>
  /\ stored = [r \in OutputRegisters |-> <<>>]
  /\ promised = FALSE /\ cr0 = <<0, 0>>

Next == TickFront \/ TickBack \/ RunEnds \/ UartThread

Spec == Init /\ [][Next]_vars
-----------------------------------------------------------------------------

(* Every variable holds a value of its type. *)
TypeOK ==
  /\ phase \in {"tick", "sync", "exit", "abort"}
  /\ current_cycle \in 1..(MAX_CYCLE + 1) /\ test_finished \in BOOLEAN
  /\ current_num \in Nat
  /\ enable \in BOOLEAN /\ tx.N \in 0..1 /\ tx.busy \in BOOLEAN
  /\ ctx.uart_data \in 0..255 /\ ctx.vuart_data \in 0..255
  /\ Len(changes) <= 1
  /\ mem[OPEN_TRACE] \in {0, 1} /\ mem[NUM_MONITOR] \in {0, 1}
  /\ diff.line_number \in Nat /\ diff.error_count \in Nat
  /\ diff.aborted \in BOOLEAN
  /\ typed \in 0..Len(Terminal)

(* The UART hands every typed character to the design once and in order,   *)
(* although load takes the front without the lock and sync pops it later   *)
(* (confreg.cpp:97-103,185-191).  In particular sync never pops an empty   *)
(* queue, as its assertion says, and a character that LSR announced is     *)
(* there when the design comes to read RXD.  All variables hold values of  *)
(* their types.                                                            *)
UartInOrder ==
  /\ TypeOK
  /\ received \o ififo = SubSeq(Terminal, 1, typed)
  /\ ctx.uart_avail /\ phase = "tick" => ififo # <<>>
  /\ promised /\ phase = "tick" => ctx.uart_avail

(* Each character stored to VIRTUAL_UART is seen by checkout_confreg once  *)
(* and in order, each one stored to the UART goes to the terminal once; at *)
(* most the last one is still on its way (confreg.cpp:104-116).            *)
OutputOnce ==
  phase = "tick" =>
    /\ stored[VIRTUAL_UART] =
         shown \o (IF ctx.vuart_written THEN <<ctx.vuart_data>> ELSE <<>>)
    /\ stored[UART_TXD] =
         opty \o (IF ctx.uart_written THEN <<ctx.uart_data>> ELSE <<>>)

(* A register keeps the order of the program: a load returns the value of  *)
(* the store before it, although stores are committed a cycle late.        *)
ReadsSeeWrites ==
  [][TickFront /\ Answered /\ tx.addr = CR0 => cr0'[2] = cr0[1]]_vars

(* The reference trace, and what the program wrote beside its end.         *)
Reference == [k \in 1..RefLength |-> "right"]
BesideEnd == IF EndsRun(wb) THEN LinesOf(wb) ELSE <<>>

(* A run that ends at TEST_END_PC + 4 is judged by all that the program    *)
(* wrote before the bundle it ends in, and by nothing else (mycpu.cpp:111, *)
(* 127-132,161): if it exits without a counted error, that was the         *)
(* reference, line by line, and if it is aborted, it was not.  A write     *)
(* beside the end is never compared, so a wrong one passes, and where the  *)
(* reference has a line for it the run is aborted.                         *)
Verdict ==
  /\ phase = "exit" /\ diff.error_count = 0 /\ EndsRun(wb) =>
       retired = Reference \o BesideEnd
  /\ phase = "abort" /\ EndsRun(wb) /\ current_cycle <= MAX_CYCLE =>
       retired # Reference \o BesideEnd

(* A program that writes what the reference trace says, up to the last     *)
(* line at TEST_END_PC (func_test.txt:93785), is not aborted at its end    *)
(* (mycpu.cpp:127): it does not hold.                                      *)
RightRunPasses ==
  phase = "abort" /\ EndsRun(wb) /\ current_cycle <= MAX_CYCLE =>
    retired # Reference
=============================================================================
