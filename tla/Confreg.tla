------------------------------ MODULE Confreg -------------------------------
(***************************************************************************)
(* The simulated configuration registers and UART of the test bench: class *)
(* Confreg (verilate/source/confreg.cpp).  The design's loads and stores   *)
(* come through CBusDevice; `sync' is called once a cycle, before the      *)
(* store of that cycle; a background thread reads the terminal into        *)
(* `ififo' under a lock that loads, and the emptiness test of sync, do not *)
(* take.                                                                   *)
(*                                                                         *)
(* `ctx' collects what the design did, `ctx0' is what the test bench sees. *)
(* Characters and data are numbers.  An unknown address is not in mem: it  *)
(* reads 0, and a store to it is dropped when it is committed.             *)
(***************************************************************************)
EXTENDS Sequences, FiniteSetsExt

VARIABLES
  ctx, ctx0,
  ififo,      \* uart.ififo
  mem,        \* the registers
  changes,    \* stores not committed yet
  opty        \* the characters written to the terminal

conVars == <<ctx, ctx0, ififo, mem, changes, opty>>

(* Layout: offsets in the device's 64 KiB.  CR0 stands for the registers   *)
(* that only keep what is stored.                                          *)
UART_RXD     == 4096           \* 0x1000, read
UART_TXD     == 4096           \* 0x1000, written
UART_LSR     == 4116           \* 0x1014
CR0          == 32768          \* 0x8000
NUM          == 61456          \* 0xf010
IO_SIMU      == 65516          \* 0xffec
VIRTUAL_UART == 65520          \* 0xfff0
SIMU_FLAG    == 65524          \* 0xfff4
OPEN_TRACE   == 65528          \* 0xfff8
NUM_MONITOR  == 65532          \* 0xfffc

Registers == {CR0, NUM, IO_SIMU, VIRTUAL_UART, SIMU_FLAG, OPEN_TRACE,
              NUM_MONITOR}

ADDR_MASK == 65535             \* 0xffff
Ones == -1                     \* 0xffffffff

ContextReset ==
  [uart_avail |-> FALSE, uart_written |-> FALSE, uart_fetched |-> FALSE,
   uart_data |-> 0, vuart_written |-> FALSE, vuart_data |-> 0,
   v_open_trace |-> TRUE, v_num_monitor |-> TRUE, v_num |-> 0]

ConfregReset ==
  /\ ctx = ContextReset /\ ctx0 = ContextReset
  /\ ififo = <<>> /\ changes = <<>> /\ opty = <<>>
  /\ mem = [r \in Registers |->
              CASE r = SIMU_FLAG -> Ones
                [] r \in {OPEN_TRACE, NUM_MONITOR} -> 1
                [] OTHER -> 0]

-----------------------------------------------------------------------------

(* load: the value, and what it does to the context. *)
LoadValue(addr) ==
  CASE addr = UART_LSR -> IF ctx.uart_avail THEN 1 ELSE 0
    [] addr = UART_RXD -> IF ctx.uart_avail THEN Head(ififo) ELSE 0
    [] addr \in Registers -> mem[addr]
    [] OTHER -> 0

(* Fault: reading the status takes the character, too. *)
LoadContextLsr(addr) ==
  [ctx EXCEPT !.uart_fetched =
     @ \/ (addr \in {UART_RXD, UART_LSR} /\ ctx.uart_avail)]

LoadContext(addr) ==
  [ctx EXCEPT !.uart_fetched = @ \/ (addr = UART_RXD /\ ctx.uart_avail)]

swap_bytes(data) == (data % 65536) * 65536 + (data \div 65536)

(* The value a register keeps of a store. *)
Kept(addr, data) ==
  CASE addr = VIRTUAL_UART -> data % 256
    [] addr = SIMU_FLAG -> Ones
    [] addr = IO_SIMU -> swap_bytes(data)
    [] addr = OPEN_TRACE -> IF data = 0 THEN 0 ELSE 1
    [] addr = NUM_MONITOR -> data % 2
    [] OTHER -> data

(* store, on the context c. *)
StoreContext(c, addr, data) ==
  LET kept == Kept(addr, data) IN
  CASE addr = UART_TXD ->
         [c EXCEPT !.uart_written = TRUE, !.uart_data = data % 256]
    [] addr = VIRTUAL_UART ->
         [c EXCEPT !.vuart_written = TRUE, !.vuart_data = kept]
    [] addr = NUM -> [c EXCEPT !.v_num = kept]
    [] addr = OPEN_TRACE -> [c EXCEPT !.v_open_trace = kept # 0]
    [] addr = NUM_MONITOR -> [c EXCEPT !.v_num_monitor = kept # 0]
    [] OTHER -> c

StoreChanges(addr, data) ==
  IF addr = UART_TXD THEN <<>> ELSE <<<<addr, Kept(addr, data)>>>>

(* sync up to the pop of ififo, on the context c of this cycle's load. *)
SyncUart(c) ==
  /\ ififo' = IF c.uart_fetched THEN Tail(ififo) ELSE ififo
  /\ opty' = IF c.uart_written THEN Append(opty, c.uart_data) ELSE opty
  /\ ctx' = c

(* The rest of sync: the context of the next cycle ... *)
SyncContext ==
  [ctx EXCEPT !.uart_avail = ififo # <<>>,
              !.uart_written = FALSE,
              !.uart_fetched = FALSE,
              !.vuart_written = FALSE]

(* Fault: the stores are cleared and not committed. *)
CommittedNever == mem

(* ... and the commit of the stores, in their order. *)
Committed ==
  [r \in Registers |->
     LET mine == {k \in DOMAIN changes : changes[k][1] = r}
     IN  IF mine = {} THEN mem[r] ELSE changes[Max(mine)][2]]

(* The background thread has read a character. *)
Receive(c) ==
  /\ ififo' = Append(ififo, c)
  /\ UNCHANGED <<ctx, ctx0, mem, changes, opty>>

(* What the test bench sees. *)
trace_enabled == ctx0.v_open_trace
has_char      == ctx0.vuart_written
get_char      == ctx0.vuart_data
get_current_num == ctx0.v_num \div 2^24
=============================================================================
