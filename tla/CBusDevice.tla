----------------------------- MODULE CBusDevice -----------------------------
(***************************************************************************)
(* The memory of the Verilator simulation: class CBusDevice                *)
(* (verilate/source/cbus_device.cpp) with its AXITransaction               *)
(* (verilate/include/axi.h).  In a simulated cycle the test bench calls    *)
(* eval_resp, lets the model settle, and calls eval_req and sync, so that  *)
(* the whole of it is one step; `ntx' equals `tx' between two steps.       *)
(*                                                                         *)
(* Addresses are byte addresses; every burst moves words of WordBytes.     *)
(* `enable' is FALSE in the cycles in which the device pauses at random    *)
(* (p_disable).                                                            *)
(***************************************************************************)
EXTENDS Naturals

VARIABLES
  tx,       \* the transaction in progress
  enable

devVars == <<tx, enable>>

WordBytes == 4                 \* Number_Bytes of MSIZE4

NoTx == [busy |-> FALSE, is_write |-> FALSE, aligned |-> FALSE, N |-> 0,
         addr |-> 0, Start_Address |-> 0, Burst_Length |-> 0]

(* AXITransaction::init, with busy and is_write as eval_req sets them. *)
TxInit(address, len, is_write) ==
  [busy |-> TRUE, is_write |-> is_write, aligned |-> FALSE, N |-> 1,
   addr |-> address, Start_Address |-> address, Burst_Length |-> len + 1]

Aligned_Address(t) == (t.Start_Address \div WordBytes) * WordBytes
Dtsize(t)          == WordBytes * t.Burst_Length
Lower_Wrap_Boundry(t) == (t.Start_Address \div Dtsize(t)) * Dtsize(t)
Upper_Wrap_Boundry(t) == Lower_Wrap_Boundry(t) + Dtsize(t)

(* Fault: the burst does not advance after its second beat. *)
TxSyncFromStart(t) ==
  [t EXCEPT !.N = t.N + 1, !.aligned = TRUE,
            !.addr = Aligned_Address(t) + WordBytes]

(* AXITransaction::sync: the address of the next beat. *)
TxSync(t) ==
  LET next == IF t.aligned THEN t.addr + WordBytes
              ELSE Aligned_Address(t) + WordBytes
  IN  [t EXCEPT !.N = t.N + 1,
                !.aligned = TRUE,
                !.addr = IF next >= Upper_Wrap_Boundry(t)
                         THEN Lower_Wrap_Boundry(t) ELSE next]

TxLast(t) == t.N = t.Burst_Length

(* eval_resp: no path from the request of this cycle to the response. *)
DeviceResp ==
  IF enable /\ tx.busy THEN [ready |-> TRUE, last |-> TxLast(tx)]
  ELSE [ready |-> FALSE, last |-> FALSE]

(* The sanity checks of eval_req, `address' being req.addr(). *)
DeviceAsserts(req, address) ==
  enable /\ tx.busy =>
    /\ req.valid
    /\ req.is_write = tx.is_write
    /\ address = tx.Start_Address
    /\ req.len + 1 = tx.Burst_Length

DeviceInit == tx = NoTx /\ enable = TRUE

(* eval_req and sync. *)
DeviceClock(req, address) ==
  /\ tx' = IF ~enable THEN tx
           ELSE IF tx.busy THEN IF TxLast(tx) THEN NoTx ELSE TxSync(tx)
           ELSE IF req.valid THEN TxInit(address, req.len, req.is_write)
           ELSE tx
  /\ enable' \in BOOLEAN
=============================================================================
