---------------------------- MODULE InOrderIssue ----------------------------
(***************************************************************************)
(* What the issue stage promises to the rest of the pipeline: instructions *)
(* of the current instruction stream reach the execute register one after  *)
(* the other in program order, at most two in a cycle, none skipped and    *)
(* none twice; a flush starts a new stream.  Instructions are named by     *)
(* their position in the stream.                                           *)
(***************************************************************************)
EXTENDS Naturals, Sequences

VARIABLES fetched, issued, ex

aVars == <<fetched, issued, ex>>

(* The next n instructions after the first k. *)
Following(k, n) == [j \in 1..n |-> k + j - 1]

AInit == fetched = 0 /\ issued = 0 /\ ex = <<>>

AFlush == fetched' = 0 /\ issued' = 0 /\ ex' = <<>>

AAdvance ==
  /\ \E m \in 0..2 : fetched' = fetched + m
  /\ \E n \in 0..2 :
       /\ issued + n <= fetched
       /\ issued' = issued + n
       /\ ex' = Following(issued, n)

AHold ==
  /\ \E m \in 0..2 : fetched' = fetched + m
  /\ UNCHANGED <<issued, ex>>

ANext == AFlush \/ AAdvance \/ AHold

ASpec == AInit /\ [][ANext]_aVars
=============================================================================
