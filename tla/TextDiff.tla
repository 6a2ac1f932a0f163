------------------------------ MODULE TextDiff ------------------------------
(***************************************************************************)
(* The comparison of the retired instructions with a reference trace:      *)
(* class TextDiff (verilate/source/diff.cpp) behind ModelBase::text_dump   *)
(* and diff_eof (model.cpp).  A line of the design is "right" or "wrong"   *)
(* against the reference line at the same position; the reference has      *)
(* RefLength lines, and behind them get_line returns the empty line.       *)
(***************************************************************************)
EXTENDS Naturals, Sequences

CONSTANTS
  RefLength,    \* lines of the reference trace that are not empty
  ForceDiff     \* --force-diff

ASSUME RefAssumption == RefLength \in Nat /\ ForceDiff \in BOOLEAN

VARIABLE diff   \* line_number, error_count, and whether it aborted the run

DiffInit == diff = [line_number |-> 0, error_count |-> 0, aborted |-> FALSE]

(* The line check_eof compares with. *)
Empty == "empty"

Same(d, line) ==
  IF d.line_number < RefLength THEN line = "right" ELSE line = Empty

(* check_line: a reference line is read whatever the verdict; a difference *)
(* is counted, and ends the simulation if it is to be reported.            *)
CheckLine(d, line, report) ==
  IF d.aborted THEN d
  ELSE [line_number |-> d.line_number + 1,
        error_count |-> IF Same(d, line) THEN d.error_count ELSE d.error_count + 1,
        aborted     |-> ~Same(d, line) /\ report]

(* text_dump, `enable' being Confreg::trace_enabled. *)
TextDump(d, enable, line) == CheckLine(d, line, ForceDiff \/ enable)

CheckEof(d) == CheckLine(d, Empty, TRUE)
=============================================================================
