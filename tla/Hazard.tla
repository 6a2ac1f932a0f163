------------------------------- MODULE Hazard -------------------------------
(***************************************************************************)
(* The pipeline control of source/mycpu/hazard.sv.  `in' is the set of     *)
(* condition inputs that are high in the cycle, drawn from Conditions      *)
(* ("d_wait" also stands for waitM, which the code ORs with it); the       *)
(* result is the set of stall and flush outputs that are high.             *)
(***************************************************************************)

Conditions == {"excpW", "d_wait", "excpM", "branchM", "e_wait", "overflowI",
               "i_wait"}

FrontFlush == {"flushF2", "flushD", "flushI", "flushE", "flushM", "flush_que"}

(* A redirect that meets a fetch in progress keeps the fetch stage still. *)
HoldFetch(in) == IF "i_wait" \in in THEN {"stallF"} ELSE {}

Redirects(in) ==
  \/ "excpW" \in in
  \/ "d_wait" \notin in /\ in \intersect {"excpM", "branchM"} # {}

(* The priority chain, before the wrong fetch of an earlier redirect is    *)
(* taken into account.                                                     *)
Chain(in) ==
  CASE "excpW" \in in ->
         FrontFlush \union {"flushM3", "flushM2", "flushW"} \union HoldFetch(in)
    [] "excpW" \notin in /\ "d_wait" \in in ->
         {"stallF", "stallF2", "stallD", "stallI", "stallI_de", "stallE",
          "stallM", "stallM2", "flushM3"}
    [] Redirects(in) /\ "excpW" \notin in ->
         FrontFlush \union HoldFetch(in)
    [] ~Redirects(in) /\ "d_wait" \notin in /\ "e_wait" \in in ->
         {"stallF", "stallF2", "stallD", "stallI", "stallI_de", "stallE",
          "flushM"}
    [] ~Redirects(in) /\ in \intersect {"d_wait", "e_wait"} = {}
         /\ "overflowI" \in in ->
         {"stallF", "stallF2", "stallI", "stallD"}
    [] in = {"i_wait"} -> {"stallF", "flushF2"}
    [] OTHER -> {}

(* `fihazrd' remembers that the fetch now on its way was overtaken by a    *)
(* redirect; it is thrown away when the fetch stage moves again.           *)
Signals(in, fihazrd) ==
  Chain(in) \union (IF fihazrd /\ "stallF" \notin Chain(in)
                    THEN {"flushF2"} ELSE {})

(* Fault: it is not cleared when the wrong fetch has been thrown away. *)
FihazrdNextStuck(in, fihazrd) == fihazrd \/ (Redirects(in) /\ "i_wait" \in in)

FihazrdNext(in, fihazrd) ==
  IF "stallF" \notin Chain(in) THEN FALSE
  ELSE fihazrd \/ (Redirects(in) /\ "i_wait" \in in)
=============================================================================
