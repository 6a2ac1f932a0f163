-------------------------- MODULE IssueQueue_proofs --------------------------
(***************************************************************************)
(* Proofs about the issue stage, for banks of any size greater than two,   *)
(* any set of decoded instructions and any combination of hazard inputs.   *)
(***************************************************************************)
EXTENDS IssueQueue, SequenceTheorems, TLAPS

-----------------------------------------------------------------------------
(* The inductive invariant.                                                *)

(* A bank holds every second instruction, from `first' on at its head. *)
BankHolds(q, head, tail, first) ==
  \A k \in Index : Occupied(head, k) < Occupied(head, tail) =>
    q[k] \in Instr /\ q[k].serial = first + 2 * Occupied(head, k)

HeadsEqual == head_odd = head_even
TailsEqual == tail_odd = tail_even

FirstOdd  == IF HeadsEqual THEN popped ELSE popped + 1
FirstEven == IF HeadsEqual THEN popped + 1 ELSE popped

(* The banks take turns: the odd bank is ahead by one entry or not at all, *)
(* at either end.                                                          *)
TakeTurns ==
  /\ HeadsEqual \/ head_odd = Pop(head_even)
  /\ TailsEqual \/ tail_odd = Push(tail_even)
  /\ Occupied(head_odd, tail_odd) + (IF HeadsEqual THEN 0 ELSE 1)
       = Occupied(head_even, tail_even) + (IF TailsEqual THEN 0 ELSE 1)

BanksHold ==
  /\ BankHolds(queue_odd, head_odd, tail_odd, FirstOdd)
  /\ BankHolds(queue_even, head_even, tail_even, FirstEven)

(* What waits in DIreg comes right after what has been pushed. *)
DataDNext ==
  /\ Len(dataD) <= nfetch
  /\ \A k \in 1..Len(dataD) : dataD[k].serial = Pushed + k - 1

IInv == TypeOK /\ TakeTurns /\ CountsAgree /\ BanksHold /\ DataDNext

-----------------------------------------------------------------------------
(* The circular pointers.                                                  *)

(* Occupied is a distance: it lies in Index, and is zero only for equal    *)
(* pointers.                                                               *)
LEMMA OccupiedType ==
  ASSUME NEW head \in Index, NEW tail \in Index
  PROVE  /\ Occupied(head, tail) \in Index
         /\ Occupied(head, tail) \in Nat
         /\ Occupied(head, tail) = 0 <=> head = tail
  BY SizeAssumption DEF Occupied, Index

(* Moving a tail of a bank that is not full adds exactly the old tail      *)
(* entry to the occupied ones.                                             *)
LEMMA PushAdds ==
  ASSUME NEW head \in Index, NEW tail \in Index, Push(tail) # head
  PROVE  /\ Push(tail) \in Index
         /\ Occupied(head, Push(tail)) = Occupied(head, tail) + 1
         /\ \A k \in Index : Occupied(head, k) < Occupied(head, Push(tail)) =>
              k = tail \/ Occupied(head, k) < Occupied(head, tail)
  BY SizeAssumption DEF Occupied, Index, Push

(* Moving a head of a bank that is not empty takes exactly the head entry  *)
(* away, and brings every other entry one step nearer.                     *)
LEMMA PopRemoves ==
  ASSUME NEW head \in Index, NEW tail \in Index, head # tail
  PROVE  /\ Pop(head) \in Index
         /\ Occupied(Pop(head), tail) = Occupied(head, tail) - 1
         /\ \A k \in Index :
              Occupied(Pop(head), k) < Occupied(Pop(head), tail) =>
                /\ Occupied(head, k) = Occupied(Pop(head), k) + 1
                /\ Occupied(head, k) < Occupied(head, tail)
  BY SizeAssumption DEF Occupied, Index, Pop

(* A bank keeps its order when the next instruction of its turn is pushed. *)
LEMMA BankPush ==
  ASSUME NEW q \in [Index -> Instr \union {NoInstr}], NEW x \in Instr,
         NEW head \in Index, NEW tail \in Index, NEW first \in Nat,
         Push(tail) # head,
         BankHolds(q, head, tail, first),
         x.serial = first + 2 * Occupied(head, tail)
  PROVE  BankHolds([q EXCEPT ![tail] = x], head, Push(tail), first)
<1> SUFFICES ASSUME NEW k \in Index,
                    Occupied(head, k) < Occupied(head, Push(tail))
             PROVE  /\ [q EXCEPT ![tail] = x][k] \in Instr
                    /\ [q EXCEPT ![tail] = x][k].serial
                         = first + 2 * Occupied(head, k)
    BY DEF BankHolds
<1>1. CASE k = tail
    BY <1>1
<1>2. CASE k # tail
    <2>1. Occupied(head, k) < Occupied(head, tail)
        BY <1>2, PushAdds
    <2>2. [q EXCEPT ![tail] = x][k] = q[k]
        BY <1>2
    <2> QED BY <2>1, <2>2 DEF BankHolds
<1> QED BY <1>1, <1>2

(* A bank keeps its order when its head is popped. *)
LEMMA BankPop ==
  ASSUME NEW q \in [Index -> Instr \union {NoInstr}],
         NEW head \in Index, NEW tail \in Index, NEW first \in Nat,
         head # tail,
         BankHolds(q, head, tail, first)
  PROVE  BankHolds(q, Pop(head), tail, first + 2)
<1> SUFFICES ASSUME NEW k \in Index,
                    Occupied(Pop(head), k) < Occupied(Pop(head), tail)
             PROVE  /\ q[k] \in Instr
                    /\ q[k].serial = (first + 2) + 2 * Occupied(Pop(head), k)
    BY DEF BankHolds
<1>1. /\ Occupied(head, k) = Occupied(Pop(head), k) + 1
      /\ Occupied(head, k) < Occupied(head, tail)
      /\ Pop(head) \in Index
    BY PopRemoves
<1>2. q[k] \in Instr /\ q[k].serial = first + 2 * Occupied(head, k)
    BY <1>1 DEF BankHolds
<1>3. Occupied(Pop(head), k) \in Nat
    BY <1>1, OccupiedType DEF Index
<1> QED BY <1>1, <1>2, <1>3

(* An empty bank holds its order, whatever is in its memory. *)
LEMMA BankEmpty ==
  ASSUME NEW q, NEW first, NEW head \in Index
  PROVE  BankHolds(q, head, head, first)
  BY OccupiedType, SizeAssumption DEF BankHolds, Index

(* A bank of the right type that keeps its order. *)
BankInv(q, head, tail, first) ==
  /\ q \in [Index -> Instr \union {NoInstr}]
  /\ head \in Index /\ tail \in Index /\ first \in Nat
  /\ BankHolds(q, head, tail, first)

(* One cycle of a bank: an optional push of x and an optional pop.  Only   *)
(* the next instruction of its turn is pushed, and only into a bank that   *)
(* is not full; only a bank that is not empty is popped.                   *)
BankMoves(q, head, tail, first, x, pushes, pops, q2, head2, tail2, first2) ==
  /\ pushes => /\ Push(tail) # head
               /\ x \in Instr
               /\ x.serial = first + 2 * Occupied(head, tail)
  /\ pops => head # tail
  /\ q2 = IF pushes THEN [q EXCEPT ![tail] = x] ELSE q
  /\ tail2 = IF pushes THEN Push(tail) ELSE tail
  /\ head2 = IF pops THEN Pop(head) ELSE head
  /\ first2 = first + (IF pops THEN 2 ELSE 0)

(* A bank keeps its order in every such cycle, and its occupancy counts    *)
(* the pushes and pops.                                                    *)
LEMMA BankStep ==
  ASSUME NEW q, NEW head, NEW tail, NEW first, NEW x,
         NEW pushes \in BOOLEAN, NEW pops \in BOOLEAN,
         NEW q2, NEW head2, NEW tail2, NEW first2,
         BankInv(q, head, tail, first),
         BankMoves(q, head, tail, first, x, pushes, pops,
                   q2, head2, tail2, first2)
  PROVE  /\ BankInv(q2, head2, tail2, first2)
         /\ Occupied(head2, tail2) = Occupied(head, tail)
              + (IF pushes THEN 1 ELSE 0) - (IF pops THEN 1 ELSE 0)
<1> USE DEF BankInv, BankMoves
<1>0. Occupied(head, tail) \in Nat
    BY OccupiedType
<1>1. /\ q2 \in [Index -> Instr \union {NoInstr}]
      /\ tail2 \in Index
      /\ Occupied(head, tail2) = Occupied(head, tail) + (IF pushes THEN 1 ELSE 0)
      /\ BankHolds(q2, head, tail2, first)
    <2>1. CASE pushes
        <3>1. q2 = [q EXCEPT ![tail] = x] /\ tail2 = Push(tail)
            BY <2>1
        <3>2. q2 \in [Index -> Instr \union {NoInstr}]
            BY <2>1, <3>1
        <3>3. tail2 \in Index /\ Occupied(head, tail2) = Occupied(head, tail) + 1
            BY <2>1, <3>1, PushAdds
        <3>4. BankHolds(q2, head, tail2, first)
            <4>1. BankHolds([q EXCEPT ![tail] = x], head, Push(tail), first)
                BY <2>1, BankPush, Zenon
            <4> QED BY <3>1, <4>1, Zenon
        <3> QED BY <2>1, <3>2, <3>3, <3>4
    <2>2. CASE ~pushes
        BY <2>2, <1>0
    <2> QED BY <2>1, <2>2
<1>2. CASE pops
    <2>1. head # tail2
        BY <1>0, <1>1, <1>2, OccupiedType
    <2>2. /\ head2 = Pop(head) /\ head2 \in Index
          /\ Occupied(head2, tail2) = Occupied(head, tail2) - 1
        BY <1>1, <1>2, <2>1, PopRemoves
    <2>3. BankHolds(q2, head2, tail2, first + 2)
        <3>1. BankHolds(q2, Pop(head), tail2, first + 2)
            BY <1>1, <2>1, BankPop, Zenon
        <3> QED BY <2>2, <3>1, Zenon
    <2> QED BY <1>0, <1>1, <1>2, <2>2, <2>3
<1>3. CASE ~pops
    BY <1>0, <1>1, <1>3
<1> QED BY <1>2, <1>3

-----------------------------------------------------------------------------
(* What the hazard unit promises to the issue stage.                       *)

(* A full queue is never pushed to unless it is being flushed; the queue   *)
(* and DIreg and IXreg are flushed together; and the queue pops exactly    *)
(* when IXreg loads.                                                       *)
LEMMA ControlFacts ==
  ASSUME NEW hz \in HazardInputs, NEW STATE s, s = Control(hz)
  PROVE  /\ Overflow /\ "flush_que" \notin s => "stallI" \in s
         /\ "flush_que" \in s <=> "flushI" \in s
         /\ "flush_que" \in s <=> "flushE" \in s
         /\ "flush_que" \notin s => (Draining(s) <=> "stallE" \notin s)
<1> DEFINE in == hz \union (IF Overflow THEN {"overflowI"} ELSE {})
<1>0. s = Chain(in) /\ "overflowI" \notin hz
    BY HazardInputsAssumption DEF Control
<1>1. CASE "excpW" \in in
    <2>1. s = FrontFlush \union {"flushM3", "flushM2", "flushW"} \union HoldFetch(in)
        BY <1>0, <1>1 DEF Chain, Redirects
    <2> QED BY <2>1 DEF FrontFlush, HoldFetch
<1>2. CASE "excpW" \notin in /\ "d_wait" \in in
    <2>1. s = {"stallF", "stallF2", "stallD", "stallI", "stallI_de", "stallE",
               "stallM", "stallM2", "flushM3"}
        BY <1>0, <1>2 DEF Chain, Redirects
    <2> QED BY <2>1 DEF Draining
<1>3. CASE "excpW" \notin in /\ "d_wait" \notin in /\ Redirects(in)
    <2>1. s = FrontFlush \union HoldFetch(in)
        BY <1>0, <1>3 DEF Chain, Redirects
    <2> QED BY <2>1 DEF FrontFlush, HoldFetch
<1>4. CASE ~Redirects(in) /\ "d_wait" \notin in /\ "e_wait" \in in
    <2>1. s = {"stallF", "stallF2", "stallD", "stallI", "stallI_de", "stallE",
               "flushM"}
        BY <1>0, <1>4 DEF Chain, Redirects
    <2> QED BY <2>1 DEF Draining
<1>5. CASE /\ ~Redirects(in) /\ "d_wait" \notin in /\ "e_wait" \notin in
           /\ "overflowI" \in in
    <2>1. s = {"stallF", "stallF2", "stallI", "stallD"}
        BY <1>0, <1>5 DEF Chain, Redirects
    <2>2. Overflow
        BY <1>0, <1>5
    <2> QED BY <2>1, <2>2 DEF Draining
<1>6. CASE /\ ~Redirects(in) /\ "d_wait" \notin in /\ "e_wait" \notin in
           /\ "overflowI" \notin in
    <2>1. s = {"stallF", "flushF2"} \/ s = {}
        BY <1>0, <1>6 DEF Chain, Redirects
    <2>2. ~Overflow
        BY <1>6
    <2> QED BY <2>1, <2>2 DEF Draining
<1>7. "excpW" \in in => Redirects(in)
    BY DEF Redirects
<1> QED BY <1>1, <1>2, <1>3, <1>4, <1>5, <1>6, <1>7

(* The candidates, in terms of the invariant. *)
LEMMA Candidates ==
  ASSUME IInv
  PROVE  /\ Valid(Candidate1) <=> popped < Pushed
         /\ Valid(Candidate2) <=> popped + 1 < Pushed
         /\ Valid(Candidate1) =>
              Candidate1 \in Instr /\ Candidate1.serial = popped
         /\ Valid(Candidate2) =>
              Candidate2 \in Instr /\ Candidate2.serial = popped + 1
<1> DEFINE OO == Occupied(head_odd, tail_odd)
           OE == Occupied(head_even, tail_even)
<1>1. /\ OO \in Nat /\ OE \in Nat /\ popped \in Nat /\ Pushed \in Int
      /\ OO = 0 <=> head_odd = tail_odd
      /\ OE = 0 <=> head_even = tail_even
      /\ OO + OE = Pushed - popped
    BY OccupiedType, SizeAssumption
       DEF IInv, TypeOK, CountsAgree, Index, Pushed
<1>2. OO + (IF HeadsEqual THEN 0 ELSE 1) = OE + (IF TailsEqual THEN 0 ELSE 1)
    BY DEF IInv, TakeTurns
<1>3. head_odd # tail_odd =>
        /\ queue_odd[head_odd] \in Instr
        /\ queue_odd[head_odd].serial = FirstOdd
    <2>1. head_odd \in Index /\ Occupied(head_odd, head_odd) = 0
        BY OccupiedType DEF IInv, TypeOK
    <2>2. FirstOdd \in Nat
        BY <1>1 DEF FirstOdd
    <2> QED BY <1>1, <2>1, <2>2 DEF IInv, BanksHold, BankHolds
<1>4. head_even # tail_even =>
        /\ queue_even[head_even] \in Instr
        /\ queue_even[head_even].serial = FirstEven
    <2>1. head_even \in Index /\ Occupied(head_even, head_even) = 0
        BY OccupiedType DEF IInv, TypeOK
    <2>2. FirstEven \in Nat
        BY <1>1 DEF FirstEven
    <2> QED BY <1>1, <2>1, <2>2 DEF IInv, BanksHold, BankHolds
<1>5. \A x \in Instr : Valid(x)
    BY DEF Valid, Instr, NoInstr
<1>6. ~Valid(NoInstr)
    BY DEF Valid
<1>7. CASE HeadsEqual
    <2>1. OddFirst
        BY <1>7 DEF OddFirst, OddLarger, HeadsEqual
    <2>2. Candidate1 = HeadOdd /\ Candidate2 = HeadEven
        BY <2>1 DEF Candidate1, Candidate2
    <2>3. FirstOdd = popped /\ FirstEven = popped + 1
        BY <1>7 DEF FirstOdd, FirstEven
    <2>4. Valid(HeadOdd) <=> OO # 0
        BY <1>1, <1>3, <1>5, <1>6 DEF HeadOdd
    <2>5. Valid(HeadEven) <=> OE # 0
        BY <1>1, <1>4, <1>5, <1>6 DEF HeadEven
    <2>6. OO = OE \/ OO = OE + 1
        BY <1>1, <1>2, <1>7
    <2> HIDE DEF OO, OE
    <2>7. Valid(Candidate1) <=> popped < Pushed
        BY <2>2, <2>4, <2>6, <1>1
    <2>8. Valid(Candidate2) <=> popped + 1 < Pushed
        BY <2>2, <2>5, <2>6, <1>1
    <2> QED BY <2>2, <2>3, <2>4, <2>5, <2>7, <2>8, <1>1, <1>3, <1>4
            DEF HeadOdd, HeadEven
<1>8. CASE ~HeadsEqual
    <2>1. ~OddFirst
        BY <1>8 DEF OddFirst, OddLarger, HeadsEqual
    <2>2. Candidate1 = HeadEven /\ Candidate2 = HeadOdd
        BY <2>1 DEF Candidate1, Candidate2
    <2>3. FirstOdd = popped + 1 /\ FirstEven = popped
        BY <1>8 DEF FirstOdd, FirstEven
    <2>4. Valid(HeadOdd) <=> OO # 0
        BY <1>1, <1>3, <1>5, <1>6 DEF HeadOdd
    <2>5. Valid(HeadEven) <=> OE # 0
        BY <1>1, <1>4, <1>5, <1>6 DEF HeadEven
    <2>6. OE = OO \/ OE = OO + 1
        BY <1>1, <1>2, <1>8
    <2> HIDE DEF OO, OE
    <2>7. Valid(Candidate1) <=> popped < Pushed
        BY <2>2, <2>5, <2>6, <1>1
    <2>8. Valid(Candidate2) <=> popped + 1 < Pushed
        BY <2>2, <2>4, <2>6, <1>1
    <2> QED BY <2>2, <2>3, <2>4, <2>5, <2>7, <2>8, <1>1, <1>3, <1>4
            DEF HeadOdd, HeadEven
<1> QED BY <1>7, <1>8

(* Bundles leaving the decoder are short sequences of decoded              *)
(* instructions, numbered from nfetch on.                                  *)
LEMMA NumberedFacts ==
  ASSUME nfetch \in Nat, NEW ds \in Bundles
  PROVE  /\ Len(ds) \in 0..2
         /\ Numbered(ds) \in Seq(Instr)
         /\ Len(Numbered(ds)) = Len(ds)
         /\ \A k \in 1..Len(ds) : Numbered(ds)[k].serial = nfetch + k - 1
<1>1. ds \in Seq(Decoded) /\ Len(ds) \in 0..2
    <2>1. CASE ds = <<>>
        BY <2>1
    <2>2. CASE \E d \in Decoded : ds = <<d>>
        BY <2>2
    <2>3. CASE \E d \in Decoded, e \in Decoded : ds = <<d, e>>
        BY <2>3
    <2> QED BY <2>1, <2>2, <2>3 DEF Bundles
<1>2. \A k \in 1..Len(ds) : [serial |-> nfetch + k - 1, d |-> ds[k]] \in Instr
    BY <1>1 DEF Instr
<1>3. Numbered(ds) \in Seq(Instr) /\ Len(Numbered(ds)) = Len(ds)
    BY <1>1, <1>2 DEF Numbered
<1> QED BY <1>1, <1>3 DEF Numbered

(* How many instructions are issued. *)
Count(r1, r2) ==
  IF IssueEn2(r1, r2) THEN 2 ELSE IF IssueEn1(r1, r2) THEN 1 ELSE 0

(* The bundle issued consists of the oldest instructions in the queue.     *)
LEMMA IssuedFacts ==
  ASSUME IInv, NEW r1 \in BOOLEAN, NEW r2 \in BOOLEAN
  PROVE  /\ Issued(r1, r2) \in Seq(Instr)
         /\ Len(Issued(r1, r2)) = Count(r1, r2)
         /\ \A k \in 1..Count(r1, r2) : Issued(r1, r2)[k].serial = popped + k - 1
         /\ popped + Count(r1, r2) <= Pushed
<1>0. popped \in Nat /\ Pushed \in Int
    BY DEF IInv, TypeOK, Pushed
<1>1. CASE IssueEn2(r1, r2)
    <2>1. Valid(Candidate1) /\ Valid(Candidate2)
        BY <1>1 DEF IssueEn2, IssueEn1
    <2>2. Issued(r1, r2) = <<Candidate1, Candidate2>> /\ Count(r1, r2) = 2
        BY <1>1 DEF Issued, Count
    <2>3. Candidate1 \in Instr /\ Candidate1.serial = popped
        BY <2>1, Candidates
    <2>4. Candidate2 \in Instr /\ Candidate2.serial = popped + 1
        BY <2>1, Candidates
    <2>5. popped + 1 < Pushed
        BY <2>1, Candidates
    <2> QED BY <1>0, <2>2, <2>3, <2>4, <2>5
<1>2. CASE IssueEn1(r1, r2) /\ ~IssueEn2(r1, r2)
    <2>1. Valid(Candidate1)
        BY <1>2 DEF IssueEn1
    <2>2. Issued(r1, r2) = <<Candidate1>> /\ Count(r1, r2) = 1
        BY <1>2 DEF Issued, Count
    <2>3. Candidate1 \in Instr /\ Candidate1.serial = popped /\ popped < Pushed
        BY <2>1, Candidates
    <2> QED BY <1>0, <2>2, <2>3
<1>3. CASE ~IssueEn1(r1, r2)
    <2>1. ~IssueEn2(r1, r2)
        BY <1>3 DEF IssueEn2
    <2>2. Issued(r1, r2) = <<>> /\ Count(r1, r2) = 0
        BY <1>3, <2>1 DEF Issued, Count
    <2>3. popped <= Pushed
        <3>1. /\ Occupied(head_odd, tail_odd) \in Nat
              /\ Occupied(head_even, tail_even) \in Nat
            <4>1. /\ head_odd \in Index /\ tail_odd \in Index
                  /\ head_even \in Index /\ tail_even \in Index
                BY DEF IInv, TypeOK
            <4> QED BY <4>1, OccupiedType
        <3> QED BY <1>0, <3>1 DEF IInv, CountsAgree
    <2> QED BY <1>0, <2>2, <2>3
<1> QED BY <1>1, <1>2, <1>3

-----------------------------------------------------------------------------
(* One cycle preserves the invariant.                                      *)

(* A flush empties both banks and DIreg and starts a new stream.           *)
LEMMA FlushCycle ==
  ASSUME IInv, NEW hz \in HazardInputs, NEW r1 \in BOOLEAN, NEW r2 \in BOOLEAN,
         NEW ds \in Bundles, Tick(hz, r1, r2, ds),
         "flush_que" \in Control(hz)
  PROVE  /\ head_odd' = 0 /\ head_even' = 0 /\ tail_odd' = 0 /\ tail_even' = 0
         /\ dataD' = <<>> /\ dataI' = <<>> /\ nfetch' = 0 /\ popped' = 0
  BY ControlFacts DEF Tick, MoveTails, MoveHeads, LoadD, LoadIE

(* The memories keep their type in every cycle. *)
LEMMA BanksTyped ==
  ASSUME TypeOK, NEW s, WriteBanks(s)
  PROVE  /\ queue_odd' \in [Index -> Instr \union {NoInstr}]
         /\ queue_even' \in [Index -> Instr \union {NoInstr}]
<1>1. ToOdd \in {1, 2} /\ ToEven \in {1, 2}
    BY DEF ToOdd, ToEven
<1>2. \A k \in {1, 2} : k <= Len(dataD) => dataD[k] \in Instr
    BY DEF TypeOK
<1> QED BY <1>1, <1>2 DEF TypeOK, WriteBanks

(* Where the instructions of DIreg go in a cycle that pushes them. *)
LEMMA PushedNext ==
  ASSUME IInv
  PROVE  /\ ToOdd <= Len(dataD) =>
              /\ dataD[ToOdd] \in Instr
              /\ dataD[ToOdd].serial
                   = FirstOdd + 2 * Occupied(head_odd, tail_odd)
         /\ ToEven <= Len(dataD) =>
              /\ dataD[ToEven] \in Instr
              /\ dataD[ToEven].serial
                   = FirstEven + 2 * Occupied(head_even, tail_even)
<1> DEFINE OO == Occupied(head_odd, tail_odd)
           OE == Occupied(head_even, tail_even)
<1>1. /\ OO \in Nat /\ OE \in Nat
    <2>1. /\ head_odd \in Index /\ tail_odd \in Index
          /\ head_even \in Index /\ tail_even \in Index
        BY DEF IInv, TypeOK
    <2> QED BY <2>1, OccupiedType
<1>2. popped \in Nat /\ Pushed \in Int /\ OO + OE = Pushed - popped
    BY DEF IInv, TypeOK, CountsAgree, Pushed
<1>3. OO + (IF HeadsEqual THEN 0 ELSE 1) = OE + (IF TailsEqual THEN 0 ELSE 1)
    BY DEF IInv, TakeTurns
<1>4. \A k \in {1, 2} : k <= Len(dataD) =>
        dataD[k] \in Instr /\ dataD[k].serial = Pushed + k - 1
    BY DEF IInv, TypeOK, DataDNext
<1>5. /\ ToOdd = IF TailsEqual THEN 1 ELSE 2
      /\ ToEven = IF TailsEqual THEN 2 ELSE 1
    BY DEF ToOdd, ToEven, OddLarger, TailsEqual
<1> HIDE DEF OO, OE
<1>6. Pushed + ToOdd - 1 = FirstOdd + 2 * OO
    BY <1>1, <1>2, <1>3, <1>5 DEF FirstOdd
<1>7. Pushed + ToEven - 1 = FirstEven + 2 * OE
    BY <1>1, <1>2, <1>3, <1>5 DEF FirstEven
<1> QED BY <1>4, <1>5, <1>6, <1>7 DEF OO, OE

(* A cycle without a flush: the queue pushes the contents of DIreg or      *)
(* nothing, pops what is issued or nothing, and stays in order.            *)
LEMMA RunCycle ==
  ASSUME IInv, NEW hz \in HazardInputs, NEW r1 \in BOOLEAN, NEW r2 \in BOOLEAN,
         NEW ds \in Bundles, Tick(hz, r1, r2, ds),
         "flush_que" \notin Control(hz)
  PROVE  /\ head_odd' \in Index /\ head_even' \in Index
         /\ tail_odd' \in Index /\ tail_even' \in Index
         /\ popped' = IF Draining(Control(hz)) THEN popped + Count(r1, r2)
                      ELSE popped
         /\ Pushed' = IF "stallI" \notin Control(hz) THEN Pushed + Len(dataD)
                      ELSE Pushed
         /\ TakeTurns' /\ CountsAgree' /\ BanksHold'
<1> DEFINE s == Control(hz)
           en1 == IssueEn1(r1, r2)
           en2 == IssueEn2(r1, r2)
           OO == Occupied(head_odd, tail_odd)
           OE == Occupied(head_even, tail_even)
           pushO == "stallI" \notin s /\ ToOdd <= Len(dataD)
           pushE == "stallI" \notin s /\ ToEven <= Len(dataD)
           popO == Draining(s) /\ ((OddFirst /\ en1) \/ (~OddFirst /\ en2))
           popE == Draining(s) /\ ((~OddFirst /\ en1) \/ (OddFirst /\ en2))
<1>1. /\ WriteBanks(s) /\ MoveTails(s) /\ MoveHeads(s, en1, en2)
      /\ LoadD(s, ds)
      /\ "flush_que" \notin s /\ "flushI" \notin s
      /\ "stallI" \notin s => ~Overflow
    BY ControlFacts DEF Tick
<1>2. /\ queue_odd \in [Index -> Instr \union {NoInstr}]
      /\ queue_even \in [Index -> Instr \union {NoInstr}]
      /\ head_odd \in Index /\ tail_odd \in Index
      /\ head_even \in Index /\ tail_even \in Index
      /\ popped \in Nat /\ nfetch \in Nat /\ Len(dataD) \in 0..2
    <2>1. TypeOK
        BY DEF IInv
    <2>2. Len(dataD) \in 0..2
        <3>1. dataD \in Seq(Instr) /\ Len(dataD) <= 2
            BY <2>1 DEF TypeOK
        <3>2. Len(dataD) \in Nat
            BY <3>1, LenProperties
        <3> DEFINE n == Len(dataD)
        <3>3. n \in Nat /\ n <= 2
            BY <3>1, <3>2
        <3> HIDE DEF n
        <3>4. n \in 0..2
            BY <3>3
        <3> QED BY <3>4 DEF n
    <2> QED BY <2>1, <2>2 DEF TypeOK
<1>3. FirstOdd \in Nat /\ FirstEven \in Nat
    BY <1>2 DEF FirstOdd, FirstEven
<1>4. OO \in Nat /\ OE \in Nat
    BY <1>2, OccupiedType
<1>5. en2 => en1
    BY DEF IssueEn2
<1>6. /\ en1 => Valid(Candidate1)
      /\ en2 => Valid(Candidate2)
    BY DEF IssueEn2, IssueEn1
<1>7. /\ popO => head_odd # tail_odd
      /\ popE => head_even # tail_even
    BY <1>6 DEF Candidate1, Candidate2, HeadOdd, HeadEven, Valid
<1>8. /\ pushO => Push(tail_odd) # head_odd
      /\ pushE => Push(tail_even) # head_even
    BY <1>1 DEF Overflow
<1>9. /\ head_odd' = IF popO THEN Pop(head_odd) ELSE head_odd
      /\ head_even' = IF popE THEN Pop(head_even) ELSE head_even
      /\ tail_odd' = IF pushO THEN Push(tail_odd) ELSE tail_odd
      /\ tail_even' = IF pushE THEN Push(tail_even) ELSE tail_even
      /\ queue_odd' = IF pushO THEN [queue_odd EXCEPT ![tail_odd] = dataD[ToOdd]]
                      ELSE queue_odd
      /\ queue_even' = IF pushE
                       THEN [queue_even EXCEPT ![tail_even] = dataD[ToEven]]
                       ELSE queue_even
    BY <1>1 DEF MoveHeads, MoveTails, WriteBanks
<1> HIDE DEF s, en1, en2, OO, OE, pushO, pushE, popO, popE
<1>10. /\ pushO \in BOOLEAN /\ pushE \in BOOLEAN
       /\ popO \in BOOLEAN /\ popE \in BOOLEAN
    BY DEF pushO, pushE, popO, popE
<1>11. popped' = popped + (IF popO THEN 1 ELSE 0) + (IF popE THEN 1 ELSE 0)
    BY <1>1, <1>2, <1>5 DEF MoveHeads, popO, popE
<1>12. popped' = IF Draining(s) THEN popped + Count(r1, r2) ELSE popped
    BY <1>1, <1>2, <1>5 DEF MoveHeads, Count, en1, en2
<1>13. Pushed' = IF "stallI" \notin s THEN Pushed + Len(dataD) ELSE Pushed
    <2>1. Len(Numbered(ds)) = Len(ds) /\ Len(ds) \in Nat
        BY <1>2, NumberedFacts
    <2> QED BY <1>1, <1>2, <2>1 DEF LoadD, Pushed
<1>14. Pushed' = Pushed + (IF pushO THEN 1 ELSE 0) + (IF pushE THEN 1 ELSE 0)
    <2>1. ToOdd \in {1, 2} /\ ToEven = 3 - ToOdd
        BY DEF ToOdd, ToEven
    <2>2. Pushed \in Int
        BY <1>2 DEF Pushed
    <2> DEFINE n == Len(dataD)
               stalled == "stallI" \in s
    <2>3. /\ n \in 0..2
          /\ Pushed' = IF ~stalled THEN Pushed + n ELSE Pushed
          /\ pushO <=> ~stalled /\ ToOdd <= n
          /\ pushE <=> ~stalled /\ ToEven <= n
        BY <1>2, <1>13 DEF pushO, pushE
    <2> HIDE DEF n, stalled
    <2> QED BY <1>10, <2>1, <2>2, <2>3
<1>15. /\ HeadsEqual' \/ head_odd' = Pop(head_even')
       /\ (IF HeadsEqual' THEN 0 ELSE 1) = (IF HeadsEqual THEN 0 ELSE 1)
            + (IF popO THEN 1 ELSE 0) - (IF popE THEN 1 ELSE 0)
    <2>1. HeadsEqual \/ head_odd = Pop(head_even)
        BY DEF IInv, TakeTurns
    <2>2. OddFirst <=> HeadsEqual
        BY DEF OddFirst, OddLarger, HeadsEqual
    <2>3. popE => popO \/ ~HeadsEqual
        BY <1>5, <2>2 DEF popO, popE
    <2>4. popO => popE \/ HeadsEqual
        BY <1>5, <2>2 DEF popO, popE
    <2> QED BY <1>2, <1>9, <2>1, <2>3, <2>4, SizeAssumption
            DEF HeadsEqual, Pop, Index
<1>16. /\ TailsEqual' \/ tail_odd' = Push(tail_even')
       /\ (IF TailsEqual' THEN 0 ELSE 1) = (IF TailsEqual THEN 0 ELSE 1)
            + (IF pushO THEN 1 ELSE 0) - (IF pushE THEN 1 ELSE 0)
    <2>1. TailsEqual \/ tail_odd = Push(tail_even)
        BY DEF IInv, TakeTurns
    <2>2. /\ ToOdd = IF TailsEqual THEN 1 ELSE 2
          /\ ToEven = IF TailsEqual THEN 2 ELSE 1
        BY DEF ToOdd, ToEven, OddLarger, TailsEqual
    <2>3. pushE => pushO \/ ~TailsEqual
        BY <1>2, <2>2 DEF pushO, pushE
    <2>4. pushO => pushE \/ TailsEqual
        BY <1>2, <2>2 DEF pushO, pushE
    <2> QED BY <1>2, <1>9, <2>1, <2>3, <2>4, SizeAssumption
            DEF TailsEqual, Push, Index
<1>17. FirstOdd' = FirstOdd + (IF popO THEN 2 ELSE 0)
    BY <1>2, <1>10, <1>11, <1>15 DEF FirstOdd
<1>18. FirstEven' = FirstEven + (IF popE THEN 2 ELSE 0)
    BY <1>2, <1>10, <1>11, <1>15 DEF FirstEven
<1>19. /\ BankInv(queue_odd', head_odd', tail_odd', FirstOdd')
       /\ Occupied(head_odd', tail_odd') = OO
            + (IF pushO THEN 1 ELSE 0) - (IF popO THEN 1 ELSE 0)
    <2>1. BankInv(queue_odd, head_odd, tail_odd, FirstOdd)
        BY <1>2, <1>3 DEF IInv, BanksHold, BankInv
    <2>2. pushO => /\ dataD[ToOdd] \in Instr
                   /\ dataD[ToOdd].serial
                        = FirstOdd + 2 * Occupied(head_odd, tail_odd)
        BY PushedNext DEF pushO
    <2>3. BankMoves(queue_odd, head_odd, tail_odd, FirstOdd, dataD[ToOdd],
                    pushO, popO, queue_odd', head_odd', tail_odd', FirstOdd')
        BY <1>7, <1>8, <1>9, <1>17, <2>2, Zenon DEF BankMoves
    <2>4. /\ BankInv(queue_odd', head_odd', tail_odd', FirstOdd')
          /\ Occupied(head_odd', tail_odd') = Occupied(head_odd, tail_odd)
               + (IF pushO THEN 1 ELSE 0) - (IF popO THEN 1 ELSE 0)
        BY <1>10, <2>1, <2>3, BankStep
    <2> QED BY <2>4 DEF OO
<1>20. /\ BankInv(queue_even', head_even', tail_even', FirstEven')
       /\ Occupied(head_even', tail_even') = OE
            + (IF pushE THEN 1 ELSE 0) - (IF popE THEN 1 ELSE 0)
    <2>1. BankInv(queue_even, head_even, tail_even, FirstEven)
        BY <1>2, <1>3 DEF IInv, BanksHold, BankInv
    <2>2. pushE => /\ dataD[ToEven] \in Instr
                   /\ dataD[ToEven].serial
                        = FirstEven + 2 * Occupied(head_even, tail_even)
        BY PushedNext DEF pushE
    <2>3. BankMoves(queue_even, head_even, tail_even, FirstEven, dataD[ToEven],
                    pushE, popE, queue_even', head_even', tail_even', FirstEven')
        BY <1>7, <1>8, <1>9, <1>18, <2>2, Zenon DEF BankMoves
    <2>4. /\ BankInv(queue_even', head_even', tail_even', FirstEven')
          /\ Occupied(head_even', tail_even') = Occupied(head_even, tail_even)
               + (IF pushE THEN 1 ELSE 0) - (IF popE THEN 1 ELSE 0)
        BY <1>10, <2>1, <2>3, BankStep
    <2> QED BY <2>4 DEF OE
<1> DEFINE OO2 == Occupied(head_odd', tail_odd')
           OE2 == Occupied(head_even', tail_even')
<1>a. /\ OO2 = OO + (IF pushO THEN 1 ELSE 0) - (IF popO THEN 1 ELSE 0)
      /\ OE2 = OE + (IF pushE THEN 1 ELSE 0) - (IF popE THEN 1 ELSE 0)
    BY <1>19, <1>20
<1> HIDE DEF OO2, OE2
<1>21. OO + (IF HeadsEqual THEN 0 ELSE 1) = OE + (IF TailsEqual THEN 0 ELSE 1)
    BY DEF IInv, TakeTurns, OO, OE
<1>22. TakeTurns'
    <2>1. OO2 + (IF HeadsEqual' THEN 0 ELSE 1) = OE2 + (IF TailsEqual' THEN 0 ELSE 1)
        BY <1>4, <1>15, <1>16, <1>a, <1>21
    <2> QED BY <1>15, <1>16, <2>1 DEF TakeTurns, OO2, OE2
<1>23. CountsAgree'
    <2>1. OO + OE = Pushed - popped /\ Pushed \in Int
        BY <1>2 DEF IInv, CountsAgree, OO, OE, Pushed
    <2>2. OO2 + OE2 = Pushed' - popped'
        BY <1>2, <1>4, <1>11, <1>14, <1>a, <2>1
    <2> QED BY <2>2 DEF CountsAgree, OO2, OE2
<1>24. BanksHold'
    BY <1>19, <1>20, Zenon DEF BanksHold, BankInv
<1>25. /\ head_odd' \in Index /\ head_even' \in Index
       /\ tail_odd' \in Index /\ tail_even' \in Index
    BY <1>19, <1>20, Zenon DEF BankInv
<1> QED BY <1>12, <1>13, <1>22, <1>23, <1>24, <1>25 DEF s

(* The registers keep their types, and DIreg its numbering, in every       *)
(* cycle.                                                                  *)
LEMMA RegistersCycle ==
  ASSUME IInv, NEW hz \in HazardInputs, NEW r1 \in BOOLEAN, NEW r2 \in BOOLEAN,
         NEW ds \in Bundles, Tick(hz, r1, r2, ds)
  PROVE  /\ dataD' \in Seq(Instr) /\ Len(dataD') <= 2
         /\ dataI' \in Seq(Instr) /\ Len(dataI') <= 2
         /\ dataE' \in Seq(Instr) /\ Len(dataE') <= 2
         /\ nfetch' \in Nat /\ slot_next' \in BOOLEAN
         /\ DataDNext'
<1> DEFINE s == Control(hz)
<1>1. LoadD(s, ds) /\ LoadIE(s, Issued(r1, r2))
    BY DEF Tick
<1>2. /\ dataD \in Seq(Instr) /\ Len(dataD) <= 2
      /\ dataI \in Seq(Instr) /\ Len(dataI) <= 2
      /\ dataE \in Seq(Instr) /\ Len(dataE) <= 2
      /\ nfetch \in Nat /\ slot_next \in BOOLEAN
    BY DEF IInv, TypeOK
<1>3. /\ Len(ds) \in 0..2
      /\ Numbered(ds) \in Seq(Instr)
      /\ Len(Numbered(ds)) = Len(ds)
      /\ \A k \in 1..Len(ds) : Numbered(ds)[k].serial = nfetch + k - 1
    BY <1>2, NumberedFacts
<1>4. Issued(r1, r2) \in Seq(Instr) /\ Len(Issued(r1, r2)) <= 2
    <2>1. Count(r1, r2) \in {0, 1, 2}
        BY DEF Count
    <2> QED BY <2>1, IssuedFacts
<1>5. <<>> \in Seq(Instr) /\ Len(<<>>) <= 2
    OBVIOUS
<1> HIDE DEF s
<1>6. dataI' \in Seq(Instr) /\ Len(dataI') <= 2
    <2>1. dataI' \in {<<>>, Issued(r1, r2), dataI}
        BY <1>1 DEF LoadIE
    <2> QED BY <1>2, <1>4, <1>5, <2>1, Zenon
<1>7. dataE' \in Seq(Instr) /\ Len(dataE') <= 2
    <2>1. dataE' \in {<<>>, dataI, dataE}
        BY <1>1 DEF LoadIE
    <2> QED BY <1>2, <1>5, <2>1, Zenon
<1>8. slot_next' \in BOOLEAN
    BY <1>1, <1>2 DEF LoadD, Redirect
<1>9. /\ dataD' \in Seq(Instr) /\ Len(dataD') <= 2 /\ nfetch' \in Nat
      /\ DataDNext'
    <2>1. CASE "flushI" \in s
        <3>1. dataD' = <<>> /\ nfetch' = 0
            BY <1>1, <2>1 DEF LoadD
        <3> QED BY <3>1 DEF DataDNext, Pushed
    <2>2. CASE "flushI" \notin s /\ "stallI" \notin s
        <3>1. dataD' = Numbered(ds) /\ nfetch' = nfetch + Len(ds)
            BY <1>1, <2>2 DEF LoadD
        <3>2. Pushed' = nfetch /\ Len(dataD') <= nfetch'
            <4> DEFINE n == Len(ds)
            <4>1. n \in 0..2 /\ nfetch' = nfetch + n /\ Len(dataD') = n
                BY <1>3, <3>1, Zenon
            <4> HIDE DEF n
            <4>2. (nfetch + n) - n = nfetch /\ n <= nfetch + n
                BY <1>2, <4>1
            <4> QED BY <4>1, <4>2, Zenon DEF Pushed
        <3>4. \A k \in 1..Len(dataD') : dataD'[k].serial = Pushed' + k - 1
            BY <1>3, <3>1, <3>2
        <3>5. dataD' \in Seq(Instr) /\ Len(dataD') <= 2 /\ nfetch' \in Nat
            <4> DEFINE n == Len(ds)
            <4>1. /\ n \in 0..2 /\ nfetch' = nfetch + n
                  /\ dataD' \in Seq(Instr) /\ Len(dataD') = n
                BY <1>3, <3>1, Zenon
            <4> HIDE DEF n
            <4>2. n <= 2 /\ nfetch + n \in Nat
                BY <1>2, <4>1
            <4> QED BY <4>1, <4>2, Zenon
        <3> QED BY <3>2, <3>4, <3>5, Zenon DEF DataDNext
    <2>3. CASE "flushI" \notin s /\ "stallI" \in s
        <3>1. dataD' = dataD /\ nfetch' = nfetch
            BY <1>1, <2>3 DEF LoadD
        <3>2. Pushed' = Pushed
            BY <3>1 DEF Pushed
        <3> QED BY <1>2, <3>1, <3>2 DEF IInv, DataDNext
    <2> QED BY <2>1, <2>2, <2>3
<1> QED BY <1>6, <1>7, <1>8, <1>9

(* The queue after a flush. *)
LEMMA FlushInv ==
  ASSUME IInv, NEW hz \in HazardInputs, NEW r1 \in BOOLEAN, NEW r2 \in BOOLEAN,
         NEW ds \in Bundles, Tick(hz, r1, r2, ds),
         "flush_que" \in Control(hz)
  PROVE  TakeTurns' /\ CountsAgree' /\ BanksHold'
<1>1. /\ head_odd' = 0 /\ head_even' = 0 /\ tail_odd' = 0 /\ tail_even' = 0
      /\ dataD' = <<>> /\ nfetch' = 0 /\ popped' = 0
    BY FlushCycle
<1>2. 0 \in Index /\ Occupied(0, 0) = 0
    BY SizeAssumption DEF Index, Occupied
<1>3. TakeTurns'
    BY <1>1, <1>2 DEF TakeTurns, HeadsEqual, TailsEqual
<1>4. CountsAgree'
    BY <1>1, <1>2 DEF CountsAgree, Pushed
<1>5. BanksHold'
    BY <1>1, <1>2, BankEmpty, Zenon DEF BanksHold
<1> QED BY <1>3, <1>4, <1>5

(* Every step keeps the inductive invariant.                               *)
LEMMA NextInv == IInv /\ [Next]_vars => IInv'
<1> SUFFICES ASSUME IInv, [Next]_vars PROVE IInv'
    OBVIOUS
<1>1. CASE Next
    <2>1. PICK hz \in HazardInputs, r1 \in BOOLEAN, r2 \in BOOLEAN,
               ds \in Bundles : Tick(hz, r1, r2, ds)
        BY <1>1 DEF Next
    <2>2. /\ dataD' \in Seq(Instr) /\ Len(dataD') <= 2
          /\ dataI' \in Seq(Instr) /\ Len(dataI') <= 2
          /\ dataE' \in Seq(Instr) /\ Len(dataE') <= 2
          /\ nfetch' \in Nat /\ slot_next' \in BOOLEAN
          /\ DataDNext'
        BY <2>1, RegistersCycle
    <2>3. /\ queue_odd' \in [Index -> Instr \union {NoInstr}]
          /\ queue_even' \in [Index -> Instr \union {NoInstr}]
        BY <2>1, BanksTyped DEF Tick, IInv
    <2>4. popped \in Nat /\ 0 \in Index
        BY SizeAssumption DEF IInv, TypeOK, Index
    <2>5. /\ head_odd' \in Index /\ head_even' \in Index
          /\ tail_odd' \in Index /\ tail_even' \in Index
          /\ popped' \in Nat
          /\ TakeTurns' /\ CountsAgree' /\ BanksHold'
        <3>1. CASE "flush_que" \in Control(hz)
            BY <2>1, <2>4, <3>1, FlushCycle, FlushInv
        <3>2. CASE "flush_que" \notin Control(hz)
            <4>1. Count(r1, r2) \in Nat
                BY DEF Count
            <4> QED BY <2>1, <2>4, <3>2, <4>1, RunCycle
        <3> QED BY <3>1, <3>2
    <2> QED BY <2>2, <2>3, <2>5 DEF IInv, TypeOK
<1>2. CASE UNCHANGED vars
    BY <1>2 DEF vars, ptrVars, IInv, TypeOK, TakeTurns, CountsAgree, BanksHold,
                DataDNext, HeadsEqual, TailsEqual, FirstOdd, FirstEven, Pushed
<1> QED BY <1>1, <1>2

(* The empty queue satisfies it. *)
LEMMA InitInv == Init => IInv
<1> SUFFICES ASSUME Init PROVE IInv
    OBVIOUS
<1>1. 0 \in Index /\ Occupied(0, 0) = 0
    BY SizeAssumption DEF Index, Occupied
<1>2. TypeOK
    BY <1>1 DEF Init, TypeOK
<1>3. TakeTurns
    BY <1>1 DEF Init, TakeTurns, HeadsEqual, TailsEqual
<1>4. CountsAgree /\ DataDNext
    BY <1>1 DEF Init, CountsAgree, DataDNext, Pushed
<1>5. BanksHold
    BY <1>1, BankEmpty DEF Init, BanksHold
<1> QED BY <1>2, <1>3, <1>4, <1>5 DEF IInv

(* The inductive invariant holds in every reachable state. *)
THEOREM Invariance == Spec => []IInv
  BY InitInv, NextInv, PTL DEF Spec

(* Registers and banks always hold values of their types. *)
THEOREM TypeCorrect == Spec => []TypeOK
<1>1. IInv => TypeOK
    BY DEF IInv
<1> QED BY <1>1, Invariance, PTL

(* No instruction is overwritten or lost in the queue (issue.sv:120-163).  *)
THEOREM NothingOverwritten == Spec => []CountsAgree
<1>1. IInv => CountsAgree
    BY DEF IInv
<1> QED BY <1>1, Invariance, PTL

(* The two candidates are always the two oldest instructions, in program   *)
(* order (issue.sv:81-101).                                                *)
THEOREM CandidatesOldest == Spec => []CandidatesInOrder
<1>1. IInv => CandidatesInOrder
    BY Candidates DEF CandidatesInOrder
<1> QED BY <1>1, Invariance, PTL

-----------------------------------------------------------------------------
(* The issue stage implements InOrderIssue.                                *)

(* The abstract execute register. *)
Ex == [k \in 1..Len(dataI) |-> dataI[k].serial]

(* An empty stream: nothing fetched, nothing in DIreg. *)
LEMMA NothingPushed ==
  ASSUME NEW n, NEW q, n = 0, q = <<>> PROVE n - Len(q) = 0
<1>1. Len(q) = 0
    OBVIOUS
<1>2. 0 - 0 = 0
    OBVIOUS
<1> QED BY <1>1, <1>2, Zenon

(* Every cycle is a step of the abstract specification: a flush, an        *)
(* advance when IXreg loads, and a hold when it does not.                  *)
LEMMA CycleRefines ==
  ASSUME IInv, NEW hz \in HazardInputs, NEW r1 \in BOOLEAN, NEW r2 \in BOOLEAN,
         NEW ds \in Bundles, Tick(hz, r1, r2, ds)
  PROVE  Abs!ANext
<1> DEFINE s == Control(hz)
<1>1. LoadIE(s, Issued(r1, r2))
    BY DEF Tick
<1>2. CASE "flush_que" \in s
    <2>1. dataI' = <<>> /\ dataD' = <<>> /\ nfetch' = 0 /\ popped' = 0
        BY <1>2, FlushCycle
    <2>2. Pushed' = 0
        BY <2>1, NothingPushed DEF Pushed
    <2>3. Ex' = <<>>
        BY <2>1 DEF Ex
    <2> QED BY <2>1, <2>2, <2>3 DEF Abs!ANext, Abs!AFlush, Ex
<1>3. CASE "flush_que" \notin s
    <2>1. /\ popped' = IF Draining(s) THEN popped + Count(r1, r2) ELSE popped
          /\ Pushed' = IF "stallI" \notin s THEN Pushed + Len(dataD) ELSE Pushed
        BY <1>3, RunCycle
    <2>2. \E m \in 0..2 : Pushed' = Pushed + m
        <3>1. Pushed \in Int /\ Len(dataD) \in 0..2
            <4>1. dataD \in Seq(Instr) /\ Len(dataD) <= 2 /\ nfetch \in Nat
                BY DEF IInv, TypeOK
            <4>2. Len(dataD) \in Nat
                BY <4>1, LenProperties
            <4> DEFINE n == Len(dataD)
            <4>3. n \in Nat /\ n <= 2 /\ nfetch \in Nat
                BY <4>1, <4>2
            <4> HIDE DEF n
            <4>4. n \in 0..2 /\ nfetch - n \in Int
                BY <4>3
            <4> QED BY <4>4 DEF n, Pushed
        <3>2. CASE "stallI" \notin s
            BY <2>1, <3>1, <3>2
        <3>3. CASE "stallI" \in s
            <4>1. Pushed' = Pushed + 0
                BY <2>1, <3>1, <3>3
            <4> QED BY <4>1
        <3> QED BY <3>2, <3>3
    <2>3. "flushE" \notin s /\ (Draining(s) <=> "stallE" \notin s)
        BY <1>3, ControlFacts
    <2>4. CASE Draining(s)
        <3> DEFINE n == Count(r1, r2)
        <3>1. n \in 0..2
            BY DEF Count
        <3>2. dataI' = Issued(r1, r2)
            BY <1>1, <2>3, <2>4 DEF LoadIE
        <3>3. /\ Len(Issued(r1, r2)) = n
              /\ \A k \in 1..n : Issued(r1, r2)[k].serial = popped + k - 1
              /\ popped + n <= Pushed
            BY IssuedFacts
        <3>4. popped' = popped + n
            BY <2>1, <2>4
        <3> HIDE DEF n
        <3>5. Ex' = [k \in 1..n |-> popped + k - 1]
            BY <3>2, <3>3 DEF Ex
        <3>6. Abs!AAdvance
            BY <2>2, <3>1, <3>3, <3>4, <3>5
               DEF Abs!AAdvance, Abs!Following, Ex
        <3> QED BY <3>6 DEF Abs!ANext
    <2>5. CASE ~Draining(s)
        <3>1. dataI' = dataI
            BY <1>1, <2>3, <2>5 DEF LoadIE
        <3>2. popped' = popped
            BY <2>1, <2>5
        <3>3. Abs!AHold
            BY <2>2, <3>1, <3>2 DEF Abs!AHold
        <3> QED BY <3>3 DEF Abs!ANext
    <2> QED BY <2>4, <2>5
<1> QED BY <1>2, <1>3

(* The issue stage delivers the instruction stream to the execute register *)
(* in program order, none skipped and none twice, through every            *)
(* combination of stalls, overflow and flushes.                            *)
THEOREM Refinement == Spec => IssuesInOrder
<1>1. Init => Abs!AInit
    <2> SUFFICES ASSUME Init PROVE Abs!AInit
        OBVIOUS
    <2>1. Pushed = 0 /\ popped = 0
        BY NothingPushed DEF Init, Pushed
    <2>2. Ex = <<>>
        BY DEF Init, Ex
    <2> QED BY <2>1, <2>2 DEF Abs!AInit, Ex
<1>2. IInv /\ [Next]_vars => [Abs!ANext]_(Abs!aVars)
    <2> SUFFICES ASSUME IInv, [Next]_vars PROVE [Abs!ANext]_(Abs!aVars)
        OBVIOUS
    <2>1. CASE Next
        <3>1. PICK hz \in HazardInputs, r1 \in BOOLEAN, r2 \in BOOLEAN,
                   ds \in Bundles : Tick(hz, r1, r2, ds)
            BY <2>1 DEF Next
        <3> QED BY <3>1, CycleRefines
    <2>2. CASE UNCHANGED vars
        BY <2>2 DEF vars, ptrVars, Abs!aVars, Pushed
    <2> QED BY <2>1, <2>2
<1> QED BY <1>1, <1>2, Invariance, PTL DEF Spec, IssuesInOrder, Abs!ASpec

-----------------------------------------------------------------------------
(* Branches and their delay slots.                                         *)

(* An entry at the head of a bank that is not popped stays there: a push   *)
(* goes to the tail, and never makes a bank look empty.                    *)
LEMMA HeadsStay ==
  ASSUME IInv, NEW hz \in HazardInputs, NEW r1 \in BOOLEAN, NEW r2 \in BOOLEAN,
         NEW ds \in Bundles, Tick(hz, r1, r2, ds),
         "flush_que" \notin Control(hz)
  PROVE  /\ Valid(HeadOdd) /\ head_odd' = head_odd => HeadOdd' = HeadOdd
         /\ Valid(HeadEven) /\ head_even' = head_even => HeadEven' = HeadEven
<1> DEFINE s == Control(hz)
           pushO == "stallI" \notin s /\ ToOdd <= Len(dataD)
           pushE == "stallI" \notin s /\ ToEven <= Len(dataD)
<1>1. /\ WriteBanks(s) /\ MoveTails(s)
      /\ "flush_que" \notin s /\ "stallI" \notin s => ~Overflow
    BY ControlFacts DEF Tick
<1>2. /\ queue_odd \in [Index -> Instr \union {NoInstr}]
      /\ queue_even \in [Index -> Instr \union {NoInstr}]
      /\ head_odd \in Index /\ head_even \in Index
    BY DEF IInv, TypeOK
<1>3. ASSUME Valid(HeadOdd), head_odd' = head_odd PROVE HeadOdd' = HeadOdd
    <2>1. head_odd # tail_odd
        BY <1>3 DEF HeadOdd, Valid
    <2>2. tail_odd' = tail_odd \/ (tail_odd' = Push(tail_odd) /\ ~Overflow)
        BY <1>1 DEF MoveTails
    <2>3. head_odd' # tail_odd'
        BY <1>3, <2>1, <2>2 DEF Overflow
    <2>4. queue_odd'[head_odd] = queue_odd[head_odd]
        <3>1. queue_odd' = queue_odd
              \/ queue_odd' = [queue_odd EXCEPT ![tail_odd] = dataD[ToOdd]]
            BY <1>1 DEF WriteBanks
        <3> QED BY <1>2, <2>1, <3>1
    <2> QED BY <1>3, <2>1, <2>3, <2>4 DEF HeadOdd
<1>4. ASSUME Valid(HeadEven), head_even' = head_even PROVE HeadEven' = HeadEven
    <2>1. head_even # tail_even
        BY <1>4 DEF HeadEven, Valid
    <2>2. tail_even' = tail_even \/ (tail_even' = Push(tail_even) /\ ~Overflow)
        BY <1>1 DEF MoveTails
    <2>3. head_even' # tail_even'
        BY <1>4, <2>1, <2>2 DEF Overflow
    <2>4. queue_even'[head_even] = queue_even[head_even]
        <3>1. queue_even' = queue_even
              \/ queue_even' = [queue_even EXCEPT ![tail_even] = dataD[ToEven]]
            BY <1>1 DEF WriteBanks
        <3> QED BY <1>2, <2>1, <3>1
    <2> QED BY <1>4, <2>1, <2>3, <2>4 DEF HeadEven
<1> QED BY <1>3, <1>4

(* If the first candidate stays it is the first one of the next cycle, and *)
(* if it goes alone the second one is.                                     *)
LEMMA NextCandidate ==
  ASSUME IInv, NEW hz \in HazardInputs, NEW r1 \in BOOLEAN, NEW r2 \in BOOLEAN,
         NEW ds \in Bundles, Tick(hz, r1, r2, ds),
         "flush_que" \notin Control(hz)
  PROVE  /\ ~Draining(Control(hz)) /\ Valid(Candidate1) => Candidate1' = Candidate1
         /\ /\ Draining(Control(hz)) /\ Valid(Candidate2)
            /\ IssueEn1(r1, r2) /\ ~IssueEn2(r1, r2)
            => Candidate1' = Candidate2
<1> DEFINE s == Control(hz)
<1>1. MoveHeads(s, IssueEn1(r1, r2), IssueEn2(r1, r2)) /\ "flush_que" \notin s
    BY DEF Tick
<1>2. /\ head_odd \in Index /\ head_even \in Index
      /\ head_odd = head_even \/ head_odd = Pop(head_even)
    BY DEF IInv, TypeOK, TakeTurns, HeadsEqual
<1>3. \A h \in Index : Pop(h) # h
    BY SizeAssumption DEF Pop, Index
<1>4. ASSUME ~Draining(s), Valid(Candidate1) PROVE Candidate1' = Candidate1
    <2>1. head_odd' = head_odd /\ head_even' = head_even
        BY <1>1, <1>4 DEF MoveHeads
    <2>2. OddFirst' <=> OddFirst
        BY <2>1 DEF OddFirst, OddLarger
    <2> QED BY <1>4, <2>1, <2>2, HeadsStay DEF Candidate1
<1>5. ASSUME Draining(s), Valid(Candidate2), IssueEn1(r1, r2), ~IssueEn2(r1, r2)
      PROVE  Candidate1' = Candidate2
    <2>1. CASE OddFirst
        <3>1. head_odd' = Pop(head_odd) /\ head_even' = head_even
            BY <1>1, <1>5, <2>1 DEF MoveHeads
        <3>2. ~OddFirst'
            BY <1>2, <1>3, <2>1, <3>1 DEF OddFirst, OddLarger
        <3> QED BY <1>5, <2>1, <3>1, <3>2, HeadsStay DEF Candidate1, Candidate2
    <2>2. CASE ~OddFirst
        <3>1. head_odd' = head_odd /\ head_even' = Pop(head_even)
            BY <1>1, <1>5, <2>2 DEF MoveHeads
        <3>2. OddFirst'
            BY <1>2, <2>2, <3>1 DEF OddFirst, OddLarger
        <3> QED BY <1>5, <2>2, <3>1, <3>2, HeadsStay DEF Candidate1, Candidate2
    <2> QED BY <2>1, <2>2
<1> QED BY <1>4, <1>5

LEMMA SlotStep ==
  ASSUME IInv, BranchWithSlot, NEW hz \in HazardInputs, NEW r1 \in BOOLEAN,
         NEW r2 \in BOOLEAN, NEW ds \in Bundles, Tick(hz, r1, r2, ds)
  PROVE  BranchWithSlot'
<1> DEFINE s == Control(hz)
<1>1. LoadIE(s, Issued(r1, r2))
    BY DEF Tick
<1>2. CASE "flush_que" \in s
    BY <1>2, FlushCycle DEF BranchWithSlot
<1>3. CASE "flush_que" \notin s /\ ~Draining(s)
    <2>1. dataI' = dataI
        BY <1>1, <1>3, ControlFacts DEF LoadIE
    <2>2. Valid(Candidate1) => Candidate1' = Candidate1
        BY <1>3, NextCandidate
    <2> QED BY <2>1, <2>2 DEF BranchWithSlot
<1>4. CASE "flush_que" \notin s /\ Draining(s)
    <2>1. dataI' = Issued(r1, r2)
        BY <1>1, <1>4, ControlFacts DEF LoadIE
    <2>2. CASE IssueEn2(r1, r2)
        <3>1. dataI' = <<Candidate1, Candidate2>>
            BY <2>1, <2>2 DEF Issued
        <3>2. Valid(Candidate1) /\ Valid(Candidate2)
            BY <2>2 DEF IssueEn2, IssueEn1
        <3>3. Candidate1.serial = popped /\ Candidate2.serial = popped + 1
            BY <3>2, Candidates
        <3> QED BY <3>1, <3>3 DEF BranchWithSlot
    <2>3. CASE IssueEn1(r1, r2) /\ ~IssueEn2(r1, r2)
        <3>1. dataI' = <<Candidate1>>
            BY <2>1, <2>3 DEF Issued
        <3>2. ASSUME Redirecting(Candidate1)
              PROVE  /\ Valid(Candidate2) /\ Conflict(Candidate1, Candidate2)
                     /\ Candidate2.serial = Candidate1.serial + 1
                     /\ Candidate1' = Candidate2
            <4>1. Valid(Candidate1) /\ Valid(Candidate2) /\ r2
                BY <2>3, <3>2 DEF IssueEn1
            <4>2. Conflict(Candidate1, Candidate2)
                BY <2>3, <4>1 DEF IssueEn2
            <4> QED BY <1>4, <2>3, <4>1, <4>2, Candidates, NextCandidate
        <3>3. dataI'[1] = Candidate1 /\ Len(dataI') = 1
            BY <3>1
        <3> QED BY <3>2, <3>3 DEF BranchWithSlot
    <2>4. CASE ~IssueEn1(r1, r2)
        <3>1. dataI' = <<>>
            BY <2>1, <2>4 DEF Issued, IssueEn2
        <3> QED BY <3>1 DEF BranchWithSlot
    <2> QED BY <2>2, <2>3, <2>4
<1> QED BY <1>2, <1>3, <1>4

(* A branch or jump never leaves the queue before its delay slot is there: *)
(* the slot goes with it, or is the next candidate and one that the        *)
(* pairing rules refuse (issue.sv:103-104).                                *)
THEOREM BranchKeepsSlot == Spec => []BranchWithSlot
<1>1. Init => BranchWithSlot
    BY DEF Init, BranchWithSlot
<1>2. IInv /\ BranchWithSlot /\ [Next]_vars => BranchWithSlot'
    <2> SUFFICES ASSUME IInv, BranchWithSlot, [Next]_vars PROVE BranchWithSlot'
        OBVIOUS
    <2>1. CASE Next
        <3>1. PICK hz \in HazardInputs, r1 \in BOOLEAN, r2 \in BOOLEAN,
                   ds \in Bundles : Tick(hz, r1, r2, ds)
            BY <2>1 DEF Next
        <3> QED BY <3>1, SlotStep
    <2>2. CASE UNCHANGED vars
        BY <2>2 DEF vars, ptrVars, BranchWithSlot, Candidate1, OddFirst, HeadOdd,
           HeadEven
    <2> QED BY <2>1, <2>2
<1> QED BY <1>1, <1>2, Invariance, PTL DEF Spec
=============================================================================
