--------------------------- MODULE Operands_proofs ---------------------------
(***************************************************************************)
(* Proofs about the operands, for every set of instructions, every delay   *)
(* of the divider and every bound on the writers.                          *)
(***************************************************************************)
EXTENDS Operands, FiniteSetTheorems, TLAPS

-----------------------------------------------------------------------------
(* The inductive invariant.                                                *)

(* The writers in a bundle, and the youngest of them. *)
Count(b)    == Weight(b[0]) + Weight(b[1])
Youngest(b) == IF IsWriter(b[0]) THEN b[0] ELSE b[1]

(* The writers in the pipeline. *)
Total == Count(dataI) + Count(dataE) + Count(dataM1) + Count(dataM2) + Count(dataM3)

(* Writer b[i] of a bundle behind n younger writers has its age. *)
AgesOf(b, n) ==
  /\ IsWriter(b[0]) => b[0].age = n
  /\ IsWriter(b[1]) => b[1].age = n + Weight(b[0])

(* The ages count the younger writers in the pipeline. *)
AgesExact ==
  /\ AgesOf(dataI, 0)
  /\ AgesOf(dataE, Count(dataI))
  /\ AgesOf(dataM1, Count(dataI) + Count(dataE))
  /\ AgesOf(dataM2, Count(dataI) + Count(dataE) + Count(dataM1))
  /\ AgesOf(dataM3, Count(dataI) + Count(dataE) + Count(dataM1) + Count(dataM2))
  /\ regs = Total

(* An instruction in execute that reads needs the value of the youngest    *)
(* writer behind execute: none of its own bundle writes before it does.    *)
NeedsOf(b) ==
  \A i \in Slots : b[i] # None /\ b[i].reads => b[i].need = Count(b)

(* What it has read or saved. *)
Kept(i) == IF saved[i] # None THEN saved[i] ELSE dataI[i].rd

(* The youngest writer behind execute is in no stage that execute takes it *)
(* from.                                                                   *)
Gone ==
  /\ Count(dataE) = 0 /\ Count(dataM1) = 0 /\ Count(dataM2) = 0
  /\ Count(dataM3) > 0 => ~Delayed(Youngest(dataM3))

(* The value it needs can be bypassed, or it has got it. *)
Available ==
  \A i \in Slots : dataI[i] # None /\ dataI[i].reads /\ ~dataI[i].missed =>
    /\ Count(dataE) > 0 => ~Delayed(Youngest(dataE))
    /\ Count(dataE) = 0 /\ Count(dataM1) > 0 => ~Delayed(Youngest(dataM1))
    /\ Count(dataE) = 0 /\ Count(dataM1) = 0 /\ Count(dataM2) > 0 =>
         ~Delayed(Youngest(dataM2))
    /\ Gone => Kept(i) = Count(dataI)

(* Behind a conditional move that failed it has read too old a value, but   *)
(* what is bypassed since is right.                                        *)
TooOld ==
  \A i \in Slots : dataI[i] # None /\ dataI[i].missed =>
    /\ dataI[i].reads /\ dataI[i].rd > Count(dataI)
    /\ saved[i] # None => saved[i] = Count(dataI)

(* The bound on the writers. *)
Bounded ==
  /\ Total <= MaxWriters /\ (IsWriter(head) => Total < MaxWriters)
  /\ \A i \in Slots : saved[i] # None => saved[i] \in (Total - 10)..10

(* The multi-cycle units work for the instruction in execute. *)
Units ==
  /\ mult = "DOING" /\ Judged("mul") => mult_of
  /\ ~FlushDividing => /\ count > 0 => Uses("div") # {} /\ (Judged("div") => div_of)
                       /\ taken => Uses("div") = {}

OperandInv ==
  /\ TypeOK /\ AgesExact /\ NeedsOf(dataI) /\ Available /\ TooOld
  /\ Bounded /\ Units

-----------------------------------------------------------------------------
(* Writers.                                                                *)

LEMMA SlotsAre == 0 \in Slots /\ 1 \in Slots /\ \A i \in Slots : i = 0 \/ i = 1
BY DEF Slots

LEMMA WeightIs ==
  ASSUME NEW x
  PROVE  /\ Weight(x) \in {0, 1} /\ (Weight(x) = 1 <=> IsWriter(x))
         /\ Weight(x) = 0 <=> ~IsWriter(x)
BY DEF Weight

LEMMA CountIs ==
  ASSUME NEW b
  PROVE  /\ Count(b) \in 0..2
         /\ Count(b) = 0 <=> ~IsWriter(b[0]) /\ ~IsWriter(b[1])
         /\ Count(b) > 0 <=> Writers(b) # {}
         /\ Count(b) > 0 <=> IsWriter(b[0]) \/ IsWriter(b[1])
         /\ Count(b) > 0 => IsWriter(Youngest(b))
         /\ Writers(b) # {} => b[Min(Writers(b))] = Youngest(b)
         /\ Cardinality(Writers(b)) = Count(b)
<1>1. /\ Weight(b[0]) \in {0, 1} /\ (Weight(b[0]) = 1 <=> IsWriter(b[0]))
      /\ Weight(b[1]) \in {0, 1} /\ (Weight(b[1]) = 1 <=> IsWriter(b[1]))
  BY WeightIs
<1>2. /\ 0 \in Writers(b) <=> IsWriter(b[0])
      /\ 1 \in Writers(b) <=> IsWriter(b[1])
      /\ Writers(b) \subseteq {0, 1}
  BY SlotsAre DEF Writers, Slots
<1>3. Cardinality({}) = 0 /\ IsFiniteSet({}) /\ Cardinality({0}) = 1
      /\ Cardinality({1}) = 1 /\ IsFiniteSet({0}) /\ Cardinality({0} \union {1}) = 2
  <2>1. Cardinality({}) = 0 /\ IsFiniteSet({})
    BY FS_EmptySet
  <2>2. Cardinality({0}) = 1 /\ IsFiniteSet({0}) /\ Cardinality({1}) = 1
    BY FS_Singleton
  <2>3. Cardinality({0} \union {1}) = 2
    BY <2>2, FS_AddElement
  <2>4. QED
    BY <2>1, <2>2, <2>3
<1>4. Cardinality(Writers(b)) = Count(b)
  <2>1. CASE IsWriter(b[0]) /\ IsWriter(b[1])
    <3>1. Writers(b) = {0} \union {1}
      BY <1>2, <2>1
    <3>2. QED
      BY <1>1, <1>3, <2>1, <3>1 DEF Count
  <2>2. CASE IsWriter(b[0]) /\ ~IsWriter(b[1])
    <3>1. Writers(b) = {0}
      BY <1>2, <2>2
    <3>2. QED
      BY <1>1, <1>3, <2>2, <3>1 DEF Count
  <2>3. CASE ~IsWriter(b[0]) /\ IsWriter(b[1])
    <3>1. Writers(b) = {1}
      BY <1>2, <2>3
    <3>2. QED
      BY <1>1, <1>3, <2>3, <3>1 DEF Count
  <2>4. CASE ~IsWriter(b[0]) /\ ~IsWriter(b[1])
    <3>1. Writers(b) = {}
      BY <1>2, <2>4
    <3>2. QED
      BY <1>1, <1>3, <2>4, <3>1 DEF Count
  <2>5. QED
    BY <2>1, <2>2, <2>3, <2>4
<1>5. ASSUME Writers(b) # {}
      PROVE  b[Min(Writers(b))] = Youngest(b)
  <2>1. CASE IsWriter(b[0])
    <3>1. Min(Writers(b)) = 0
      BY <1>2, <2>1 DEF Min
    <3>2. QED
      BY <2>1, <3>1 DEF Youngest
  <2>2. CASE ~IsWriter(b[0])
    <3>1. Writers(b) = {1}
      BY <1>2, <1>5, <2>2
    <3>2. Min(Writers(b)) = 1
      BY <3>1 DEF Min
    <3>3. QED
      BY <2>2, <3>2 DEF Youngest
  <2>3. QED
    BY <2>1, <2>2
<1>6. Writers(b) # {} <=> IsWriter(b[0]) \/ IsWriter(b[1])
  BY <1>2
<1>7. QED
  BY <1>1, <1>4, <1>5, <1>6 DEF Count, Youngest

LEMMA CountTo ==
  ASSUME NEW T, NEW k \in 1..8, IsFiniteSet(T \intersect (1..(k - 1)))
  PROVE  /\ IsFiniteSet(T \intersect (1..k))
         /\ Cardinality(T \intersect (1..k)) =
              Cardinality(T \intersect (1..(k - 1))) + (IF k \in T THEN 1 ELSE 0)
<1>1. CASE k \in T
  <2>1. T \intersect (1..k) = (T \intersect (1..(k - 1))) \union {k}
    BY <1>1
  <2>2. k \notin T \intersect (1..(k - 1))
    OBVIOUS
  <2>3. QED
    BY <1>1, <2>1, <2>2, FS_AddElement
<1>2. CASE k \notin T
  <2> DEFINE A == T \intersect (1..k)
             B == T \intersect (1..(k - 1))
  <2>1. A = B
    BY <1>2
  <2>2. Cardinality(B) \in Nat /\ IsFiniteSet(B)
    BY FS_CardinalityType
  <2> HIDE DEF A, B
  <2>3. IsFiniteSet(A) /\ Cardinality(A) = Cardinality(B) + 0
    BY <2>1, <2>2
  <2>4. QED
    BY <1>2, <2>3 DEF A, B
<1>3. QED
  BY <1>1, <1>2

(* The eight places behind execute. *)
LEMMA PlacesAre ==
  ASSUME NEW e, NEW m1, NEW m2, NEW m3
  PROVE  LET P(k) == <<e, m1, m2, m3>>[(k + 1) \div 2][(k + 1) % 2]
         IN  /\ P(1) = e[0] /\ P(2) = e[1] /\ P(3) = m1[0] /\ P(4) = m1[1]
             /\ P(5) = m2[0] /\ P(6) = m2[1] /\ P(7) = m3[0] /\ P(8) = m3[1]
<1>1. /\ (1 + 1) \div 2 = 1 /\ (1 + 1) % 2 = 0 /\ (2 + 1) \div 2 = 1 /\ (2 + 1) % 2 = 1
      /\ (3 + 1) \div 2 = 2 /\ (3 + 1) % 2 = 0 /\ (4 + 1) \div 2 = 2 /\ (4 + 1) % 2 = 1
      /\ (5 + 1) \div 2 = 3 /\ (5 + 1) % 2 = 0 /\ (6 + 1) \div 2 = 3 /\ (6 + 1) % 2 = 1
      /\ (7 + 1) \div 2 = 4 /\ (7 + 1) % 2 = 0 /\ (8 + 1) \div 2 = 4 /\ (8 + 1) % 2 = 1
  OBVIOUS
<1>2. /\ <<e, m1, m2, m3>>[1] = e /\ <<e, m1, m2, m3>>[2] = m1
      /\ <<e, m1, m2, m3>>[3] = m2 /\ <<e, m1, m2, m3>>[4] = m3
  OBVIOUS
<1>3. QED
  BY <1>1, <1>2

LEMMA CountPlaces ==
  ASSUME NEW e, NEW m1, NEW m2, NEW m3, NEW T,
         T = {k \in 1..8 : IsWriter(<<e, m1, m2, m3>>[(k + 1) \div 2][(k + 1) % 2])}
  PROVE  /\ Cardinality(T) = Count(e) + Count(m1) + Count(m2) + Count(m3)
         /\ T \subseteq 1..8
         /\ (1 \in T <=> IsWriter(e[0])) /\ (2 \in T <=> IsWriter(e[1]))
         /\ (3 \in T <=> IsWriter(m1[0])) /\ (4 \in T <=> IsWriter(m1[1]))
         /\ (5 \in T <=> IsWriter(m2[0])) /\ (6 \in T <=> IsWriter(m2[1]))
         /\ (7 \in T <=> IsWriter(m3[0])) /\ (8 \in T <=> IsWriter(m3[1]))
<1> DEFINE P(k) == <<e, m1, m2, m3>>[(k + 1) \div 2][(k + 1) % 2]
<1>1. T = {k \in 1..8 : IsWriter(P(k))}
  OBVIOUS
<1>2. /\ P(1) = e[0] /\ P(2) = e[1] /\ P(3) = m1[0] /\ P(4) = m1[1]
      /\ P(5) = m2[0] /\ P(6) = m2[1] /\ P(7) = m3[0] /\ P(8) = m3[1]
  BY PlacesAre
<1> HIDE DEF P
<1>3. /\ (1 \in T <=> IsWriter(e[0])) /\ (2 \in T <=> IsWriter(e[1]))
      /\ (3 \in T <=> IsWriter(m1[0])) /\ (4 \in T <=> IsWriter(m1[1]))
      /\ (5 \in T <=> IsWriter(m2[0])) /\ (6 \in T <=> IsWriter(m2[1]))
      /\ (7 \in T <=> IsWriter(m3[0])) /\ (8 \in T <=> IsWriter(m3[1]))
      /\ T \subseteq 1..8
  BY <1>1, <1>2
<1> DEFINE A(k) == T \intersect (1..k)
           W(k) == IF k \in T THEN 1 ELSE 0
<1>4. \A k \in 1..8 : IsFiniteSet(A(k - 1)) =>
        IsFiniteSet(A(k)) /\ Cardinality(A(k)) = Cardinality(A(k - 1)) + W(k)
  BY CountTo
<1>5. A(0) = {} /\ IsFiniteSet(A(0)) /\ Cardinality(A(0)) = 0
  <2>1. A(0) = {}
    OBVIOUS
  <2>2. QED
    BY <2>1, FS_EmptySet
<1>6. A(8) = T
  BY <1>3
<1>7. \A k : W(k) \in {0, 1}
  OBVIOUS
<1> HIDE DEF A
<1>8. IsFiniteSet(A(1)) /\ Cardinality(A(1)) = W(1)
  BY <1>4, <1>5, <1>7
<1>9. IsFiniteSet(A(2)) /\ Cardinality(A(2)) = W(1) + W(2)
  BY <1>4, <1>8
<1>10. IsFiniteSet(A(3)) /\ Cardinality(A(3)) = W(1) + W(2) + W(3)
  BY <1>4, <1>9
<1>11. IsFiniteSet(A(4)) /\ Cardinality(A(4)) = W(1) + W(2) + W(3) + W(4)
  BY <1>4, <1>10
<1>12. IsFiniteSet(A(5)) /\ Cardinality(A(5)) = W(1) + W(2) + W(3) + W(4) + W(5)
  BY <1>4, <1>11
<1>13. /\ IsFiniteSet(A(6))
       /\ Cardinality(A(6)) = W(1) + W(2) + W(3) + W(4) + W(5) + W(6)
  BY <1>4, <1>12
<1>14. /\ IsFiniteSet(A(7))
       /\ Cardinality(A(7)) = W(1) + W(2) + W(3) + W(4) + W(5) + W(6) + W(7)
  BY <1>4, <1>13
<1>15. Cardinality(A(8)) = W(1) + W(2) + W(3) + W(4) + W(5) + W(6) + W(7) + W(8)
  BY <1>4, <1>14
<1>16. /\ W(1) + W(2) = Count(e) /\ W(3) + W(4) = Count(m1)
       /\ W(5) + W(6) = Count(m2) /\ W(7) + W(8) = Count(m3)
  BY <1>3 DEF Count, Weight
<1>17. /\ W(1) \in Int /\ W(2) \in Int /\ W(3) \in Int /\ W(4) \in Int
       /\ W(5) \in Int /\ W(6) \in Int /\ W(7) \in Int /\ W(8) \in Int
  OBVIOUS
<1> HIDE DEF W
<1>18. Cardinality(A(8)) = Count(e) + Count(m1) + Count(m2) + Count(m3)
  BY <1>15, <1>16, <1>17
<1>19. QED
  BY <1>3, <1>6, <1>18

LEMMA InFlightIs == InFlight = Total
<1>1. /\ Cardinality(Writers(dataI)) = Count(dataI)
      /\ Cardinality(Matches) =
           Count(dataE) + Count(dataM1) + Count(dataM2) + Count(dataM3)
  BY CountIs, CountPlaces DEF Matches, Place, later
<1>2. QED
  BY <1>1, CountIs DEF InFlight, Total

LEMMA InFlightIsNext == InFlight' = Total'
<1>1. /\ Cardinality(Writers(dataI')) = Count(dataI')
      /\ Cardinality(Matches') =
           Count(dataE') + Count(dataM1') + Count(dataM2') + Count(dataM3')
  BY CountIs, CountPlaces DEF Matches, Place, later
<1>2. QED
  BY <1>1, CountIs DEF InFlight, Total

(* The youngest writer behind execute. *)
LEMMA FirstIs ==
  /\ Count(dataE) > 0 =>
       /\ Matches # {} /\ First = Youngest(dataE)
       /\ InE(Min(Matches)) /\ ~InM1(Min(Matches)) /\ ~InM3(Min(Matches))
  /\ Count(dataE) = 0 /\ Count(dataM1) > 0 =>
       /\ Matches # {} /\ First = Youngest(dataM1)
       /\ ~InE(Min(Matches)) /\ InM1(Min(Matches)) /\ ~InM3(Min(Matches))
  /\ Count(dataE) = 0 /\ Count(dataM1) = 0 /\ Count(dataM2) > 0 =>
       /\ Matches # {} /\ First = Youngest(dataM2)
       /\ ~InE(Min(Matches)) /\ ~InM1(Min(Matches)) /\ ~InM3(Min(Matches))
  /\ /\ Count(dataE) = 0 /\ Count(dataM1) = 0 /\ Count(dataM2) = 0
     /\ Count(dataM3) > 0
     => /\ Matches # {} /\ First = Youngest(dataM3)
        /\ ~InE(Min(Matches)) /\ ~InM1(Min(Matches)) /\ InM3(Min(Matches))
  /\ /\ Count(dataE) = 0 /\ Count(dataM1) = 0 /\ Count(dataM2) = 0
     /\ Count(dataM3) = 0
     => Matches = {}
<1>1. /\ Matches \subseteq 1..8
      /\ (1 \in Matches <=> IsWriter(dataE[0])) /\ (2 \in Matches <=> IsWriter(dataE[1]))
      /\ (3 \in Matches <=> IsWriter(dataM1[0])) /\ (4 \in Matches <=> IsWriter(dataM1[1]))
      /\ (5 \in Matches <=> IsWriter(dataM2[0])) /\ (6 \in Matches <=> IsWriter(dataM2[1]))
      /\ (7 \in Matches <=> IsWriter(dataM3[0])) /\ (8 \in Matches <=> IsWriter(dataM3[1]))
  BY CountPlaces DEF Matches, Place, later
<1>2. /\ Place(1) = dataE[0] /\ Place(2) = dataE[1]
      /\ Place(3) = dataM1[0] /\ Place(4) = dataM1[1]
      /\ Place(5) = dataM2[0] /\ Place(6) = dataM2[1]
      /\ Place(7) = dataM3[0] /\ Place(8) = dataM3[1]
  BY PlacesAre DEF Place, later
<1>3. ASSUME NEW k \in Matches, \A j \in 1..8 : j < k => j \notin Matches
      PROVE  Min(Matches) = k
  <2>1. \A y \in Matches : k <= y
    BY <1>1, <1>3
  <2>2. \A x \in Matches : (\A y \in Matches : x <= y) => x = k
    BY <1>1, <2>1
  <2>3. QED
    BY <2>1, <2>2 DEF Min
<1>4. CASE Count(dataE) > 0
  <2>1. Min(Matches) = IF IsWriter(dataE[0]) THEN 1 ELSE 2
    BY <1>1, <1>3, <1>4, CountIs
  <2>2. QED
    BY <1>1, <1>2, <1>4, <2>1, CountIs DEF First, Youngest, InE, InM1, InM3
<1>5. CASE Count(dataE) = 0 /\ Count(dataM1) > 0
  <2>1. Min(Matches) = IF IsWriter(dataM1[0]) THEN 3 ELSE 4
    BY <1>1, <1>3, <1>5, CountIs
  <2>2. QED
    BY <1>1, <1>2, <1>5, <2>1, CountIs DEF First, Youngest, InE, InM1, InM3
<1>6. CASE Count(dataE) = 0 /\ Count(dataM1) = 0 /\ Count(dataM2) > 0
  <2>1. Min(Matches) = IF IsWriter(dataM2[0]) THEN 5 ELSE 6
    BY <1>1, <1>3, <1>6, CountIs
  <2>2. QED
    BY <1>1, <1>2, <1>6, <2>1, CountIs DEF First, Youngest, InE, InM1, InM3
<1>7. CASE /\ Count(dataE) = 0 /\ Count(dataM1) = 0 /\ Count(dataM2) = 0
           /\ Count(dataM3) > 0
  <2>1. Min(Matches) = IF IsWriter(dataM3[0]) THEN 7 ELSE 8
    BY <1>1, <1>3, <1>7, CountIs
  <2>2. QED
    BY <1>1, <1>2, <1>7, <2>1, CountIs DEF First, Youngest, InE, InM1, InM3
<1>8. CASE /\ Count(dataE) = 0 /\ Count(dataM1) = 0 /\ Count(dataM2) = 0
           /\ Count(dataM3) = 0
  BY <1>1, <1>8, CountIs
<1>9. QED
  BY <1>4, <1>5, <1>6, <1>7, <1>8, CountIs

-----------------------------------------------------------------------------
(* The signals of the hazard unit.                                         *)

LEMMA HazardSignals ==
  ASSUME NEW in \in SUBSET {"excpW", "d_wait", "branchM", "e_wait"}, NEW out,
         out = Signals(in, FALSE)
  PROVE  /\ "excpW" \in in =>
              /\ {"flushE", "flushM", "flushM2", "flushM3", "flushW", "flush_que"}
                   \subseteq out
              /\ "stallE" \notin out
         /\ "excpW" \notin in /\ "d_wait" \in in =>
              /\ {"stallE", "stallM", "stallM2", "flushM3"} \subseteq out
              /\ {"flushE", "flushM", "flushM2", "flushW", "flush_que"}
                   \intersect out = {}
         /\ "excpW" \notin in /\ "d_wait" \notin in /\ "branchM" \in in =>
              /\ {"flushE", "flushM", "flush_que"} \subseteq out
              /\ {"flushM2", "flushM3", "flushW", "stallE", "stallM2"}
                   \intersect out = {}
         /\ in = {"e_wait"} =>
              /\ {"stallE", "flushM"} \subseteq out
              /\ {"flushE", "flushM2", "flushM3", "flushW", "stallM2", "flush_que"}
                   \intersect out = {}
         /\ in = {} => out = {}
<1>1. out = Chain(in)
  BY DEF Signals
<1>2. ASSUME "excpW" \in in
      PROVE  Chain(in) = FrontFlush \union {"flushM3", "flushM2", "flushW"}
                           \union HoldFetch(in)
  BY <1>2 DEF Chain, Redirects
<1>3. ASSUME "excpW" \notin in, "d_wait" \in in
      PROVE  Chain(in) = {"stallF", "stallF2", "stallD", "stallI", "stallI_de",
                          "stallE", "stallM", "stallM2", "flushM3"}
  BY <1>3 DEF Chain, Redirects
<1>4. ASSUME "excpW" \notin in, "d_wait" \notin in, "branchM" \in in
      PROVE  Chain(in) = FrontFlush \union HoldFetch(in)
  <2>1. Redirects(in)
    BY <1>4 DEF Redirects
  <2>2. QED
    BY <1>4, <2>1 DEF Chain
<1>5. ASSUME in = {"e_wait"}
      PROVE  Chain(in) = {"stallF", "stallF2", "stallD", "stallI", "stallI_de",
                          "stallE", "flushM"}
  <2>1. ~Redirects(in) /\ "excpW" \notin in /\ "d_wait" \notin in /\ "e_wait" \in in
    BY <1>5 DEF Redirects
  <2>2. QED
    BY <2>1 DEF Chain
<1>6. ASSUME in = {}
      PROVE  Chain(in) = {}
  <2>1. ~Redirects(in)
    BY <1>6 DEF Redirects
  <2>2. QED
    BY <1>6, <2>1 DEF Chain
<1>7. HoldFetch(in) \subseteq {"stallF"}
  BY DEF HoldFetch
<1>8. CASE "excpW" \in in
  <2>1. /\ {"flushE", "flushM", "flushM2", "flushM3", "flushW", "flush_que"}
             \subseteq out
        /\ "stallE" \notin out
    BY <1>1, <1>2, <1>7, <1>8 DEF FrontFlush
  <2>2. in # {"e_wait"} /\ in # {}
    BY <1>8
  <2>3. QED
    BY <1>8, <2>1, <2>2
<1>9. CASE "excpW" \notin in /\ "d_wait" \in in
  <2>1. /\ {"stallE", "stallM", "stallM2", "flushM3"} \subseteq out
        /\ {"flushE", "flushM", "flushM2", "flushW", "flush_que"} \intersect out = {}
    BY <1>1, <1>3, <1>9
  <2>2. in # {"e_wait"} /\ in # {}
    BY <1>9
  <2>3. QED
    BY <1>9, <2>1, <2>2
<1>10. CASE "excpW" \notin in /\ "d_wait" \notin in /\ "branchM" \in in
  <2>1. /\ {"flushE", "flushM", "flush_que"} \subseteq out
        /\ {"flushM2", "flushM3", "flushW", "stallE", "stallM2"} \intersect out = {}
    BY <1>1, <1>4, <1>7, <1>10 DEF FrontFlush
  <2>2. QED
    BY <1>10, <2>1
<1>11. CASE in = {"e_wait"}
  <2>1. /\ {"stallE", "flushM"} \subseteq out
        /\ {"flushE", "flushM2", "flushM3", "flushW", "stallM2", "flush_que"}
             \intersect out = {}
    BY <1>1, <1>5, <1>11
  <2>2. QED
    BY <1>11, <2>1
<1>12. CASE in = {}
  BY <1>1, <1>6, <1>12
<1>13. \/ "excpW" \in in \/ "d_wait" \in in \/ "branchM" \in in
       \/ in = {"e_wait"} \/ in = {}
  OBVIOUS
<1>14. QED
  BY <1>8, <1>9, <1>10, <1>11, <1>12, <1>13

-----------------------------------------------------------------------------
(* What a cycle does; n is by how much the ages grow.                      *)

(* The last stage redirects: everything is flushed. *)
Flushes(kept, n) ==
  /\ n = Cardinality(kept \intersect Writers(dataM3)) - Total
  /\ dataI' = NoBundle /\ dataE' = NoBundle /\ dataM1' = NoBundle
  /\ dataM2' = NoBundle /\ dataM3' = NoBundle
  /\ taken' = FALSE /\ UnitsClock(FALSE)
  /\ ~FlushDividing => Uses("div") = {}
  /\ HeadClock

Moves(n) ==
  dataM1' = Aged(dataE, n) /\ dataM2' = Aged(dataM1, n) /\ dataM3' = Aged(dataM2, n)

(* The data cache makes execute wait. *)
Holds(n) ==
  /\ n = 0
  /\ dataI' = dataI /\ dataE' = Aged(dataE, n) /\ dataM1' = Aged(dataM1, n)
  /\ dataM2' = NoBundle /\ dataM3' = Aged(dataM2, n)
  /\ taken' = taken /\ UnitsClock(TRUE)
  /\ IF head = None THEN HeadClock ELSE head' = head

(* A mispredicted branch flushes what is behind it. *)
Branches(n) ==
  /\ n = -Count(dataI)
  /\ dataI' = NoBundle /\ dataE' = NoBundle /\ Moves(n)
  /\ taken /\ taken' = FALSE /\ UnitsClock(FALSE)
  /\ HeadClock

(* A unit makes execute wait. *)
Waits(n) ==
  /\ n = 0 /\ EWait
  /\ dataI' = dataI /\ dataE' = NoBundle /\ Moves(n)
  /\ taken' = FALSE /\ UnitsClock(TRUE)
  /\ IF head = None THEN HeadClock ELSE head' = head

(* A bundle, possibly an empty one, is issued; the conditional moves        *)
(* `failed' leave execute without a result.                                 *)
Advances(c2, failed, n) ==
  /\ n = Count(IssuedBundle(c2, failed)) - Cardinality(failed) /\ ~EWait
  /\ dataI' = IssuedBundle(c2, failed)
  /\ dataE' = Aged(Results(dataI, failed), n) /\ Moves(n)
  /\ UnitsClock(FALSE)
  /\ taken' \in BOOLEAN /\ (taken' => FlushDividing \/ Uses("div")' = {})
  /\ IF head = None \/ IssuedBundle(c2, failed)[1] # None THEN HeadClock ELSE head' = head

(* Registers and saved values, as all cycles treat them. *)
Values(kept, wait, n) == RegfileClock(kept, n) /\ SavedClock(wait, n)

LEMMA AgedNone ==
  ASSUME NEW n
  PROVE  Aged(NoBundle, n) = NoBundle
BY DEF Aged, NoBundle

LEMMA NoBundleIs ==
  /\ NoBundle[0] = None /\ NoBundle[1] = None
  /\ Count(NoBundle) = 0 /\ Writers(NoBundle) = {}
  /\ \A i \in Slots : NoBundle[i] = None
<1>1. /\ NoBundle[0] = None /\ NoBundle[1] = None
      /\ \A i \in Slots : NoBundle[i] = None
  BY SlotsAre DEF NoBundle
<1>2. ~IsWriter(None)
  BY DEF IsWriter
<1>3. QED
  BY <1>1, <1>2 DEF Count, Weight, Writers

LEMMA CycleCases ==
  ASSUME NEW d_wait \in BOOLEAN, NEW excpW \in BOOLEAN, NEW kept,
         taken \in BOOLEAN, Clock(d_wait, excpW, kept)
  PROVE  /\ moved' \in {"issued", "free", "stalled"}
         /\ \E n :
              /\ Values(kept, d_wait \/ EWait, n)
              /\ \/ excpW /\ Flushes(kept, n)
                 \/ ~excpW /\ d_wait /\ Holds(n)
                 \/ ~excpW /\ ~d_wait /\ Branches(n)
                 \/ ~excpW /\ ~d_wait /\ Waits(n)
                 \/ ~excpW /\ ~d_wait
                    /\ \E c2 \in Candidates, failed \in SUBSET Conditional :
                         Advances(c2, failed, n)
<1> DEFINE in     == {c \in Conditions : \/ c = "excpW" /\ excpW
                                         \/ c = "d_wait" /\ d_wait
                                         \/ c = "branchM" /\ taken
                                         \/ c = "e_wait" /\ EWait}
           out    == Signals(in, FALSE)
           loads  == {"flushE", "stallE"} \intersect out = {}
           leaves == {"flushM", "stallM"} \intersect out = {}
           killed == CASE excpW -> InFlight - Cardinality(kept \intersect Writers(dataM3))
                       [] ~excpW /\ "flushE" \in out -> Cardinality(Writers(dataI))
                       [] OTHER -> 0
           new(c2, f) == IF loads THEN IssuedBundle(c2, f) ELSE NoBundle
           n(c2, f)   == Cardinality(Writers(new(c2, f))) - killed - Cardinality(f)
<1>1. PICK c2 \in IF loads THEN Candidates ELSE {None},
           failed \in IF leaves THEN SUBSET Conditional ELSE {{}} :
        /\ PipelineClock(out, new(c2, failed), failed, n(c2, failed))
        /\ RegfileClock(kept, n(c2, failed))
        /\ SavedClock(d_wait \/ EWait, n(c2, failed))
        /\ UnitsClock("stallE" \in out)
        /\ taken' \in CASE "flushM" \in out -> {FALSE}
                        [] out \intersect {"flushM", "stallM"} = {"stallM"} -> {taken}
                        [] OTHER -> {FALSE, dataI[1] # None /\ dataI[1].branch}
        /\ taken' => FlushDividing \/ Uses("div")' = {}
        /\ IF head = None \/ "flush_que" \in out \/ new(c2, failed)[1] # None
           THEN HeadClock /\ moved' = "issued"
           ELSE /\ UNCHANGED head
                /\ moved' = IF loads /\ c2 # None /\ ~c2.reads
                            THEN "free" ELSE "stalled"
  BY DEF Clock
<1>2. excpW /\ Uses("div") # {} => FlushDividing
  BY DEF Clock
<1>3. /\ in \in SUBSET {"excpW", "d_wait", "branchM", "e_wait"}
      /\ "excpW" \in in <=> excpW
      /\ "d_wait" \in in <=> d_wait
      /\ "branchM" \in in <=> taken
      /\ "e_wait" \in in <=> EWait
  BY DEF Conditions
<1> DEFINE N == n(c2, failed)
           B == new(c2, failed)
<1>4. /\ N = Cardinality(Writers(B)) - killed - Cardinality(failed)
      /\ PipelineClock(out, B, failed, N) /\ Values(kept, d_wait \/ EWait, N)
      /\ UnitsClock("stallE" \in out)
      /\ "flushM" \in out => taken' = FALSE
      /\ "flushM" \notin out /\ "stallM" \in out => taken' = taken
      /\ taken' \in BOOLEAN /\ (taken' => FlushDividing \/ Uses("div")' = {})
      /\ moved' \in {"issued", "free", "stalled"}
      /\ IF head = None \/ "flush_que" \in out \/ B[1] # None
         THEN HeadClock ELSE head' = head
  <2> DEFINE D == dataI[1] # None /\ dataI[1].branch
             T == CASE "flushM" \in out -> {FALSE}
                    [] out \intersect {"flushM", "stallM"} = {"stallM"} -> {taken}
                    [] OTHER -> {FALSE, D}
  <2>1. taken' \in T
    BY <1>1
  <2>2. /\ "flushM" \in out => T = {FALSE}
        /\ "flushM" \notin out /\ "stallM" \in out => T = {taken}
        /\ "flushM" \notin out /\ "stallM" \notin out =>
             T = {FALSE, D}
    <3> DEFINE F == {FALSE}
               G == {taken}
               H == {FALSE, D}
    <3>1. T = CASE "flushM" \in out -> F
               [] out \intersect {"flushM", "stallM"} = {"stallM"} -> G
               [] OTHER -> H
      OBVIOUS
    <3> HIDE DEF D, T, F, G, H
    <3>2. /\ "flushM" \in out => T = F
          /\ "flushM" \notin out /\ "stallM" \in out => T = G
          /\ "flushM" \notin out /\ "stallM" \notin out => T = H
      BY <3>1
    <3>3. QED
      BY <3>2, Zenon DEF F, G, H
  <2>3. D \in BOOLEAN
    OBVIOUS
  <2> HIDE DEF D
  <2>4. taken' \in BOOLEAN
    BY <2>1, <2>2, <2>3, Zenon
  <2>5. "flushM" \in out => taken' = FALSE
    BY <2>1, <2>2, Zenon
  <2>6. "flushM" \notin out /\ "stallM" \in out => taken' = taken
    BY <2>1, <2>2, Zenon
  <2>7. Values(kept, d_wait \/ EWait, N)
    BY <1>1 DEF Values
  <2>8. moved' \in {"issued", "free", "stalled"}
    BY <1>1, Zenon
  <2>9. IF head = None \/ "flush_que" \in out \/ B[1] # None
        THEN HeadClock ELSE head' = head
    BY <1>1, Zenon
  <2>10. /\ PipelineClock(out, B, failed, N) /\ UnitsClock("stallE" \in out)
         /\ taken' => FlushDividing \/ Uses("div")' = {}
    BY <1>1, Zenon
  <2> HIDE DEF T
  <2>11. N = Cardinality(Writers(B)) - killed - Cardinality(failed)
    OBVIOUS
  <2>12. QED
    BY <2>4, <2>5, <2>6, <2>7, <2>8, <2>9, <2>10, <2>11, Zenon
<1>5. /\ loads => B = IssuedBundle(c2, failed) /\ c2 \in Candidates
      /\ ~loads => B = NoBundle
      /\ leaves => failed \in SUBSET Conditional
      /\ ~leaves => Cardinality(failed) = 0
  <2>1. Cardinality({}) = 0
    BY FS_EmptySet
  <2>2. QED
    BY <1>1, <2>1
<1>6. out = Signals(in, FALSE)
  OBVIOUS
<1> HIDE DEF in, out, n, new, N, B
<1>7. CASE excpW
  <2>1. /\ {"flushE", "flushM", "flushM2", "flushM3", "flushW", "flush_que"}
             \subseteq out
        /\ "stallE" \notin out
    BY <1>3, <1>6, <1>7, HazardSignals
  <2>2. B = NoBundle /\ Cardinality(failed) = 0
    BY <1>5, <2>1
  <2>3. killed = Total - Cardinality(kept \intersect Writers(dataM3))
    BY <1>7, InFlightIs
  <2>4. Cardinality(kept \intersect Writers(dataM3)) \in Nat
    <3>1. Writers(dataM3) \subseteq {0, 1}
      BY DEF Writers, Slots
    <3>2. IsFiniteSet({0} \union {1})
      BY FS_Singleton, FS_AddElement
    <3>3. {0, 1} = {0} \union {1}
      OBVIOUS
    <3>4. kept \intersect Writers(dataM3) \in SUBSET ({0} \union {1})
      BY <3>1
    <3>5. IsFiniteSet(kept \intersect Writers(dataM3))
      BY <3>2, <3>4, FS_Subset
    <3>6. QED
      BY <3>5, FS_CardinalityType
  <2>5. Total \in Nat
    BY CountIs DEF Total
  <2>6. Cardinality(Writers(B)) = 0
    BY <2>2, NoBundleIs, CountIs
  <2>7. N = Cardinality(kept \intersect Writers(dataM3)) - Total
    BY <1>4, <2>2, <2>3, <2>4, <2>5, <2>6
  <2>8. dataI' = NoBundle /\ dataE' = NoBundle /\ dataM1' = NoBundle
        /\ dataM2' = NoBundle /\ dataM3' = NoBundle
    BY <1>4, <2>1, AgedNone DEF PipelineClock, Register
  <2>9. taken' = FALSE /\ HeadClock
    BY <1>4, <2>1
  <2>10. UnitsClock(FALSE)
    <3>1. ("stallE" \in out) = FALSE
      BY <2>1
    <3>2. QED
      BY <1>4, <3>1
  <2>11. Flushes(kept, N)
    BY <1>2, <1>7, <2>7, <2>8, <2>9, <2>10 DEF Flushes
  <2>12. QED
    BY <1>4, <1>7, <2>11
<1>8. CASE ~excpW /\ d_wait
  <2>1. /\ {"stallE", "stallM", "stallM2", "flushM3"} \subseteq out
        /\ {"flushE", "flushM", "flushM2", "flushW", "flush_que"} \intersect out = {}
    BY <1>3, <1>6, <1>8, HazardSignals
  <2>2. B = NoBundle /\ killed = 0 /\ Cardinality(failed) = 0
    BY <1>5, <1>8, <2>1
  <2>3. N = 0
    BY <1>4, <2>2, NoBundleIs, CountIs
  <2>4. dataI' = dataI /\ dataE' = Aged(dataE, N) /\ dataM1' = Aged(dataM1, N)
        /\ dataM2' = NoBundle /\ dataM3' = Aged(dataM2, N)
    BY <1>4, <2>1, AgedNone DEF PipelineClock, Register
  <2>5. taken' = taken /\ IF head = None THEN HeadClock ELSE head' = head
    BY <1>4, <2>1, <2>2, NoBundleIs
  <2>6. UnitsClock(TRUE)
    <3>1. ("stallE" \in out) = TRUE
      BY <2>1
    <3>2. QED
      BY <1>4, <3>1
  <2>7. Holds(N)
    BY <2>3, <2>4, <2>5, <2>6 DEF Holds
  <2>8. QED
    BY <1>4, <1>8, <2>7
<1>9. CASE ~excpW /\ ~d_wait /\ taken
  <2>1. /\ {"flushE", "flushM", "flush_que"} \subseteq out
        /\ {"flushM2", "flushM3", "flushW", "stallE", "stallM2"} \intersect out = {}
    BY <1>3, <1>6, <1>9, HazardSignals
  <2>2. B = NoBundle /\ killed = Count(dataI) /\ Cardinality(failed) = 0
    BY <1>5, <1>9, <2>1, CountIs
  <2>3. N = -Count(dataI)
    BY <1>4, <2>2, NoBundleIs, CountIs
  <2>4. dataI' = NoBundle /\ dataE' = NoBundle /\ Moves(N)
    BY <1>4, <2>1, AgedNone DEF PipelineClock, Register, Moves
  <2>5. taken' = FALSE /\ HeadClock
    BY <1>4, <2>1
  <2>6. UnitsClock(FALSE)
    <3>1. ("stallE" \in out) = FALSE
      BY <2>1
    <3>2. QED
      BY <1>4, <3>1
  <2>7. Branches(N)
    BY <1>9, <2>3, <2>4, <2>5, <2>6 DEF Branches
  <2>8. QED
    BY <1>4, <1>9, <2>7
<1>10. CASE ~excpW /\ ~d_wait /\ ~taken /\ EWait
  <2>0. in = {"e_wait"}
    BY <1>3, <1>10
  <2>1. /\ {"stallE", "flushM"} \subseteq out
        /\ {"flushE", "flushM2", "flushM3", "flushW", "stallM2", "flush_que"}
             \intersect out = {}
    BY <2>0, <1>3, <1>6, HazardSignals
  <2>2. B = NoBundle /\ killed = 0 /\ Cardinality(failed) = 0
    BY <1>5, <1>10, <2>1
  <2>3. N = 0
    BY <1>4, <2>2, NoBundleIs, CountIs
  <2>4. dataI' = dataI /\ dataE' = NoBundle /\ Moves(N)
    BY <1>4, <2>1, AgedNone DEF PipelineClock, Register, Moves
  <2>5. taken' = FALSE /\ IF head = None THEN HeadClock ELSE head' = head
    BY <1>4, <2>1, <2>2, NoBundleIs
  <2>6. UnitsClock(TRUE)
    <3>1. ("stallE" \in out) = TRUE
      BY <2>1
    <3>2. QED
      BY <1>4, <3>1
  <2>7. Waits(N)
    BY <1>10, <2>3, <2>4, <2>5, <2>6 DEF Waits
  <2>8. QED
    BY <1>4, <1>10, <2>7
<1>11. CASE ~excpW /\ ~d_wait /\ ~taken /\ ~EWait
  <2>0. in = {}
    BY <1>3, <1>11
  <2>1. out = {}
    BY <2>0, <1>3, <1>6, HazardSignals
  <2>2. /\ B = IssuedBundle(c2, failed) /\ c2 \in Candidates /\ killed = 0
        /\ failed \in SUBSET Conditional
    BY <1>5, <1>11, <2>1
  <2>3. N = Count(B) - Cardinality(failed)
    BY <1>4, <2>2, CountIs
  <2>4. dataI' = B /\ dataE' = Aged(Results(dataI, failed), N) /\ Moves(N)
    BY <1>4, <2>1 DEF PipelineClock, Register, Moves
  <2>5. IF head = None \/ B[1] # None THEN HeadClock ELSE head' = head
    BY <1>4, <2>1
  <2>6. UnitsClock(FALSE)
    <3>1. ("stallE" \in out) = FALSE
      BY <2>1
    <3>2. QED
      BY <1>4, <3>1
  <2>7. Advances(c2, failed, N)
    BY <1>4, <1>11, <2>2, <2>3, <2>4, <2>5, <2>6 DEF Advances
  <2>8. QED
    BY <1>4, <1>11, <2>2, <2>7
<1>12. QED
  BY <1>7, <1>8, <1>9, <1>10, <1>11

-----------------------------------------------------------------------------
(* Bundles of the later registers.                                         *)

LEMMA WriterIs ==
  /\ \A x \in LaterEntries : IsWriter(x) /\ x # None
  /\ \A x \in LaterEntries \union {None} : IsWriter(x) <=> x # None
  /\ ~IsWriter(None)
  /\ \A x \in Entries \union Instructions : x # None
  /\ \A x \in Entries \union Instructions : IsWriter(x) <=> x.write # "none"
  /\ \A x \in LaterEntries : x.write \in {"alu", "delay"} /\ x.age \in 0..9
<1>1. \A x \in LaterEntries \union Entries \union Instructions : x # None
  BY NoneAssumption
<1>2. \A x \in LaterEntries : x.write \in {"alu", "delay"} /\ x.age \in 0..9
  BY DEF LaterEntries
<1>3. QED
  BY <1>1, <1>2 DEF IsWriter

LEMMA AgedIs ==
  ASSUME NEW b \in [Slots -> LaterEntries \union {None}], NEW n \in Int, NEW m \in Int,
         AgesOf(b, m), m + n >= 0, m + n + Count(b) <= 10
  PROVE  /\ Aged(b, n) \in [Slots -> LaterEntries \union {None}]
         /\ Count(Aged(b, n)) = Count(b)
         /\ AgesOf(Aged(b, n), m + n)
         /\ Count(b) > 0 => (Delayed(Youngest(Aged(b, n))) <=> Delayed(Youngest(b)))
<1> DEFINE a == Aged(b, n)
<1>1. \A i \in Slots : a[i] = IF b[i] = None THEN None ELSE [b[i] EXCEPT !.age = @ + n]
  BY DEF Aged
<1>2. ASSUME NEW i \in Slots, b[i] # None
      PROVE  /\ b[i] \in LaterEntries /\ b[i].age + n \in 0..9
             /\ a[i] \in LaterEntries
             /\ a[i].write = b[i].write /\ a[i].age = b[i].age + n
  <2>1. b[i] \in LaterEntries /\ IsWriter(b[i])
    BY <1>2, WriterIs
  <2>2. b[i].age + n \in 0..9
    <3>1. /\ Weight(b[0]) \in {0, 1} /\ Weight(b[1]) \in {0, 1}
          /\ Weight(b[i]) = 1 /\ i \in {0, 1}
      BY <2>1, WeightIs, SlotsAre
    <3>2. CASE i = 0
      <4>1. b[i].age = m
        BY <2>1, <3>2 DEF AgesOf
      <4>2. QED
        BY <3>1, <3>2, <4>1 DEF Count
    <3>3. CASE i = 1
      <4>1. b[i].age = m + Weight(b[0])
        BY <2>1, <3>3 DEF AgesOf
      <4>2. QED
        BY <3>1, <3>3, <4>1 DEF Count
    <3>4. QED
      BY <3>1, <3>2, <3>3
  <2>3. a[i] = [b[i] EXCEPT !.age = b[i].age + n]
    BY <1>1, <1>2
  <2>4. /\ a[i] = [write |-> b[i].write, age |-> b[i].age + n]
        /\ b[i].write \in {"alu", "delay"}
    BY <2>1, <2>3 DEF LaterEntries
  <2>5. a[i] \in LaterEntries
    BY <2>2, <2>4 DEF LaterEntries
  <2>6. QED
    BY <2>1, <2>2, <2>4, <2>5
<1>3. \A i \in Slots : b[i] = None => a[i] = None
  BY <1>1
<1>4. a \in [Slots -> LaterEntries \union {None}]
  <2>1. a = [i \in Slots |-> a[i]]
    BY DEF Aged
  <2>2. \A i \in Slots : a[i] \in LaterEntries \union {None}
    BY <1>2, <1>3
  <2> HIDE DEF a
  <2>3. QED
    BY <2>1, <2>2
<1> HIDE DEF a
<1>5. \A i \in Slots : IsWriter(a[i]) <=> IsWriter(b[i])
  BY <1>2, <1>3, <1>4, WriterIs
<1>6. \A i \in Slots : Weight(a[i]) = Weight(b[i])
  BY <1>5 DEF Weight
<1>7. Count(a) = Count(b)
  BY <1>6, SlotsAre DEF Count
<1>8. AgesOf(a, m + n)
  <2>1. Weight(b[0]) \in Int
    BY WeightIs
  <2>2. \A i \in Slots : IsWriter(a[i]) => b[i] # None /\ b[i].age \in Int
    BY <1>2, <1>5, WriterIs
  <2>3. IsWriter(a[0]) => a[0].age = m + n
    BY <1>2, <1>5, <2>2, SlotsAre DEF AgesOf
  <2>4. ASSUME IsWriter(a[1])
        PROVE  a[1].age = m + n + Weight(a[0])
    <3>1. a[1].age = b[1].age + n
      BY <1>2, <2>2, <2>4, SlotsAre
    <3>2. b[1].age = m + Weight(b[0])
      BY <1>5, <2>4, SlotsAre DEF AgesOf
    <3>3. QED
      BY <1>6, <2>1, <3>1, <3>2, SlotsAre
  <2>5. QED
    BY <2>3, <2>4 DEF AgesOf
<1>9. ASSUME Count(b) > 0
      PROVE  Delayed(Youngest(a)) <=> Delayed(Youngest(b))
  <2>1. PICK i \in Slots : Youngest(a) = a[i] /\ Youngest(b) = b[i]
    BY <1>5, SlotsAre DEF Youngest
  <2>2. b[i] # None
    BY <1>9, <2>1, CountIs, WriterIs
  <2>3. QED
    BY <1>2, <2>1, <2>2 DEF Delayed
<1>10. QED
  BY <1>4, <1>7, <1>8, <1>9 DEF a

(* Conditional moves are writers in one of the two slots. *)
LEMMA FailedAre ==
  ASSUME NEW b, NEW failed \in SUBSET Writers(b)
  PROVE  LET f(i) == IF i \in failed THEN 1 ELSE 0
         IN  /\ Cardinality(failed) = f(0) + f(1)
             /\ Cardinality({j \in failed : j > 0}) = f(1)
             /\ Cardinality({j \in failed : j > 1}) = 0
             /\ 0 \in failed => IsWriter(b[0])
             /\ 1 \in failed => IsWriter(b[1])
             /\ failed \subseteq {0, 1}
<1>1. /\ failed \subseteq {0, 1}
      /\ 0 \in failed => IsWriter(b[0])
      /\ 1 \in failed => IsWriter(b[1])
  BY DEF Writers, Slots
<1>2. /\ Cardinality({}) = 0 /\ Cardinality({0}) = 1 /\ Cardinality({1}) = 1
      /\ Cardinality({0} \union {1}) = 2
  <2>1. Cardinality({}) = 0
    BY FS_EmptySet
  <2>2. Cardinality({0}) = 1 /\ IsFiniteSet({0}) /\ Cardinality({1}) = 1
    BY FS_Singleton
  <2>3. Cardinality({0} \union {1}) = 2
    BY <2>2, FS_AddElement
  <2>4. QED
    BY <2>1, <2>2, <2>3
<1>3. /\ 1 \in failed => {j \in failed : j > 0} = {1}
      /\ 1 \notin failed => {j \in failed : j > 0} = {}
      /\ {j \in failed : j > 1} = {}
  <2>1. \A j \in failed : (j > 0 <=> j = 1) /\ ~(j > 1)
    BY <1>1
  <2>2. 1 > 0
    OBVIOUS
  <2>3. QED
    BY <2>1, <2>2, Zenon
<1> DEFINE f(i) == IF i \in failed THEN 1 ELSE 0
           A == {j \in failed : j > 0}
           B == {j \in failed : j > 1}
<1>4. Cardinality(A) = f(1) /\ Cardinality(B) = 0
  BY <1>2, <1>3
<1> HIDE DEF A, B
<1>5. Cardinality(failed) = f(0) + f(1)
  <2>1. CASE 0 \in failed /\ 1 \in failed
    <3>1. failed = {0} \union {1}
      BY <1>1, <2>1
    <3>2. QED
      BY <1>2, <2>1, <3>1
  <2>2. CASE 0 \in failed /\ 1 \notin failed
    <3>1. failed = {0}
      BY <1>1, <2>2
    <3>2. QED
      BY <1>2, <2>2, <3>1
  <2>3. CASE 0 \notin failed /\ 1 \in failed
    <3>1. failed = {1}
      BY <1>1, <2>3
    <3>2. QED
      BY <1>2, <2>3, <3>1
  <2>4. CASE 0 \notin failed /\ 1 \notin failed
    <3>1. failed = {}
      BY <1>1, <2>4
    <3>2. QED
      BY <1>2, <2>4, <3>1
  <2>5. QED
    BY <2>1, <2>2, <2>3, <2>4
<1>6. QED
  BY <1>1, <1>4, <1>5 DEF A, B

(* The writers leave execute as they came, but for the conditional moves   *)
(* that failed; these make the ages count from their number.               *)
LEMMA ResultsAre ==
  ASSUME NEW b \in [Slots -> Entries \union {None}], NEW failed \in SUBSET Writers(b),
         AgesOf(b, 0)
  PROVE  LET a == Results(b, failed)
         IN  /\ a \in [Slots -> LaterEntries \union {None}]
             /\ Count(a) = Count(b) - Cardinality(failed)
             /\ Cardinality(failed) \in 0..Count(b)
             /\ AgesOf(a, Cardinality(failed))
             /\ Count(b) > 0 /\ Min(Writers(b)) \notin failed =>
                  Count(a) > 0 /\ (Delayed(Youngest(a)) <=> Delayed(Youngest(b)))
<1> DEFINE a == Results(b, failed)
           f(i) == IF i \in failed THEN 1 ELSE 0
           Older(i) == Cardinality({j \in failed : j > i})
           r(i) == [Result(b[i]) EXCEPT !.age = @ + Older(i)]
<1>1. \A i \in Slots : a[i] = IF i \in failed \/ ~IsWriter(b[i]) THEN None ELSE r(i)
  BY DEF Results
<1>2. /\ Cardinality(failed) = f(0) + f(1) /\ Older(0) = f(1) /\ Older(1) = 0
      /\ 0 \in failed => IsWriter(b[0])
      /\ 1 \in failed => IsWriter(b[1])
  BY FailedAre
<1>3. ASSUME NEW i \in Slots, IsWriter(b[i]), i \notin failed
      PROVE  /\ a[i] \in LaterEntries
             /\ Delayed(a[i]) <=> Delayed(b[i])
             /\ a[i].age = b[i].age + Older(i)
  <2>1. b[i] \in Entries /\ b[i].write # "none"
    BY <1>3, WriterIs
  <2> DEFINE w == IF Delayed(b[i]) THEN "delay" ELSE "alu"
  <2>2. Result(b[i]) = [write |-> w, age |-> b[i].age]
    BY <1>3 DEF Result
  <2>3. b[i].age \in 0..1 /\ Older(i) \in 0..1
    BY <1>2, <2>1, SlotsAre DEF Entries
  <2>4. r(i) = [write |-> w, age |-> b[i].age + Older(i)]
    BY <2>2
  <2>5. a[i] = r(i)
    BY <1>1, <1>3
  <2>6. w \in {"alu", "delay"} /\ (w = "delay" <=> Delayed(b[i]))
    OBVIOUS
  <2> HIDE DEF w, r, a, Older
  <2>7. /\ a[i] = [write |-> w, age |-> b[i].age + Older(i)]
        /\ b[i].age + Older(i) \in 0..9
    BY <2>3, <2>4, <2>5
  <2>8. a[i] \in LaterEntries /\ a[i].write = w /\ a[i].age = b[i].age + Older(i)
    BY <2>6, <2>7 DEF LaterEntries
  <2>9. QED
    BY <2>6, <2>8 DEF Delayed
<1>4. \A i \in Slots : ~IsWriter(b[i]) \/ i \in failed => a[i] = None
  BY <1>1
<1>5. a \in [Slots -> LaterEntries \union {None}]
  <2>1. a = [i \in Slots |-> a[i]]
    BY DEF Results
  <2>2. \A i \in Slots : a[i] \in LaterEntries \union {None}
    BY <1>3, <1>4
  <2> HIDE DEF a
  <2>3. QED
    BY <2>1, <2>2
<1> HIDE DEF a, Older
<1>6. \A i \in Slots : IsWriter(a[i]) <=> IsWriter(b[i]) /\ i \notin failed
  BY <1>3, <1>4, WriterIs
<1>7. Weight(a[0]) = Weight(b[0]) - f(0) /\ Weight(a[1]) = Weight(b[1]) - f(1)
  BY <1>2, <1>6, SlotsAre DEF Weight
<1>8. /\ Weight(b[0]) \in {0, 1} /\ Weight(b[1]) \in {0, 1}
      /\ f(0) \in {0, 1} /\ f(1) \in {0, 1}
      /\ f(0) <= Weight(b[0]) /\ f(1) <= Weight(b[1])
  BY <1>2, WeightIs DEF Weight
<1>9. Count(a) = Count(b) - Cardinality(failed) /\ Cardinality(failed) \in 0..Count(b)
  BY <1>2, <1>7, <1>8 DEF Count
<1>10. AgesOf(a, Cardinality(failed))
  <2>1. ASSUME IsWriter(a[0])
        PROVE  a[0].age = Cardinality(failed)
    <3>1. IsWriter(b[0]) /\ 0 \notin failed
      BY <1>6, <2>1, SlotsAre
    <3>2. b[0].age = 0 /\ a[0].age = b[0].age + Older(0)
      BY <1>3, <3>1, SlotsAre DEF AgesOf
    <3>3. QED
      BY <1>2, <3>1, <3>2
  <2>2. ASSUME IsWriter(a[1])
        PROVE  a[1].age = Cardinality(failed) + Weight(a[0])
    <3>1. IsWriter(b[1]) /\ 1 \notin failed
      BY <1>6, <2>2, SlotsAre
    <3>2. b[1].age = 0 + Weight(b[0]) /\ a[1].age = b[1].age + Older(1)
      BY <1>3, <3>1, SlotsAre DEF AgesOf
    <3>3. f(1) = 0
      BY <3>1
    <3> HIDE DEF f
    <3>4. QED
      BY <1>2, <1>7, <1>8, <3>2, <3>3
  <2>3. QED
    BY <2>1, <2>2 DEF AgesOf
<1>11. ASSUME Count(b) > 0, Min(Writers(b)) \notin failed
       PROVE  Count(a) > 0 /\ (Delayed(Youngest(a)) <=> Delayed(Youngest(b)))
  <2>1. /\ Min(Writers(b)) = IF IsWriter(b[0]) THEN 0 ELSE 1
        /\ IsWriter(b[0]) \/ IsWriter(b[1])
    <3>1. /\ 0 \in Writers(b) <=> IsWriter(b[0])
          /\ 1 \in Writers(b) <=> IsWriter(b[1])
          /\ Writers(b) \subseteq {0, 1}
      BY SlotsAre DEF Writers, Slots
    <3>2. IsWriter(b[0]) \/ IsWriter(b[1])
      BY <1>11, CountIs
    <3>3. QED
      BY <3>1, <3>2 DEF Min
  <2>2. CASE IsWriter(b[0])
    <3>1. 0 \notin failed
      BY <1>11, <2>1, <2>2
    <3>2. IsWriter(a[0]) /\ (Delayed(a[0]) <=> Delayed(b[0]))
      BY <1>3, <1>6, <2>2, <3>1, SlotsAre
    <3>3. QED
      BY <2>2, <3>2, CountIs DEF Youngest
  <2>3. CASE ~IsWriter(b[0])
    <3>1. 1 \notin failed /\ IsWriter(b[1])
      BY <1>11, <2>1, <2>3
    <3>2. /\ IsWriter(a[1]) /\ (Delayed(a[1]) <=> Delayed(b[1]))
          /\ ~IsWriter(a[0])
      BY <1>3, <1>6, <2>3, <3>1, SlotsAre
    <3>3. QED
      BY <2>3, <3>2, CountIs DEF Youngest
  <2>4. QED
    BY <2>2, <2>3
<1>12. QED
  BY <1>5, <1>9, <1>10, <1>11 DEF a

-----------------------------------------------------------------------------
(* Reading and issuing.                                                    *)

LEMMA CountsAre ==
  /\ Count(dataI) \in 0..2 /\ Count(dataE) \in 0..2 /\ Count(dataM1) \in 0..2
  /\ Count(dataM2) \in 0..2 /\ Count(dataM3) \in 0..2 /\ Total \in 0..10
BY CountIs DEF Total

(* The youngest writer behind execute is as old as execute has writers.    *)
LEMMA FirstAge ==
  ASSUME AgesExact, Matches # {}
  PROVE  First.age = Count(dataI)
<1>1. ASSUME NEW b, NEW m \in Int, AgesOf(b, m), Count(b) > 0
      PROVE  Youngest(b).age = m
  BY <1>1, CountIs, WeightIs DEF AgesOf, Youngest, Weight
<1>2. CASE Count(dataE) > 0
  BY <1>1, <1>2, CountsAre, FirstIs DEF AgesExact
<1>3. CASE Count(dataE) = 0 /\ Count(dataM1) > 0
  BY <1>1, <1>3, CountsAre, FirstIs DEF AgesExact
<1>4. CASE Count(dataE) = 0 /\ Count(dataM1) = 0 /\ Count(dataM2) > 0
  BY <1>1, <1>4, CountsAre, FirstIs DEF AgesExact
<1>5. CASE /\ Count(dataE) = 0 /\ Count(dataM1) = 0 /\ Count(dataM2) = 0
           /\ Count(dataM3) > 0
  BY <1>1, <1>5, CountsAre, FirstIs DEF AgesExact
<1>6. CASE /\ Count(dataE) = 0 /\ Count(dataM1) = 0 /\ Count(dataM2) = 0
           /\ Count(dataM3) = 0
  BY <1>6, FirstIs
<1>7. QED
  BY <1>2, <1>3, <1>4, <1>5, <1>6, CountsAre

LEMMA BundlesAre ==
  ASSUME TypeOK
  PROVE  /\ dataI \in [Slots -> Entries \union {None}]
         /\ dataE \in [Slots -> LaterEntries \union {None}]
         /\ dataM1 \in [Slots -> LaterEntries \union {None}]
         /\ dataM2 \in [Slots -> LaterEntries \union {None}]
         /\ dataM3 \in [Slots -> LaterEntries \union {None}]
BY DEF TypeOK

(* What a candidate may read, and where the writer it reads from is.       *)
LEMMA ReadIs ==
  ASSUME AgesExact
  PROVE  /\ Read \in 0..Total
         /\ Count(dataI) > 0 => Read = Total
         /\ Ready =>
              /\ Count(dataI) > 0 => ~Delayed(Youngest(dataI))
              /\ Count(dataI) = 0 /\ Count(dataE) > 0 => ~Delayed(Youngest(dataE))
              /\ Count(dataI) = 0 /\ Count(dataE) = 0 /\ Count(dataM1) > 0 =>
                   ~Delayed(Youngest(dataM1))
              /\ /\ Count(dataI) = 0 /\ Count(dataE) = 0 /\ Count(dataM1) = 0
                 /\ Count(dataM2) > 0 => ~Delayed(Youngest(dataM2))
                 => Read = 0
<1>1. CASE Count(dataI) > 0
  <2>1. Writers(dataI) # {} /\ dataI[Min(Writers(dataI))] = Youngest(dataI)
    BY <1>1, CountIs
  <2>2. Read = Total
    BY <2>1 DEF Read, BypassI, AgesExact
  <2>3. Ready => ~Delayed(Youngest(dataI))
    BY <2>1 DEF Ready
  <2>4. QED
    BY <1>1, <2>2, <2>3, CountsAre
<1>2. CASE Count(dataI) = 0
  <2>1. Writers(dataI) = {}
    BY <1>2, CountIs
  <2>2. Matches # {} => First.age = 0
    BY <1>2, FirstAge
  <2>3. Matches = {} => Total = 0
    BY <1>2, FirstIs, CountsAre DEF Total
  <2>4. Read \in 0..Total
    BY <2>2, CountsAre DEF Read, BypassI, AgesExact
  <2>5. ASSUME Ready, Matches # {}
        PROVE  InE(Min(Matches)) \/ InM1(Min(Matches)) => ~Delayed(First)
    BY <2>1, <2>5 DEF Ready
  <2>6. ASSUME Ready, Count(dataE) > 0
        PROVE  ~Delayed(Youngest(dataE))
    BY <2>5, <2>6, FirstIs
  <2>7. ASSUME Ready, Count(dataE) = 0, Count(dataM1) > 0
        PROVE  ~Delayed(Youngest(dataM1))
    BY <2>5, <2>7, FirstIs
  <2>8. ASSUME Count(dataE) = 0, Count(dataM1) = 0,
               Count(dataM2) > 0 => ~Delayed(Youngest(dataM2))
        PROVE  Read = 0
    <3>1. CASE Count(dataM2) > 0
      <4>1. BypassI
        BY <2>1, <2>8, <3>1, FirstIs DEF BypassI
      <4>2. QED
        BY <2>2, <4>1 DEF Read, BypassI
    <3>2. CASE Count(dataM2) = 0 /\ Count(dataM3) > 0
      <4>1. BypassI
        BY <2>1, <2>8, <3>2, FirstIs DEF BypassI
      <4>2. QED
        BY <2>2, <4>1 DEF Read, BypassI
    <3>3. CASE Count(dataM2) = 0 /\ Count(dataM3) = 0
      <4>1. Matches = {}
        BY <2>8, <3>3, FirstIs
      <4>2. QED
        BY <2>3, <4>1 DEF Read, BypassI, AgesExact
    <3>4. QED
      BY <3>1, <3>2, <3>3, CountsAre
  <2>9. QED
    BY <1>2, <2>4, <2>6, <2>7, <2>8, CountsAre
<1>3. QED
  BY <1>1, <1>2, CountsAre

(* The conditional moves in execute are writers. *)
LEMMA ConditionalAre ==
  ASSUME NEW failed \in SUBSET Conditional
  PROVE  /\ failed \in SUBSET Writers(dataI)
         /\ Cardinality(failed) \in 0..Count(dataI)
         /\ Count(dataI) = 0 => Cardinality(failed) = 0
<1>1. failed \in SUBSET Writers(dataI)
  BY DEF Conditional, Writers, IsWriter
<1> DEFINE f(i) == IF i \in failed THEN 1 ELSE 0
<1>2. /\ Cardinality(failed) = f(0) + f(1)
      /\ 0 \in failed => IsWriter(dataI[0])
      /\ 1 \in failed => IsWriter(dataI[1])
  BY <1>1, FailedAre
<1>3. /\ f(0) \in 0..Weight(dataI[0]) /\ f(1) \in 0..Weight(dataI[1])
      /\ Weight(dataI[0]) \in {0, 1} /\ Weight(dataI[1]) \in {0, 1}
  BY <1>2 DEF Weight
<1>4. QED
  BY <1>1, <1>2, <1>3 DEF Count

(* A bundle that is issued. *)
LEMMA IssuedIs ==
  ASSUME head \in Decoded \union {None}, AgesExact, Bounded, NEW c2 \in Candidates,
         NEW failed \in SUBSET Conditional
  PROVE  LET new == IssuedBundle(c2, failed)
         IN  /\ new \in [Slots -> Entries \union {None}]
             /\ AgesOf(new, 0) /\ NeedsOf(new)
             /\ Total + Count(new) <= MaxWriters
             /\ \A i \in Slots : new[i] # None /\ new[i].reads =>
                  /\ Ready /\ new[i].rd = Read + Count(new) - Cardinality(failed)
                  /\ new[i].missed = Misses(failed)
             /\ \A i \in Slots : new[i] # None /\ new[i].missed => new[i].reads
             /\ new[1] = None => Count(new) = 0
<1> DEFINE issued == Issued(c2)
           c == [i \in Slots |-> IF i \notin issued THEN None
                                 ELSE IF i = 1 THEN head ELSE c2]
           n == Cardinality(Writers(c))
           Newer(i) == Cardinality({j \in Writers(c) : j < i})
           need(i) == Newer(i) + (IF i \in Writers(c) THEN 1 ELSE 0)
           f == Cardinality(failed)
           At(i) == [write |-> c[i].write, reads |-> c[i].reads, unit |-> c[i].unit,
                     branch |-> c[i].branch, age |-> Newer(i), need |-> need(i),
                     rd |-> IF c[i].reads THEN Read + n - f ELSE 0,
                     missed |-> c[i].reads /\ Misses(failed)]
           new == [i \in Slots |-> IF c[i] = None THEN None ELSE At(i)]
<1>1. new = IssuedBundle(c2, failed)
  BY DEF IssuedBundle
<1>2. c2 \in Decoded \union {None}
  BY DEF Candidates
<1>3. Decoded \subseteq Instructions
  BY DecodedAssumption
<1>4. \/ c[1] = None /\ c[0] = None
      \/ c[1] = head /\ c[0] = None /\ ReadyFor(head)
      \/ /\ c[1] = head /\ c[0] = c2 /\ ReadyFor(head) /\ ReadyFor(c2)
         /\ PairAllowed(head, c2)
  <2>1. CASE ~ReadyFor(head) \/ (head.branch /\ ~ReadyFor(c2))
    <3>1. issued = {}
      BY <2>1 DEF Issued
    <3>2. QED
      BY <3>1, SlotsAre
  <2>2. CASE /\ ~(~ReadyFor(head) \/ (head.branch /\ ~ReadyFor(c2)))
             /\ ReadyFor(c2) /\ PairAllowed(head, c2)
    <3>1. issued = {0, 1}
      BY <2>2 DEF Issued
    <3>2. QED
      BY <2>2, <3>1, SlotsAre
  <2>3. CASE /\ ~(~ReadyFor(head) \/ (head.branch /\ ~ReadyFor(c2)))
             /\ ~(ReadyFor(c2) /\ PairAllowed(head, c2))
    <3>1. issued = {1}
      BY <2>3 DEF Issued
    <3>2. QED
      BY <2>3, <3>1, SlotsAre
  <2>4. QED
    BY <2>1, <2>2, <2>3
<1>5. c[0] \in Instructions \union {None} /\ c[1] \in Instructions \union {None}
  BY <1>2, <1>3, <1>4
<1>6. \A i \in Slots : c[i] # None => (c[i].reads => Ready) /\ c[i] \in Instructions
  BY <1>4, <1>5, SlotsAre DEF ReadyFor
<1>7. c[0] # None /\ c[0].reads => ~IsWriter(c[1])
  <2>1. ASSUME c[0] # None, c[0].reads
        PROVE  ~IsWriter(c[1])
    <3>1. /\ c[1] = head /\ c[0] = c2 /\ ReadyFor(head) /\ PairAllowed(head, c2)
      BY <1>4, <2>1
    <3>2. head # None /\ c2 # None
      BY <2>1, <3>1 DEF ReadyFor
    <3>3. head.branch => ~(IsWriter(head) /\ c2.reads)
      BY <3>2 DEF Candidates
    <3>4. ~(head.write # "none" /\ c2.reads) \/ head.branch
      BY <3>1 DEF PairAllowed
    <3>5. QED
      BY <2>1, <3>1, <3>3, <3>4 DEF IsWriter
  <2>2. QED
    BY <2>1
<1>8. Total + Weight(c[0]) + Weight(c[1]) <= MaxWriters
  <2>1. MaxWriters \in 1..10 /\ InFlight = Total /\ Total \in 0..10
    BY BoundsAssumption, InFlightIs, CountsAre
  <2>2. IsWriter(c2) => Total + Weight(head) < MaxWriters
    BY <2>1, WriterIs DEF Candidates
  <2>3. Total <= MaxWriters /\ (IsWriter(head) => Total < MaxWriters)
    BY DEF Bounded
  <2>4. /\ Weight(c[0]) \in {0, 1} /\ (Weight(c[0]) = 1 <=> IsWriter(c[0]))
        /\ Weight(c[1]) \in {0, 1} /\ (Weight(c[1]) = 1 <=> IsWriter(c[1]))
        /\ Weight(head) \in {0, 1} /\ (Weight(head) = 1 <=> IsWriter(head))
        /\ Weight(c2) \in {0, 1} /\ (Weight(c2) = 1 <=> IsWriter(c2))
        /\ Weight(None) = 0
    BY WeightIs, WriterIs
  <2> HIDE DEF c
  <2>5. CASE c[1] = None /\ c[0] = None
    BY <2>1, <2>3, <2>4, <2>5
  <2>6. CASE c[1] = head /\ c[0] = None
    BY <2>1, <2>3, <2>4, <2>6
  <2>7. CASE c[1] = head /\ c[0] = c2
    BY <2>1, <2>2, <2>3, <2>4, <2>7
  <2>8. QED
    BY <1>4, <2>5, <2>6, <2>7
<1>9. c[1] = None => c[0] = None
  BY <1>4 DEF ReadyFor
<1>10. \A i \in Slots : new[i] = IF c[i] = None THEN None ELSE At(i)
  OBVIOUS
<1>11. /\ n = Weight(c[0]) + Weight(c[1])
       /\ Newer(0) = 0 /\ Newer(1) = Weight(c[0])
       /\ need(0) = Weight(c[0]) /\ need(1) = Weight(c[0]) + Weight(c[1])
  <2>1. n = Weight(c[0]) + Weight(c[1])
    BY CountIs DEF Count
  <2>2. /\ 0 \in Writers(c) <=> IsWriter(c[0])
        /\ 1 \in Writers(c) <=> IsWriter(c[1])
        /\ Writers(c) \subseteq {0, 1}
    BY SlotsAre DEF Writers, Slots
  <2> HIDE DEF c, n
  <2>3. {j \in Writers(c) : j < 0} = {} /\ Cardinality({}) = 0
    BY <2>2, FS_EmptySet
  <2>4. Newer(0) = 0
    BY <2>3
  <2>5. {j \in Writers(c) : j < 1} = IF IsWriter(c[0]) THEN {0} ELSE {}
    BY <2>2
  <2>6. Cardinality({0}) = 1
    BY FS_Singleton
  <2>7. Newer(1) = Weight(c[0])
    BY <2>3, <2>5, <2>6 DEF Weight
  <2> HIDE DEF Newer
  <2>8. need(0) = Weight(c[0]) /\ need(1) = Weight(c[0]) + Weight(c[1])
    BY <2>2, <2>4, <2>7, WeightIs DEF Weight
  <2>9. QED
    BY <2>1, <2>4, <2>7, <2>8
<1>12. /\ Weight(c[0]) \in {0, 1} /\ Weight(c[1]) \in {0, 1} /\ Read \in 0..Total
       /\ f \in 0..Read
  <2>1. /\ f \in 0..Count(dataI) /\ (Count(dataI) = 0 => f = 0)
    BY ConditionalAre
  <2>2. Count(dataI) > 0 => Read = Total
    BY ReadIs
  <2>3. Read \in 0..Total /\ Total \in 0..10 /\ Count(dataI) \in 0..Total
    BY ReadIs, CountsAre DEF Total
  <2> HIDE DEF f
  <2>4. f \in 0..Read
    BY <2>1, <2>2, <2>3
  <2>5. QED
    BY <2>3, <2>4, WeightIs
<1> HIDE DEF c, n, f, Newer, need
<1>13. ASSUME NEW i \in Slots, c[i] # None
       PROVE  /\ new[i] \in Entries /\ new[i].write = c[i].write
              /\ new[i].reads = c[i].reads /\ new[i].age = Newer(i)
              /\ new[i].need = need(i) /\ (c[i].reads => new[i].rd = Read + n - f)
              /\ new[i].missed = (c[i].reads /\ Misses(failed))
  <2>1. new[i] = At(i)
    BY <1>10, <1>13
  <2>2. c[i].write \in {"none", "alu", "cond", "delay"} /\ c[i].reads \in BOOLEAN
        /\ c[i].unit \in {"none", "mul", "div"} /\ c[i].branch \in BOOLEAN
    BY <1>6, <1>13 DEF Instructions
  <2>3. Newer(i) \in 0..1 /\ need(i) \in 0..2
    BY <1>11, <1>12, SlotsAre
  <2>4. Read + n - f \in 0..10
    <3>1. Total \in 0..10 /\ MaxWriters \in 1..10
      BY CountsAre, BoundsAssumption
    <3>2. Read + n <= MaxWriters
      BY <1>8, <1>11, <1>12, <3>1
    <3>3. n \in Nat /\ Read \in Nat /\ f \in 0..Read
      BY <1>11, <1>12, <3>1
    <3>4. QED
      BY <3>1, <3>2, <3>3
  <2> DEFINE rd == IF c[i].reads THEN Read + n - f ELSE 0
             missed == c[i].reads /\ Misses(failed)
  <2>5. rd \in 0..10
    BY <2>4
  <2>6. new[i] = [write |-> c[i].write, reads |-> c[i].reads, unit |-> c[i].unit,
                  branch |-> c[i].branch, age |-> Newer(i), need |-> need(i), rd |-> rd,
                  missed |-> missed]
    BY <2>1
  <2>7. (c[i].reads => rd = Read + n - f) /\ missed \in BOOLEAN
    BY <2>2 DEF Misses
  <2> HIDE DEF rd, new
  <2>8. /\ new[i].write = c[i].write /\ new[i].reads = c[i].reads
        /\ new[i].age = Newer(i) /\ new[i].need = need(i)
        /\ new[i].missed = missed /\ (c[i].reads => new[i].rd = Read + n - f)
    BY <2>6, <2>7
  <2> HIDE DEF missed
  <2>9. new[i] \in Entries
    BY <2>2, <2>3, <2>5, <2>6, <2>7 DEF Entries
  <2>10. QED
    BY <2>8, <2>9 DEF missed
<1>14. \A i \in Slots : c[i] = None => new[i] = None
  BY <1>10
<1>15. new \in [Slots -> Entries \union {None}]
  <2>1. new = [i \in Slots |-> new[i]]
    OBVIOUS
  <2> HIDE DEF new
  <2>2. \A i \in Slots : new[i] \in Entries \union {None}
    BY <1>13, <1>14
  <2>3. QED
    BY <2>1, <2>2
<1> HIDE DEF new
<1>16. \A i \in Slots : new[i] # None <=> c[i] # None
  BY <1>13, <1>14, WriterIs
<1>17. \A i \in Slots : IsWriter(new[i]) <=> IsWriter(c[i])
  BY <1>13, <1>16 DEF IsWriter
<1>18. Weight(new[0]) = Weight(c[0]) /\ Weight(new[1]) = Weight(c[1])
  BY <1>17, SlotsAre DEF Weight
<1>19. Count(new) = n
  BY <1>11, <1>18 DEF Count
<1>20. AgesOf(new, 0)
  <2>1. IsWriter(new[0]) => new[0].age = 0
    BY <1>11, <1>13, <1>16, SlotsAre DEF IsWriter
  <2>2. IsWriter(new[1]) => new[1].age = 0 + Weight(new[0])
    BY <1>11, <1>12, <1>13, <1>16, <1>18, SlotsAre DEF IsWriter
  <2>3. QED
    BY <2>1, <2>2 DEF AgesOf
<1>21. NeedsOf(new)
  <2>1. ASSUME new[0] # None, new[0].reads
        PROVE  new[0].need = n
    <3>1. c[0] # None /\ c[0].reads
      BY <1>13, <1>16, <2>1, SlotsAre
    <3>2. Weight(c[1]) = 0
      BY <1>7, <3>1 DEF Weight
    <3>3. QED
      BY <1>11, <1>12, <1>13, <3>1, <3>2, SlotsAre
  <2>2. ASSUME new[1] # None
        PROVE  new[1].need = n
    BY <1>11, <1>13, <1>16, <2>2, SlotsAre
  <2>3. QED
    BY <1>19, <2>1, <2>2, SlotsAre DEF NeedsOf
<1>22. Total + Count(new) <= MaxWriters
  BY <1>8, <1>11, <1>12, <1>19, CountsAre
<1>23. ASSUME NEW i \in Slots, new[i] # None, new[i].reads
       PROVE  /\ Ready /\ new[i].rd = Read + Count(new) - f
              /\ new[i].missed = Misses(failed)
  <2>1. c[i] # None /\ c[i].reads
    BY <1>13, <1>16, <1>23
  <2>2. new[i].missed = (c[i].reads /\ Misses(failed)) /\ new[i].rd = Read + n - f
    BY <1>13, <2>1
  <2>3. Misses(failed) \in BOOLEAN
    BY DEF Misses
  <2>4. QED
    BY <1>6, <1>19, <2>1, <2>2, <2>3
<1>24. ASSUME new[1] = None
       PROVE  Count(new) = 0
  <2>1. c[1] = None /\ c[0] = None
    BY <1>9, <1>16, <1>24, SlotsAre
  <2>2. Weight(c[0]) = 0 /\ Weight(c[1]) = 0
    BY <2>1, WriterIs DEF Weight
  <2>3. QED
    BY <1>11, <1>19, <2>2
<1>25. ASSUME NEW i \in Slots, new[i] # None, new[i].missed
       PROVE  new[i].reads
  BY <1>13, <1>16, <1>25
<1>26. QED
  BY <1>1, <1>15, <1>20, <1>21, <1>22, <1>23, <1>24, <1>25 DEF f

-----------------------------------------------------------------------------
(* What execute uses, and what survives a cycle.                           *)

LEMMA OperandIs ==
  ASSUME NEW i \in Slots, dataI[i] # None, dataI[i].reads, ~dataI[i].missed,
         AgesExact, Available
  PROVE  /\ Gone <=> ~BypassE(i)
         /\ BypassE(i) => First.age = Count(dataI)
         /\ ~BypassE(i) => Kept(i) = Count(dataI)
         /\ Rd(i) = Count(dataI)
<1>1. /\ Count(dataE) > 0 => ~Delayed(Youngest(dataE))
      /\ Count(dataE) = 0 /\ Count(dataM1) > 0 => ~Delayed(Youngest(dataM1))
      /\ Count(dataE) = 0 /\ Count(dataM1) = 0 /\ Count(dataM2) > 0 =>
           ~Delayed(Youngest(dataM2))
      /\ Gone => Kept(i) = Count(dataI)
  BY DEF Available
<1>2. BypassE(i) => First.age = Count(dataI)
  BY FirstAge DEF BypassE
<1>3. Gone <=> ~BypassE(i)
  <2>1. BypassE(i) <=> Matches # {} /\ (Delayed(First) <=> InM3(Min(Matches)))
    BY DEF BypassE
  <2>2. CASE Count(dataE) > 0
    BY <1>1, <2>1, <2>2, FirstIs, CountsAre DEF Gone
  <2>3. CASE Count(dataE) = 0 /\ Count(dataM1) > 0
    BY <1>1, <2>1, <2>3, FirstIs, CountsAre DEF Gone
  <2>4. CASE Count(dataE) = 0 /\ Count(dataM1) = 0 /\ Count(dataM2) > 0
    BY <1>1, <2>1, <2>4, FirstIs, CountsAre DEF Gone
  <2>5. CASE /\ Count(dataE) = 0 /\ Count(dataM1) = 0 /\ Count(dataM2) = 0
             /\ Count(dataM3) > 0
    BY <2>1, <2>5, FirstIs DEF Gone
  <2>6. CASE /\ Count(dataE) = 0 /\ Count(dataM1) = 0 /\ Count(dataM2) = 0
             /\ Count(dataM3) = 0
    BY <2>1, <2>6, FirstIs DEF Gone
  <2>7. QED
    BY <2>2, <2>3, <2>4, <2>5, <2>6, CountsAre
<1>4. ~BypassE(i) => Rd(i) = Kept(i)
  BY DEF Rd, Kept
<1>5. BypassE(i) => Rd(i) = First.age
  BY DEF Rd
<1>6. QED
  BY <1>1, <1>2, <1>3, <1>4, <1>5

LEMMA OperandsRight ==
  ASSUME OperandInv
  PROVE  \A i \in Slots : dataI[i] # None =>
           /\ Right(i) <=> ~ReadBehindFailed(i)
           /\ ~dataI[i].missed => Right(i)
<1> SUFFICES ASSUME NEW i \in Slots, dataI[i] # None
             PROVE  /\ Right(i) <=> ~ReadBehindFailed(i)
                    /\ ~dataI[i].missed => Right(i)
  OBVIOUS
<1>1. /\ AgesExact /\ Available /\ TooOld /\ NeedsOf(dataI) /\ TypeOK
      /\ dataI[i].reads => dataI[i].need = Count(dataI)
  BY DEF OperandInv, NeedsOf
<1>2. CASE ~dataI[i].missed
  <2>1. dataI[i].reads => Rd(i) = Count(dataI)
    BY <1>1, <1>2, OperandIs
  <2>2. QED
    BY <1>1, <1>2, <2>1 DEF Right, ReadBehindFailed
<1>3. CASE dataI[i].missed
  <2>1. /\ dataI[i].reads /\ dataI[i].rd > Count(dataI)
        /\ saved[i] # None => saved[i] = Count(dataI)
    BY <1>1, <1>3 DEF TooOld
  <2>2. dataI[i].rd # Count(dataI)
    <3>1. dataI[i] \in Entries
      BY <1>1, BundlesAre
    <3>2. dataI[i].rd \in 0..10
      BY <3>1 DEF Entries
    <3>3. QED
      BY <2>1, <3>2, CountsAre
  <2>3. BypassE(i) => Rd(i) = Count(dataI)
    BY <1>1, FirstAge DEF BypassE, Rd
  <2>4. ~BypassE(i) /\ saved[i] # None => Rd(i) = Count(dataI)
    BY <2>1 DEF Rd
  <2>5. ~BypassE(i) /\ saved[i] = None => Rd(i) = dataI[i].rd
    BY DEF Rd
  <2>6. Rd(i) = Count(dataI) <=> BypassE(i) \/ saved[i] # None
    BY <2>2, <2>3, <2>4, <2>5
  <2>7. QED
    BY <1>1, <1>3, <2>1, <2>6 DEF Right, ReadBehindFailed
<1>4. QED
  BY <1>2, <1>3

(* While execute waits the operand is kept. *)
LEMMA WaitKeeps ==
  ASSUME NEW i \in Slots, dataI[i] # None, dataI[i].reads, ~dataI[i].missed,
         TypeOK, AgesExact, Available, SavedClock(TRUE, 0), dataI' = dataI
  PROVE  Kept(i)' = Count(dataI)
<1>1. saved[i] \in Ages \union {None} /\ None \notin Ages
  BY NoneAssumption DEF TypeOK
<1>2. Count(dataI) \in Ages /\ Count(dataI) \in Int
  BY CountsAre DEF Ages
<1>3. saved'[i] = CASE TRUE /\ BypassE(i) -> First.age + 0
                    [] TRUE /\ ~BypassE(i) /\ saved[i] # None -> saved[i] + 0
                    [] OTHER -> None
  BY DEF SavedClock
<1>4. CASE BypassE(i)
  <2>1. First.age = Count(dataI)
    BY <1>4, OperandIs
  <2>2. saved'[i] = Count(dataI)
    BY <1>2, <1>3, <1>4, <2>1
  <2>3. QED
    BY <1>1, <1>2, <2>2 DEF Kept
<1>5. CASE ~BypassE(i)
  <2>1. Kept(i) = Count(dataI)
    BY <1>5, OperandIs
  <2>2. CASE saved[i] # None
    <3>1. saved'[i] = saved[i] + 0 /\ saved[i] \in Int
      BY <1>1, <1>3, <1>5, <2>2 DEF Ages
    <3>2. QED
      BY <2>1, <2>2, <3>1 DEF Kept
  <2>3. CASE saved[i] = None
    <3>1. saved'[i] = None
      BY <1>3, <1>5, <2>3
    <3>2. QED
      BY <2>1, <2>3, <3>1 DEF Kept
  <2>4. QED
    BY <2>2, <2>3
<1>6. QED
  BY <1>4, <1>5

(* What is bypassed to an operand that was read too old is right. *)
LEMMA WaitCorrects ==
  ASSUME TypeOK, AgesExact, TooOld, SavedClock(TRUE, 0), dataI' = dataI
  PROVE  TooOld'
<1>1. SUFFICES ASSUME NEW i \in Slots, dataI[i] # None, dataI[i].missed, saved'[i] # None
               PROVE  saved'[i] = Count(dataI)
  BY DEF TooOld
<1>2. saved[i] \in Ages \union {None} /\ Count(dataI) \in Int
  BY CountsAre DEF TypeOK
<1>3. saved'[i] = CASE TRUE /\ BypassE(i) -> First.age + 0
                    [] TRUE /\ ~BypassE(i) /\ saved[i] # None -> saved[i] + 0
                    [] OTHER -> None
  BY DEF SavedClock
<1>4. CASE BypassE(i)
  <2>1. First.age = Count(dataI)
    BY <1>4, FirstAge DEF BypassE
  <2>2. QED
    BY <1>2, <1>3, <1>4, <2>1
<1>5. CASE ~BypassE(i) /\ saved[i] # None
  <2>1. saved[i] = Count(dataI)
    BY <1>1, <1>5 DEF TooOld
  <2>2. QED
    BY <1>2, <1>3, <1>5, <2>1
<1>6. CASE ~BypassE(i) /\ saved[i] = None
  BY <1>1, <1>3, <1>6
<1>7. QED
  BY <1>4, <1>5, <1>6

(* Saved values stay values. *)
LEMMA SavedBounds ==
  ASSUME TypeOK, AgesExact, Bounded, NEW wait \in BOOLEAN, NEW n \in Int,
         SavedClock(wait, n), NEW t \in 0..10,
         n <= 0 /\ t <= Total + n
  PROVE  /\ saved' \in [Slots -> Ages \union {None}]
         /\ \A i \in Slots : saved'[i] # None => saved'[i] \in (t - 10)..10
<1>1. ASSUME NEW i \in Slots
      PROVE  saved'[i] = None \/ saved'[i] \in (t - 10)..10
  <2>1. saved'[i] = CASE wait /\ BypassE(i) -> First.age + n
                      [] wait /\ ~BypassE(i) /\ saved[i] # None -> saved[i] + n
                      [] OTHER -> None
    BY DEF SavedClock
  <2>2. CASE wait /\ BypassE(i)
    <3>1. First.age = Count(dataI)
      BY <2>2, FirstAge DEF BypassE
    <3>2. saved'[i] = Count(dataI) + n
      BY <2>1, <2>2, <3>1
    <3>3. Count(dataI) <= Total
      BY CountsAre DEF Total
    <3>4. QED
      BY <3>2, <3>3, CountsAre
  <2>3. CASE wait /\ ~BypassE(i) /\ saved[i] # None
    <3>1. saved'[i] = saved[i] + n
      BY <2>1, <2>3
    <3>2. saved[i] \in (Total - 10)..10
      BY <2>3 DEF Bounded
    <3>3. QED
      BY <3>1, <3>2, CountsAre
  <2>4. CASE ~(wait /\ BypassE(i)) /\ ~(wait /\ ~BypassE(i) /\ saved[i] # None)
    BY <2>1, <2>4
  <2>5. QED
    BY <2>2, <2>3, <2>4
<1>2. (t - 10)..10 \subseteq Ages
  BY DEF Ages
<1>3. saved' = [i \in Slots |-> saved'[i]]
  BY DEF SavedClock
<1>4. \A i \in Slots : saved'[i] \in Ages \union {None}
  BY <1>1, <1>2
<1>5. QED
  BY <1>1, <1>3, <1>4

LEMMA NothingSaved ==
  ASSUME NEW n, SavedClock(FALSE, n)
  PROVE  /\ saved' \in [Slots -> Ages \union {None}]
         /\ \A i \in Slots : saved'[i] = None
<1>1. \A i \in Slots : saved'[i] = None
  BY DEF SavedClock
<1>2. saved' = [i \in Slots |-> saved'[i]]
  BY DEF SavedClock
<1>3. QED
  BY <1>1, <1>2

(* The register file takes the youngest write that is kept. *)
LEMMA WrittenIs ==
  ASSUME AgesExact, NEW kept \in {{}, {1}, {0, 1}}, NEW n \in Int, RegfileClock(kept, n)
  PROVE  LET k == Cardinality(kept \intersect Writers(dataM3))
         IN  /\ k \in 0..Count(dataM3)
             /\ kept = {0, 1} => k = Count(dataM3)
             /\ regs' = n + Total - k
<1> DEFINE w == kept \intersect Writers(dataM3)
           k == Cardinality(w)
           s == Count(dataI) + Count(dataE) + Count(dataM1) + Count(dataM2)
<1>1. /\ 0 \in Writers(dataM3) <=> IsWriter(dataM3[0])
      /\ 1 \in Writers(dataM3) <=> IsWriter(dataM3[1])
      /\ Writers(dataM3) \subseteq {0, 1}
  BY SlotsAre DEF Writers, Slots
<1>2. /\ s \in Nat /\ Total = s + Count(dataM3)
      /\ regs = Total /\ AgesOf(dataM3, s)
  BY CountsAre DEF Total, AgesExact
<1>3. /\ Weight(dataM3[0]) \in {0, 1} /\ (Weight(dataM3[0]) = 1 <=> IsWriter(dataM3[0]))
      /\ Weight(dataM3[1]) \in {0, 1} /\ (Weight(dataM3[1]) = 1 <=> IsWriter(dataM3[1]))
      /\ Count(dataM3) = Weight(dataM3[0]) + Weight(dataM3[1])
  BY WeightIs DEF Count
<1>4. regs' = n + (IF w = {} THEN regs ELSE dataM3[Min(w)].age)
  BY DEF RegfileClock
<1>5. kept = {0, 1} => w = Writers(dataM3)
  BY <1>1
<1>6. Cardinality(Writers(dataM3)) = Count(dataM3)
  BY CountIs
<1>7. Cardinality({}) = 0 /\ Cardinality({1}) = 1
  BY FS_EmptySet, FS_Singleton
<1> HIDE DEF w, s
<1>8. CASE w = {}
  <2>1. k = 0 /\ regs' = n + Total
    BY <1>2, <1>4, <1>7, <1>8
  <2>2. kept = {0, 1} => k = Count(dataM3)
    BY <1>5, <1>6
  <2>3. regs' = n + Total - k /\ k \in 0..Count(dataM3)
    BY <2>1, CountsAre
  <2>4. QED
    BY <2>2, <2>3 DEF w
<1>9. CASE w # {} /\ kept = {0, 1}
  <2>1. k = Count(dataM3)
    BY <1>5, <1>6, <1>9
  <2>2. Count(dataM3) > 0 /\ dataM3[Min(w)] = Youngest(dataM3)
    BY <1>5, <1>9, CountIs
  <2>3. Youngest(dataM3).age = s
    BY <1>2, <1>3, <2>2, CountIs DEF AgesOf, Youngest
  <2>4. regs' = n + s
    BY <1>4, <1>9, <2>2, <2>3
  <2>5. QED
    BY <1>2, <2>1, <2>4, CountsAre DEF w
<1>10. CASE w # {} /\ kept = {1}
  <2>1. w = {1} /\ IsWriter(dataM3[1])
    BY <1>1, <1>10 DEF w
  <2>2. Min(w) = 1
    BY <2>1 DEF Min
  <2>3. dataM3[1].age = s + Weight(dataM3[0])
    BY <1>2, <2>1 DEF AgesOf
  <2>4. k = 1 /\ Count(dataM3) = Weight(dataM3[0]) + 1
    BY <1>3, <1>7, <2>1
  <2>5. regs' = n + (s + Weight(dataM3[0]))
    BY <1>4, <1>10, <2>2, <2>3
  <2>6. 0 # 1
    OBVIOUS
  <2>7. kept # {0, 1}
    BY <1>10, <2>6
  <2>8. QED
    BY <1>2, <1>3, <2>4, <2>5, <2>7 DEF w
<1>11. w # {} => kept # {}
  BY DEF w
<1>12. QED
  BY <1>8, <1>9, <1>10, <1>11

-----------------------------------------------------------------------------
(* Every cycle preserves the invariant.                                    *)

LEMMA UnitsNext ==
  ASSUME OperandInv, NEW hold \in BOOLEAN, UnitsClock(hold),
         taken' \in BOOLEAN, taken' => FlushDividing \/ Uses("div")' = {},
         hold => dataI' = dataI,
         ~hold => dataI' = NoBundle \/ ~EWait,
         ~hold /\ ~FlushDividing => Uses("div") = {} \/ ~EWait
  PROVE  /\ Units'
         /\ mult' \in {"INIT", "DOING"} /\ count' \in 0..DivDelay
         /\ {taken, mult_of, div_of}' \subseteq BOOLEAN
<1>1. /\ mult' = MultNext /\ count' = CountNext
      /\ mult_of' = (hold /\ \A i \in Uses("mul") : Right(i))
      /\ div_of' = (hold /\ (count > 0 => div_of) /\ \A i \in Uses("div") : Right(i))
  BY DEF UnitsClock
<1>2. \A u : Judged(u) => \A i \in Uses(u) : Right(i)
  BY OperandsRight DEF Uses, Judged
<1>3. count \in 0..DivDelay /\ DivDelay \in Nat \ {0}
  BY BoundsAssumption DEF OperandInv, TypeOK
<1>4. count' \in 0..DivDelay
  <2>1. /\ count > 0 => CountNext = count - 1
        /\ count = 0 /\ Uses("div") # {} => CountNext = DivDelay
        /\ count = 0 /\ Uses("div") = {} => CountNext = 0
    BY <1>3 DEF CountNext
  <2>2. QED
    BY <1>1, <1>3, <2>1
<1>5. mult' \in {"INIT", "DOING"} /\ mult_of' \in BOOLEAN /\ div_of' \in BOOLEAN
  BY <1>1 DEF MultNext
<1>6. hold => \A u : Uses(u)' = Uses(u) /\ (Judged(u)' <=> Judged(u))
  BY DEF Uses, Judged
<1>7. dataI' = NoBundle => \A u : Uses(u)' = {}
  <2>1. SUFFICES ASSUME dataI' = NoBundle
                 PROVE  \A u : Uses(u)' = {}
    OBVIOUS
  <2>2. \A i \in Slots : dataI'[i] = None
    BY <2>1, NoBundleIs
  <2>3. QED
    BY <2>2 DEF Uses
<1>8. ASSUME mult' = "DOING", Judged("mul")'
      PROVE  mult_of'
  <2>1. EWait
    BY <1>1, <1>8 DEF MultNext, EWait
  <2>2. hold
    BY <1>7, <1>8, <2>1 DEF Judged
  <2>3. QED
    BY <1>1, <1>2, <1>6, <1>8, <2>2
<1>9. ASSUME ~FlushDividing, count' > 0
      PROVE  Uses("div")' # {} /\ (Judged("div")' => div_of')
  <2>1. count > 0 => Uses("div") # {} /\ (Judged("div") => div_of)
    BY <1>9 DEF OperandInv, Units
  <2>2. Uses("div") # {}
    BY <1>1, <1>3, <1>9, <2>1 DEF CountNext
  <2>3. EWait
    BY <1>1, <1>9, <2>2 DEF EWait
  <2>4. hold
    BY <1>9, <2>2, <2>3
  <2>5. QED
    BY <1>1, <1>2, <1>6, <2>1, <2>2, <2>4
<1>10. Units'
  BY <1>8, <1>9 DEF Units
<1>11. QED
  BY <1>4, <1>5, <1>10

LEMMA HeadNext ==
  ASSUME HeadClock
  PROVE  head' \in Decoded \union {None} /\ (IsWriter(head') => Total' < MaxWriters)
<1>1. head' = None \/ (head' \in Decoded /\ (IsWriter(head') => InFlight' < MaxWriters))
  BY DEF HeadClock
<1>2. ~IsWriter(None)
  BY WriterIs
<1>3. QED
  BY <1>1, <1>2, InFlightIsNext

(* The queue's candidate stays where no writer is issued. *)
LEMMA HeadStays ==
  ASSUME TypeOK, Bounded, Total' \in 0..10, Total' <= Total,
         HeadClock \/ head' = head
  PROVE  head' \in Decoded \union {None} /\ (IsWriter(head') => Total' < MaxWriters)
<1>1. CASE HeadClock
  BY <1>1, HeadNext
<1>2. CASE head' = head
  <2>1. head \in Decoded \union {None} /\ (IsWriter(head) => Total < MaxWriters)
    BY DEF TypeOK, Bounded
  <2>2. Total \in Int /\ MaxWriters \in Int
    BY CountsAre, BoundsAssumption
  <2>3. QED
    BY <1>2, <2>1, <2>2
<1>3. QED
  BY <1>1, <1>2

LEMMA EmptyBundle ==
  /\ NoBundle \in [Slots -> Entries \union {None}]
  /\ NoBundle \in [Slots -> LaterEntries \union {None}]
  /\ NeedsOf(NoBundle) /\ \A m : AgesOf(NoBundle, m)
BY NoBundleIs, WriterIs DEF NoBundle, NeedsOf, AgesOf

LEMMA FlushStep ==
  ASSUME OperandInv, NEW kept \in {{}, {1}, {0, 1}}, NEW wait \in BOOLEAN, NEW n,
         Values(kept, wait, n), Flushes(kept, n), moved' \in {"issued", "free", "stalled"}
  PROVE  OperandInv'
<1>1. /\ dataI' = NoBundle /\ dataE' = NoBundle /\ dataM1' = NoBundle
      /\ dataM2' = NoBundle /\ dataM3' = NoBundle
      /\ taken' = FALSE /\ UnitsClock(FALSE) /\ HeadClock
      /\ ~FlushDividing => Uses("div") = {}
      /\ n = Cardinality(kept \intersect Writers(dataM3)) - Total
  BY DEF Flushes
<1>2. TypeOK /\ AgesExact /\ Bounded /\ RegfileClock(kept, n) /\ SavedClock(wait, n)
  BY DEF OperandInv, Values
<1>3. /\ Count(dataI') = 0 /\ Count(dataE') = 0 /\ Count(dataM1') = 0
      /\ Count(dataM2') = 0 /\ Count(dataM3') = 0
  BY <1>1, NoBundleIs
<1>4. Total' = 0
  BY <1>3 DEF Total
<1> DEFINE k == Cardinality(kept \intersect Writers(dataM3))
<1>5. n = k - Total /\ Total \in 0..10 /\ Count(dataM3) \in 0..2 /\ Count(dataM3) <= Total
  BY <1>1, CountsAre DEF Total
<1>6. k \in 0..Count(dataM3)
  <2>1. k \in Int
    <3>1. kept \intersect Writers(dataM3) \in SUBSET ({0} \union {1})
      BY DEF Writers, Slots
    <3>2. IsFiniteSet({0} \union {1})
      BY FS_Singleton, FS_AddElement
    <3>3. IsFiniteSet(kept \intersect Writers(dataM3))
      BY <3>1, <3>2, FS_Subset
    <3>4. QED
      BY <3>3, FS_CardinalityType
  <2>2. n \in Int
    BY <1>5, <2>1
  <2>3. QED
    BY <1>2, <2>2, WrittenIs
<1>7. n \in Int
  BY <1>5, <1>6
<1>8. regs' = n + Total - k
  BY <1>2, <1>7, WrittenIs
<1> HIDE DEF k
<1>9. regs' = 0 /\ n <= 0 /\ 0 <= Total + n
  BY <1>5, <1>6, <1>8
<1>10. /\ saved' \in [Slots -> Ages \union {None}]
       /\ \A i \in Slots : saved'[i] # None => saved'[i] \in (0 - 10)..10
  BY <1>2, <1>7, <1>9, SavedBounds
<1>11. /\ Units' /\ mult' \in {"INIT", "DOING"} /\ count' \in 0..DivDelay
       /\ {taken, mult_of, div_of}' \subseteq BOOLEAN
  BY <1>1, UnitsNext
<1>12. head' \in Decoded \union {None} /\ (IsWriter(head') => Total' < MaxWriters)
  BY <1>1, HeadNext
<1>13. TypeOK'
  BY <1>1, <1>9, <1>10, <1>11, <1>12, EmptyBundle DEF TypeOK
<1>14. AgesExact'
  BY <1>1, <1>4, <1>9, EmptyBundle DEF AgesExact
<1>15. NeedsOf(dataI') /\ Available' /\ TooOld'
  BY <1>1, EmptyBundle, NoBundleIs DEF Available, TooOld
<1>16. Bounded'
  BY <1>4, <1>10, <1>12, BoundsAssumption DEF Bounded
<1>17. QED
  BY <1>11, <1>13, <1>14, <1>15, <1>16 DEF OperandInv

LEMMA HoldStep ==
  ASSUME OperandInv, NEW n, Values({0, 1}, TRUE, n), Holds(n),
         moved' \in {"issued", "free", "stalled"}
  PROVE  OperandInv'
<1>1. /\ n = 0 /\ dataI' = dataI /\ dataE' = Aged(dataE, n) /\ dataM1' = Aged(dataM1, n)
      /\ dataM2' = NoBundle /\ dataM3' = Aged(dataM2, n)
      /\ taken' = taken /\ UnitsClock(TRUE)
      /\ HeadClock \/ head' = head
  BY DEF Holds
<1>2. /\ TypeOK /\ AgesExact /\ Available /\ TooOld /\ Bounded /\ NeedsOf(dataI) /\ Units
      /\ RegfileClock({0, 1}, n) /\ SavedClock(TRUE, n)
  BY DEF OperandInv, Values
<1>3. /\ n \in Int /\ Count(dataI) \in 0..2 /\ Count(dataE) \in 0..2
      /\ Count(dataM1) \in 0..2 /\ Count(dataM2) \in 0..2 /\ Count(dataM3) \in 0..2
      /\ Total \in 0..10
      /\ Total = Count(dataI) + Count(dataE) + Count(dataM1) + Count(dataM2) + Count(dataM3)
  BY <1>1, CountsAre DEF Total
<1>4. /\ dataE' \in [Slots -> LaterEntries \union {None}]
      /\ Count(dataE') = Count(dataE) /\ AgesOf(dataE', Count(dataI))
      /\ Count(dataE) > 0 => (Delayed(Youngest(dataE')) <=> Delayed(Youngest(dataE)))
  <2>1. AgesOf(dataE, Count(dataI)) /\ Count(dataI) + n = Count(dataI)
    BY <1>1, <1>2, <1>3 DEF AgesExact
  <2>2. Count(dataI) + n >= 0 /\ Count(dataI) + n + Count(dataE) <= 10
    BY <1>1, <1>3
  <2>3. dataE \in [Slots -> LaterEntries \union {None}]
    BY <1>2, BundlesAre
  <2>4. QED
    BY <1>1, <1>3, <2>1, <2>2, <2>3, AgedIs
<1>5. /\ dataM1' \in [Slots -> LaterEntries \union {None}]
      /\ Count(dataM1') = Count(dataM1) /\ AgesOf(dataM1', Count(dataI) + Count(dataE))
      /\ Count(dataM1) > 0 => (Delayed(Youngest(dataM1')) <=> Delayed(Youngest(dataM1)))
  <2> DEFINE m == Count(dataI) + Count(dataE)
  <2>1. AgesOf(dataM1, m) /\ m + n = m
    BY <1>1, <1>2, <1>3 DEF AgesExact
  <2>2. m + n >= 0 /\ m + n + Count(dataM1) <= 10 /\ m \in Int
    BY <1>1, <1>3
  <2>3. dataM1 \in [Slots -> LaterEntries \union {None}]
    BY <1>2, BundlesAre
  <2> HIDE DEF m
  <2>4. /\ dataM1' \in [Slots -> LaterEntries \union {None}]
        /\ Count(dataM1') = Count(dataM1) /\ AgesOf(dataM1', m)
        /\ Count(dataM1) > 0 => (Delayed(Youngest(dataM1')) <=> Delayed(Youngest(dataM1)))
    BY <1>1, <1>3, <2>1, <2>2, <2>3, AgedIs
  <2>5. QED
    BY <2>4 DEF m
<1>6. /\ dataM3' \in [Slots -> LaterEntries \union {None}]
      /\ Count(dataM3') = Count(dataM2)
      /\ AgesOf(dataM3', Count(dataI) + Count(dataE) + Count(dataM1))
      /\ Count(dataM2) > 0 => (Delayed(Youngest(dataM3')) <=> Delayed(Youngest(dataM2)))
  <2> DEFINE m == Count(dataI) + Count(dataE) + Count(dataM1)
  <2>1. AgesOf(dataM2, m) /\ m + n = m
    BY <1>1, <1>2, <1>3 DEF AgesExact
  <2>2. m + n >= 0 /\ m + n + Count(dataM2) <= 10 /\ m \in Int
    BY <1>1, <1>3
  <2>3. dataM2 \in [Slots -> LaterEntries \union {None}]
    BY <1>2, BundlesAre
  <2> HIDE DEF m
  <2>4. /\ dataM3' \in [Slots -> LaterEntries \union {None}]
        /\ Count(dataM3') = Count(dataM2) /\ AgesOf(dataM3', m)
        /\ Count(dataM2) > 0 => (Delayed(Youngest(dataM3')) <=> Delayed(Youngest(dataM2)))
    BY <1>1, <1>3, <2>1, <2>2, <2>3, AgedIs
  <2>5. QED
    BY <2>4 DEF m
<1>7. Count(dataM2') = 0
  BY <1>1, NoBundleIs
<1>8. Total' = Total - Count(dataM3)
  BY <1>1, <1>3, <1>4, <1>5, <1>6, <1>7 DEF Total
<1>9. Total' \in 0..10 /\ Total' <= Total
  BY <1>3, <1>8
<1>10. regs' = Total'
  <2>1. regs' = n + Total - Count(dataM3)
    BY <1>2, <1>3, WrittenIs
  <2>2. QED
    BY <1>1, <1>3, <1>8, <2>1
<1>11. /\ saved' \in [Slots -> Ages \union {None}]
       /\ \A i \in Slots : saved'[i] # None => saved'[i] \in (Total' - 10)..10
  <2>1. n <= 0 /\ Total' <= Total + n
    BY <1>1, <1>3, <1>9
  <2>2. QED
    BY <1>2, <1>3, <1>9, <2>1, SavedBounds
<1>12. /\ Units' /\ mult' \in {"INIT", "DOING"} /\ count' \in 0..DivDelay
       /\ {taken, mult_of, div_of}' \subseteq BOOLEAN
  <2>1. taken' \in BOOLEAN
    BY <1>1, <1>2 DEF TypeOK
  <2>2. taken' => FlushDividing \/ Uses("div")' = {}
    BY <1>1, <1>2 DEF Units, Uses
  <2>3. QED
    BY <1>1, <2>1, <2>2, UnitsNext
<1>13. head' \in Decoded \union {None} /\ (IsWriter(head') => Total' < MaxWriters)
  BY <1>1, <1>2, <1>9, HeadStays
<1>14. TypeOK'
  <2>1. dataI' \in [Slots -> Entries \union {None}]
    BY <1>1, <1>2, BundlesAre
  <2>2. {dataE, dataM1, dataM2, dataM3}' \subseteq [Slots -> LaterEntries \union {None}]
    BY <1>1, <1>4, <1>5, <1>6, EmptyBundle
  <2>3. QED
    BY <1>9, <1>10, <1>11, <1>12, <1>13, <2>1, <2>2 DEF TypeOK
<1>15. AgesExact'
  <2>1. AgesOf(dataI', 0) /\ AgesOf(dataE', Count(dataI'))
    BY <1>1, <1>2, <1>4 DEF AgesExact
  <2>2. AgesOf(dataM1', Count(dataI') + Count(dataE'))
    BY <1>1, <1>4, <1>5
  <2>3. AgesOf(dataM2', Count(dataI') + Count(dataE') + Count(dataM1'))
    BY <1>1, EmptyBundle
  <2>4. AgesOf(dataM3', Count(dataI') + Count(dataE') + Count(dataM1') + Count(dataM2'))
    <3>1. Count(dataI') + Count(dataE') + Count(dataM1') + Count(dataM2') =
            Count(dataI) + Count(dataE) + Count(dataM1)
      BY <1>1, <1>3, <1>4, <1>5, <1>7
    <3>2. QED
      BY <1>6, <3>1
  <2>5. QED
    BY <1>10, <2>1, <2>2, <2>3, <2>4 DEF AgesExact
<1>16. NeedsOf(dataI')
  BY <1>1, <1>2
<1>17. Available'
  <2>1. SUFFICES ASSUME NEW i \in Slots, dataI[i] # None, dataI[i].reads,
                        ~dataI[i].missed
                 PROVE  /\ Count(dataE') > 0 => ~Delayed(Youngest(dataE'))
                        /\ Count(dataE') = 0 /\ Count(dataM1') > 0 =>
                             ~Delayed(Youngest(dataM1'))
                        /\ Kept(i)' = Count(dataI')
    BY <1>1, <1>7 DEF Available
  <2>2. /\ Count(dataE) > 0 => ~Delayed(Youngest(dataE))
        /\ Count(dataE) = 0 /\ Count(dataM1) > 0 => ~Delayed(Youngest(dataM1))
    BY <1>2, <2>1 DEF Available
  <2>3. Kept(i)' = Count(dataI')
    BY <1>1, <1>2, <2>1, WaitKeeps
  <2>4. QED
    BY <1>4, <1>5, <2>2, <2>3
<1>18. TooOld'
  BY <1>1, <1>2, WaitCorrects
<1>19. Bounded'
  <2>1. Total' <= MaxWriters
    BY <1>2, <1>3, <1>9, BoundsAssumption DEF Bounded
  <2>2. QED
    BY <1>11, <1>13, <2>1 DEF Bounded
<1>20. QED
  BY <1>12, <1>14, <1>15, <1>16, <1>17, <1>18, <1>19 DEF OperandInv

(* The bundles behind execute move on and age by n. *)
LEMMA MovesAre ==
  ASSUME TypeOK, AgesExact, NEW n \in Int, Moves(n),
         Count(dataI) + n >= 0, Total + n <= 10
  PROVE  /\ dataM1' \in [Slots -> LaterEntries \union {None}]
         /\ dataM2' \in [Slots -> LaterEntries \union {None}]
         /\ dataM3' \in [Slots -> LaterEntries \union {None}]
         /\ Count(dataM1') = Count(dataE) /\ AgesOf(dataM1', Count(dataI) + n)
         /\ Count(dataM2') = Count(dataM1)
         /\ AgesOf(dataM2', Count(dataI) + Count(dataE) + n)
         /\ Count(dataM3') = Count(dataM2)
         /\ AgesOf(dataM3', Count(dataI) + Count(dataE) + Count(dataM1) + n)
         /\ Count(dataE) > 0 => (Delayed(Youngest(dataM1')) <=> Delayed(Youngest(dataE)))
         /\ Count(dataM1) > 0 => (Delayed(Youngest(dataM2')) <=> Delayed(Youngest(dataM1)))
         /\ Count(dataM2) > 0 => (Delayed(Youngest(dataM3')) <=> Delayed(Youngest(dataM2)))
<1> DEFINE mE == Count(dataI)
           m1 == Count(dataI) + Count(dataE)
           m2 == Count(dataI) + Count(dataE) + Count(dataM1)
<1>1. /\ Total = m2 + Count(dataM2) + Count(dataM3) /\ Total \in 0..10
      /\ m1 = mE + Count(dataE) /\ m2 = m1 + Count(dataM1)
      /\ mE \in Int /\ m1 \in Int /\ m2 \in Int
      /\ Count(dataE) \in 0..2 /\ Count(dataM1) \in 0..2
      /\ Count(dataM2) \in 0..2 /\ Count(dataM3) \in 0..2
      /\ mE + n >= 0
  BY CountsAre DEF Total
<1>2. AgesOf(dataE, mE) /\ AgesOf(dataM1, m1) /\ AgesOf(dataM2, m2)
  BY DEF AgesExact
<1>3. dataM1' = Aged(dataE, n) /\ dataM2' = Aged(dataM1, n) /\ dataM3' = Aged(dataM2, n)
  BY DEF Moves
<1> HIDE DEF mE, m1, m2
<1>4. /\ mE + n >= 0 /\ mE + n + Count(dataE) <= 10
      /\ m1 + n >= 0 /\ m1 + n + Count(dataM1) <= 10
      /\ m2 + n >= 0 /\ m2 + n + Count(dataM2) <= 10
  <2>1. n \in Int /\ Total + n <= 10
    OBVIOUS
  <2>2. m2 + n + Count(dataM2) <= 10
    BY <1>1, <2>1
  <2>3. m1 + n + Count(dataM1) <= 10 /\ mE + n + Count(dataE) <= 10
    BY <1>1, <2>1
  <2>4. m1 + n >= 0 /\ m2 + n >= 0
    BY <1>1, <2>1
  <2>5. QED
    BY <1>1, <2>2, <2>3, <2>4
<1>5. /\ dataM1' \in [Slots -> LaterEntries \union {None}]
      /\ Count(dataM1') = Count(dataE) /\ AgesOf(dataM1', mE + n)
      /\ Count(dataE) > 0 => (Delayed(Youngest(dataM1')) <=> Delayed(Youngest(dataE)))
  BY <1>1, <1>2, <1>3, <1>4, BundlesAre, AgedIs
<1>6. /\ dataM2' \in [Slots -> LaterEntries \union {None}]
      /\ Count(dataM2') = Count(dataM1) /\ AgesOf(dataM2', m1 + n)
      /\ Count(dataM1) > 0 => (Delayed(Youngest(dataM2')) <=> Delayed(Youngest(dataM1)))
  BY <1>1, <1>2, <1>3, <1>4, BundlesAre, AgedIs
<1>7. /\ dataM3' \in [Slots -> LaterEntries \union {None}]
      /\ Count(dataM3') = Count(dataM2) /\ AgesOf(dataM3', m2 + n)
      /\ Count(dataM2) > 0 => (Delayed(Youngest(dataM3')) <=> Delayed(Youngest(dataM2)))
  BY <1>1, <1>2, <1>3, <1>4, BundlesAre, AgedIs
<1>8. QED
  BY <1>5, <1>6, <1>7 DEF mE, m1, m2

LEMMA BranchStep ==
  ASSUME OperandInv, NEW wait \in BOOLEAN, NEW n, Values({0, 1}, wait, n), Branches(n),
         moved' \in {"issued", "free", "stalled"}
  PROVE  OperandInv'
<1>1. /\ n = -Count(dataI) /\ dataI' = NoBundle /\ dataE' = NoBundle /\ Moves(n)
      /\ taken /\ taken' = FALSE /\ UnitsClock(FALSE) /\ HeadClock
  BY DEF Branches
<1>2. /\ TypeOK /\ AgesExact /\ Bounded /\ Units
      /\ RegfileClock({0, 1}, n) /\ SavedClock(wait, n)
  BY DEF OperandInv, Values
<1>3. /\ n \in Int /\ Count(dataI) \in 0..2 /\ Count(dataE) \in 0..2
      /\ Count(dataM1) \in 0..2 /\ Count(dataM2) \in 0..2 /\ Count(dataM3) \in 0..2
      /\ Total \in 0..10
      /\ Total = Count(dataI) + Count(dataE) + Count(dataM1) + Count(dataM2) + Count(dataM3)
  BY <1>1, CountsAre DEF Total
<1>4. Count(dataI) + n = 0 /\ Count(dataI) + n >= 0 /\ Total + n <= 10 /\ n <= 0
  BY <1>1, <1>3
<1>5. /\ dataM1' \in [Slots -> LaterEntries \union {None}]
      /\ dataM2' \in [Slots -> LaterEntries \union {None}]
      /\ dataM3' \in [Slots -> LaterEntries \union {None}]
      /\ Count(dataM1') = Count(dataE) /\ AgesOf(dataM1', Count(dataI) + n)
      /\ Count(dataM2') = Count(dataM1) /\ AgesOf(dataM2', Count(dataI) + Count(dataE) + n)
      /\ Count(dataM3') = Count(dataM2)
      /\ AgesOf(dataM3', Count(dataI) + Count(dataE) + Count(dataM1) + n)
  BY <1>1, <1>2, <1>3, <1>4, MovesAre
<1>6. Count(dataI') = 0 /\ Count(dataE') = 0
  BY <1>1, NoBundleIs
<1>7. Total' = Total + n - Count(dataM3)
  <2>1. Total' = Count(dataI') + Count(dataE') + Count(dataM1') + Count(dataM2') + Count(dataM3')
    BY DEF Total
  <2>2. Total' = Count(dataE) + Count(dataM1) + Count(dataM2)
    BY <1>3, <1>5, <1>6, <2>1
  <2>3. Total + n - Count(dataM3) = Count(dataE) + Count(dataM1) + Count(dataM2)
    <3>1. n = -Count(dataI)
      BY <1>1
    <3>2. QED
      BY <1>3, <3>1
  <2>4. QED
    BY <2>2, <2>3
<1>8. Total' \in 0..10 /\ Total' <= Total + n
  <2>1. Total' = Count(dataE) + Count(dataM1) + Count(dataM2)
    BY <1>1, <1>3, <1>7
  <2>2. QED
    BY <1>1, <1>3, <1>7, <2>1
<1>9. regs' = Total'
  <2>1. regs' = n + Total - Count(dataM3)
    BY <1>2, <1>3, WrittenIs
  <2>2. QED
    BY <1>3, <1>7, <2>1
<1>10. /\ saved' \in [Slots -> Ages \union {None}]
       /\ \A i \in Slots : saved'[i] # None => saved'[i] \in (Total' - 10)..10
  BY <1>2, <1>3, <1>4, <1>8, SavedBounds
<1>11. /\ Units' /\ mult' \in {"INIT", "DOING"} /\ count' \in 0..DivDelay
       /\ {taken, mult_of, div_of}' \subseteq BOOLEAN
  <2>1. ~FlushDividing => Uses("div") = {}
    BY <1>1, <1>2 DEF Units
  <2>2. QED
    BY <1>1, <2>1, UnitsNext
<1>12. head' \in Decoded \union {None} /\ (IsWriter(head') => Total' < MaxWriters)
  BY <1>1, HeadNext
<1>13. TypeOK'
  <2>1. {dataE, dataM1, dataM2, dataM3}' \subseteq [Slots -> LaterEntries \union {None}]
    BY <1>1, <1>5, EmptyBundle
  <2>2. dataI' \in [Slots -> Entries \union {None}]
    BY <1>1, EmptyBundle
  <2>3. QED
    BY <1>8, <1>9, <1>10, <1>11, <1>12, <2>1, <2>2 DEF TypeOK
<1>14. AgesExact'
  <2>1. AgesOf(dataI', 0) /\ AgesOf(dataE', Count(dataI'))
    BY <1>1, EmptyBundle
  <2>2. AgesOf(dataM1', Count(dataI') + Count(dataE'))
    BY <1>4, <1>5, <1>6
  <2>3. AgesOf(dataM2', Count(dataI') + Count(dataE') + Count(dataM1'))
    <3>1. Count(dataI') + Count(dataE') + Count(dataM1') = Count(dataI) + Count(dataE) + n
      BY <1>1, <1>3, <1>5, <1>6
    <3>2. QED
      BY <1>5, <3>1
  <2>4. AgesOf(dataM3', Count(dataI') + Count(dataE') + Count(dataM1') + Count(dataM2'))
    <3>1. Count(dataI') + Count(dataE') + Count(dataM1') + Count(dataM2') =
            Count(dataI) + Count(dataE) + Count(dataM1) + n
      BY <1>1, <1>3, <1>5, <1>6
    <3>2. QED
      BY <1>5, <3>1
  <2>5. QED
    BY <1>9, <2>1, <2>2, <2>3, <2>4 DEF AgesExact
<1>15. NeedsOf(dataI') /\ Available' /\ TooOld'
  BY <1>1, EmptyBundle, NoBundleIs DEF Available, TooOld
<1>16. Bounded'
  <2>1. Total' <= MaxWriters
    BY <1>2, <1>3, <1>4, <1>8, BoundsAssumption DEF Bounded
  <2>2. QED
    BY <1>10, <1>12, <2>1 DEF Bounded
<1>17. QED
  BY <1>11, <1>13, <1>14, <1>15, <1>16 DEF OperandInv

LEMMA WaitStep ==
  ASSUME OperandInv, NEW n, Values({0, 1}, TRUE, n), Waits(n),
         moved' \in {"issued", "free", "stalled"}
  PROVE  OperandInv'
<1>1. /\ n = 0 /\ dataI' = dataI /\ dataE' = NoBundle /\ Moves(n)
      /\ taken' = FALSE /\ UnitsClock(TRUE) /\ (HeadClock \/ head' = head)
  BY DEF Waits
<1>2. /\ TypeOK /\ AgesExact /\ Available /\ TooOld /\ Bounded /\ NeedsOf(dataI) /\ Units
      /\ RegfileClock({0, 1}, n) /\ SavedClock(TRUE, n)
  BY DEF OperandInv, Values
<1>3. /\ n \in Int /\ Count(dataI) \in 0..2 /\ Count(dataE) \in 0..2
      /\ Count(dataM1) \in 0..2 /\ Count(dataM2) \in 0..2 /\ Count(dataM3) \in 0..2
      /\ Total \in 0..10
      /\ Total = Count(dataI) + Count(dataE) + Count(dataM1) + Count(dataM2) + Count(dataM3)
  BY <1>1, CountsAre DEF Total
<1>4. Count(dataI) + n >= 0 /\ Total + n <= 10 /\ n <= 0
  BY <1>1, <1>3
<1>5. /\ dataM1' \in [Slots -> LaterEntries \union {None}]
      /\ dataM2' \in [Slots -> LaterEntries \union {None}]
      /\ dataM3' \in [Slots -> LaterEntries \union {None}]
      /\ Count(dataM1') = Count(dataE) /\ AgesOf(dataM1', Count(dataI) + n)
      /\ Count(dataM2') = Count(dataM1) /\ AgesOf(dataM2', Count(dataI) + Count(dataE) + n)
      /\ Count(dataM3') = Count(dataM2)
      /\ AgesOf(dataM3', Count(dataI) + Count(dataE) + Count(dataM1) + n)
      /\ Count(dataE) > 0 => (Delayed(Youngest(dataM1')) <=> Delayed(Youngest(dataE)))
      /\ Count(dataM1) > 0 => (Delayed(Youngest(dataM2')) <=> Delayed(Youngest(dataM1)))
  BY <1>1, <1>2, <1>3, <1>4, MovesAre
<1>6. Count(dataE') = 0
  BY <1>1, NoBundleIs
<1>7. Total' = Total - Count(dataM3)
  BY <1>1, <1>3, <1>5, <1>6 DEF Total
<1>8. Total' \in 0..10 /\ Total' <= Total + n /\ Total' <= Total
  BY <1>1, <1>3, <1>7
<1>9. regs' = Total'
  <2>1. regs' = n + Total - Count(dataM3)
    BY <1>2, <1>3, WrittenIs
  <2>2. QED
    BY <1>1, <1>3, <1>7, <2>1
<1>10. /\ saved' \in [Slots -> Ages \union {None}]
       /\ \A i \in Slots : saved'[i] # None => saved'[i] \in (Total' - 10)..10
  BY <1>2, <1>3, <1>4, <1>8, SavedBounds
<1>11. /\ Units' /\ mult' \in {"INIT", "DOING"} /\ count' \in 0..DivDelay
       /\ {taken, mult_of, div_of}' \subseteq BOOLEAN
  BY <1>1, UnitsNext
<1>12. head' \in Decoded \union {None} /\ (IsWriter(head') => Total' < MaxWriters)
  BY <1>1, <1>2, <1>8, HeadStays
<1>13. TypeOK'
  <2>1. {dataE, dataM1, dataM2, dataM3}' \subseteq [Slots -> LaterEntries \union {None}]
    BY <1>1, <1>5, EmptyBundle
  <2>2. dataI' \in [Slots -> Entries \union {None}]
    BY <1>1, <1>2, BundlesAre
  <2>3. QED
    BY <1>8, <1>9, <1>10, <1>11, <1>12, <2>1, <2>2 DEF TypeOK
<1>14. AgesExact'
  <2>1. AgesOf(dataI', 0) /\ AgesOf(dataE', Count(dataI'))
    BY <1>1, <1>2, EmptyBundle DEF AgesExact
  <2>2. AgesOf(dataM1', Count(dataI') + Count(dataE'))
    <3>1. Count(dataI') + Count(dataE') = Count(dataI) + n
      BY <1>1, <1>3, <1>6
    <3>2. QED
      BY <1>5, <3>1
  <2>3. AgesOf(dataM2', Count(dataI') + Count(dataE') + Count(dataM1'))
    <3>1. Count(dataI') + Count(dataE') + Count(dataM1') = Count(dataI) + Count(dataE) + n
      BY <1>1, <1>3, <1>5, <1>6
    <3>2. QED
      BY <1>5, <3>1
  <2>4. AgesOf(dataM3', Count(dataI') + Count(dataE') + Count(dataM1') + Count(dataM2'))
    <3>1. Count(dataI') + Count(dataE') + Count(dataM1') + Count(dataM2') =
            Count(dataI) + Count(dataE) + Count(dataM1) + n
      BY <1>1, <1>3, <1>5, <1>6
    <3>2. QED
      BY <1>5, <3>1
  <2>5. QED
    BY <1>9, <2>1, <2>2, <2>3, <2>4 DEF AgesExact
<1>15. NeedsOf(dataI')
  BY <1>1, <1>2
<1>16. Available'
  <2>1. SUFFICES ASSUME NEW i \in Slots, dataI[i] # None, dataI[i].reads,
                        ~dataI[i].missed
                 PROVE  /\ Count(dataM1') > 0 => ~Delayed(Youngest(dataM1'))
                        /\ Count(dataM1') = 0 /\ Count(dataM2') > 0 =>
                             ~Delayed(Youngest(dataM2'))
                        /\ Kept(i)' = Count(dataI')
    BY <1>1, <1>6 DEF Available
  <2>2. /\ Count(dataE) > 0 => ~Delayed(Youngest(dataE))
        /\ Count(dataE) = 0 /\ Count(dataM1) > 0 => ~Delayed(Youngest(dataM1))
    BY <1>2, <2>1 DEF Available
  <2>3. Kept(i)' = Count(dataI')
    BY <1>1, <1>2, <2>1, WaitKeeps
  <2>4. QED
    BY <1>5, <2>2, <2>3
<1>17. TooOld'
  BY <1>1, <1>2, WaitCorrects
<1>18. Bounded'
  <2>1. Total' <= MaxWriters
    BY <1>2, <1>3, <1>8, BoundsAssumption DEF Bounded
  <2>2. QED
    BY <1>10, <1>12, <2>1 DEF Bounded
<1>19. QED
  BY <1>11, <1>13, <1>14, <1>15, <1>16, <1>17, <1>18 DEF OperandInv

LEMMA AdvanceStep ==
  ASSUME OperandInv, NEW c2 \in Candidates, NEW failed \in SUBSET Conditional, NEW n,
         Values({0, 1}, FALSE, n), Advances(c2, failed, n),
         moved' \in {"issued", "free", "stalled"}
  PROVE  OperandInv'
<1> DEFINE new == IssuedBundle(c2, failed)
           f == Cardinality(failed)
           left == Count(dataI) - f
<1>1. /\ n = Count(new) - f /\ ~EWait /\ dataI' = new
      /\ dataE' = Aged(Results(dataI, failed), n) /\ Moves(n) /\ UnitsClock(FALSE)
      /\ taken' \in BOOLEAN /\ (taken' => FlushDividing \/ Uses("div")' = {})
      /\ HeadClock \/ (new[1] = None /\ head' = head)
  BY DEF Advances
<1>2. /\ TypeOK /\ AgesExact /\ Available /\ TooOld /\ Bounded /\ Units
      /\ RegfileClock({0, 1}, n) /\ SavedClock(FALSE, n)
  BY DEF OperandInv, Values
<1>3. /\ Count(new) \in 0..2 /\ f \in 0..Count(dataI) /\ Count(dataI) \in 0..2 /\ Count(dataE) \in 0..2
      /\ Count(dataM1) \in 0..2 /\ Count(dataM2) \in 0..2 /\ Count(dataM3) \in 0..2
      /\ Total \in 0..10 /\ MaxWriters \in 1..10
      /\ Total = Count(dataI) + Count(dataE) + Count(dataM1) + Count(dataM2) + Count(dataM3)
  BY <1>1, ConditionalAre, CountIs, CountsAre, BoundsAssumption DEF Total
<1>4. /\ new \in [Slots -> Entries \union {None}]
      /\ AgesOf(new, 0) /\ NeedsOf(new)
      /\ Total + Count(new) <= MaxWriters
      /\ \A i \in Slots : new[i] # None /\ new[i].reads =>
           /\ Ready /\ new[i].rd = Read + Count(new) - f
           /\ new[i].missed = Misses(failed)
      /\ \A i \in Slots : new[i] # None /\ new[i].missed => new[i].reads
      /\ new[1] = None => Count(new) = 0
  <2>1. head \in Decoded \union {None}
    BY <1>2 DEF TypeOK
  <2>2. QED
    BY <1>1, <1>2, <2>1, IssuedIs
<1> HIDE DEF new, f, left
<1>5. /\ Count(dataI) + n >= 0 /\ Total + n <= 10 /\ n \in Int /\ n <= 2
      /\ Count(dataI) + n = left + Count(new) /\ left \in 0..2 /\ f + n = Count(new)
      /\ Total + n <= MaxWriters
  BY <1>1, <1>3, <1>4 DEF left
<1>6. /\ dataM1' \in [Slots -> LaterEntries \union {None}]
      /\ dataM2' \in [Slots -> LaterEntries \union {None}]
      /\ dataM3' \in [Slots -> LaterEntries \union {None}]
      /\ Count(dataM1') = Count(dataE) /\ AgesOf(dataM1', Count(dataI) + n)
      /\ Count(dataM2') = Count(dataM1) /\ AgesOf(dataM2', Count(dataI) + Count(dataE) + n)
      /\ Count(dataM3') = Count(dataM2)
      /\ AgesOf(dataM3', Count(dataI) + Count(dataE) + Count(dataM1) + n)
      /\ Count(dataE) > 0 => (Delayed(Youngest(dataM1')) <=> Delayed(Youngest(dataE)))
      /\ Count(dataM1) > 0 => (Delayed(Youngest(dataM2')) <=> Delayed(Youngest(dataM1)))
      /\ Count(dataM2) > 0 => (Delayed(Youngest(dataM3')) <=> Delayed(Youngest(dataM2)))
  BY <1>1, <1>2, <1>5, MovesAre
<1>7. /\ dataE' \in [Slots -> LaterEntries \union {None}]
      /\ Count(dataE') = left /\ AgesOf(dataE', Count(new))
      /\ Count(dataI) > 0 /\ Min(Writers(dataI)) \notin failed =>
           left > 0 /\ (Delayed(Youngest(dataE')) <=> Delayed(Youngest(dataI)))
  <2> DEFINE r == Results(dataI, failed)
  <2>1. /\ r \in [Slots -> LaterEntries \union {None}] /\ Count(r) = left
        /\ AgesOf(r, f)
        /\ Count(dataI) > 0 /\ Min(Writers(dataI)) \notin failed =>
             Count(r) > 0 /\ (Delayed(Youngest(r)) <=> Delayed(Youngest(dataI)))
    <3>1. /\ dataI \in [Slots -> Entries \union {None}] /\ AgesOf(dataI, 0)
          /\ failed \in SUBSET Writers(dataI)
      BY <1>2, BundlesAre, ConditionalAre DEF AgesExact
    <3>2. QED
      BY <3>1, ResultsAre DEF f, left
  <2>2. f + n >= 0 /\ f + n + Count(r) <= 10 /\ f + n = Count(new) /\ f \in Int
    BY <1>3, <1>5, <2>1
  <2> HIDE DEF r
  <2>3. /\ Aged(r, n) \in [Slots -> LaterEntries \union {None}]
        /\ Count(Aged(r, n)) = Count(r) /\ AgesOf(Aged(r, n), f + n)
        /\ Count(r) > 0 => (Delayed(Youngest(Aged(r, n))) <=> Delayed(Youngest(r)))
    BY <1>5, <2>1, <2>2, AgedIs
  <2>4. dataE' = Aged(r, n)
    BY <1>1 DEF r
  <2>5. QED
    BY <2>1, <2>2, <2>3, <2>4
<1>8. Total' = Total + n - Count(dataM3)
  <2>1. Total' = Count(new) + left + Count(dataE) + Count(dataM1) + Count(dataM2)
    BY <1>1, <1>6, <1>7 DEF Total
  <2>2. QED
    BY <1>3, <1>5, <2>1
<1>9. Total' \in 0..10 /\ Total' <= Total + n
  <2>1. Total' = Count(new) + left + Count(dataE) + Count(dataM1) + Count(dataM2)
    BY <1>1, <1>6, <1>7 DEF Total
  <2>2. Total' \in 0..10
    <3>1. /\ Count(new) \in 0..2 /\ left \in 0..2
          /\ Count(dataE) \in 0..2 /\ Count(dataM1) \in 0..2 /\ Count(dataM2) \in 0..2
      BY <1>3, <1>5
    <3>2. QED
      BY <2>1, <3>1
  <2>3. Total' <= Total + n
    BY <1>3, <1>5, <1>8
  <2>4. QED
    BY <2>2, <2>3
<1>10. regs' = Total'
  <2>1. regs' = n + Total - Count(dataM3)
    BY <1>2, <1>5, WrittenIs
  <2>2. QED
    BY <1>3, <1>5, <1>8, <2>1
<1>11. /\ saved' \in [Slots -> Ages \union {None}]
       /\ \A i \in Slots : saved'[i] = None
  BY <1>2, NothingSaved
<1>12. /\ Units' /\ mult' \in {"INIT", "DOING"} /\ count' \in 0..DivDelay
       /\ {taken, mult_of, div_of}' \subseteq BOOLEAN
  BY <1>1, UnitsNext
<1>13. head' \in Decoded \union {None} /\ (IsWriter(head') => Total' < MaxWriters)
  <2>1. CASE HeadClock
    BY <2>1, HeadNext
  <2>2. CASE new[1] = None /\ head' = head
    <3>1. Total' <= Total
      BY <1>1, <1>3, <1>4, <1>9, <2>2
    <3>2. QED
      BY <1>2, <1>9, <2>2, <3>1, HeadStays
  <2>3. QED
    BY <1>1, <2>1, <2>2
<1>14. TypeOK'
  <2>1. {dataE, dataM1, dataM2, dataM3}' \subseteq [Slots -> LaterEntries \union {None}]
    BY <1>6, <1>7
  <2>2. dataI' \in [Slots -> Entries \union {None}]
    BY <1>1, <1>4
  <2>3. QED
    BY <1>9, <1>10, <1>11, <1>12, <1>13, <2>1, <2>2 DEF TypeOK
<1>15. AgesExact'
  <2>1. AgesOf(dataI', 0) /\ AgesOf(dataE', Count(dataI'))
    BY <1>1, <1>4, <1>7
  <2>2. AgesOf(dataM1', Count(dataI') + Count(dataE'))
    <3>1. Count(dataI') + Count(dataE') = Count(dataI) + n
      BY <1>1, <1>3, <1>5, <1>7
    <3>2. QED
      BY <1>6, <3>1
  <2>3. AgesOf(dataM2', Count(dataI') + Count(dataE') + Count(dataM1'))
    <3>1. Count(dataI') + Count(dataE') + Count(dataM1') = Count(dataI) + Count(dataE) + n
      BY <1>1, <1>3, <1>5, <1>6, <1>7
    <3>2. QED
      BY <1>6, <3>1
  <2>4. AgesOf(dataM3', Count(dataI') + Count(dataE') + Count(dataM1') + Count(dataM2'))
    <3>1. Count(dataI') + Count(dataE') + Count(dataM1') + Count(dataM2') =
            Count(dataI) + Count(dataE) + Count(dataM1) + n
      BY <1>1, <1>3, <1>5, <1>6, <1>7
    <3>2. QED
      BY <1>6, <3>1
  <2>5. QED
    BY <1>10, <2>1, <2>2, <2>3, <2>4 DEF AgesExact
<1>16. NeedsOf(dataI')
  BY <1>1, <1>4
<1>17. Available'
  <2>1. SUFFICES ASSUME NEW i \in Slots, new[i] # None, new[i].reads, ~new[i].missed
                 PROVE  /\ Count(dataE') > 0 => ~Delayed(Youngest(dataE'))
                        /\ Count(dataE') = 0 /\ Count(dataM1') > 0 =>
                             ~Delayed(Youngest(dataM1'))
                        /\ Count(dataE') = 0 /\ Count(dataM1') = 0 /\ Count(dataM2') > 0 =>
                             ~Delayed(Youngest(dataM2'))
                        /\ Gone' => Kept(i)' = Count(dataI')
    BY <1>1 DEF Available
  <2>2. Ready /\ new[i].rd = Read + Count(new) - f /\ ~Misses(failed)
    BY <1>4, <2>1
  <2>3. /\ Count(dataI) > 0 => ~Delayed(Youngest(dataI)) /\ Read = Total
        /\ Count(dataI) = 0 /\ Count(dataE) > 0 => ~Delayed(Youngest(dataE))
        /\ Count(dataI) = 0 /\ Count(dataE) = 0 /\ Count(dataM1) > 0 =>
             ~Delayed(Youngest(dataM1))
    BY <1>2, <2>2, ReadIs
  <2>4. Kept(i)' = new[i].rd
    BY <1>1, <1>11 DEF Kept
  <2>5. CASE Count(dataI) = 0
    <3>1. left = 0 /\ f = 0
      <4>1. f = 0
        BY <2>5, ConditionalAre DEF f
      <4>2. QED
        BY <2>5, <4>1 DEF left
    <3>2. ASSUME Gone'
          PROVE  Kept(i)' = Count(dataI')
      <4>1. /\ Count(dataE) = 0 /\ Count(dataM1) = 0
            /\ Count(dataM2) > 0 => ~Delayed(Youngest(dataM2))
        BY <1>6, <3>2 DEF Gone
      <4>2. Read = 0
        BY <1>2, <2>2, <2>5, <4>1, ReadIs
      <4>3. QED
        BY <1>1, <1>3, <2>2, <2>4, <3>1, <4>2
    <3>3. QED
      BY <1>6, <1>7, <2>3, <2>5, <3>1, <3>2
  <2>6. CASE Count(dataI) > 0 /\ Min(Writers(dataI)) \notin failed
    BY <1>5, <1>7, <2>3, <2>6 DEF Gone
  <2>7. CASE Count(dataI) > 0 /\ Min(Writers(dataI)) \in failed
    <3>1. Writers(dataI) \ failed = {} /\ Matches = {} /\ Writers(dataI) # {}
      BY <2>2, <2>7, CountIs DEF Misses
    <3>2. f = Count(dataI)
      <4>1. failed \in SUBSET Writers(dataI)
        BY ConditionalAre
      <4>2. failed = Writers(dataI)
        BY <3>1, <4>1
      <4>3. QED
        BY <4>2, CountIs DEF f
    <3>3. /\ Count(dataE) = 0 /\ Count(dataM1) = 0 /\ Count(dataM2) = 0
          /\ Count(dataM3) = 0
      BY <1>3, <3>1, FirstIs
    <3>4. Total = Count(dataI)
      BY <1>3, <3>3
    <3>5. Kept(i)' = Count(dataI')
      BY <1>1, <1>3, <2>2, <2>3, <2>4, <2>7, <3>2, <3>4
    <3>6. left = 0
      BY <1>3, <3>2 DEF left
    <3>7. QED
      BY <1>6, <1>7, <3>3, <3>5, <3>6
  <2>8. QED
    BY <1>3, <2>5, <2>6, <2>7
<1>18. TooOld'
  <2>1. SUFFICES ASSUME NEW i \in Slots, new[i] # None, new[i].missed
                 PROVE  new[i].reads /\ new[i].rd > Count(new)
    BY <1>1, <1>11 DEF TooOld
  <2>2. /\ new[i].reads /\ Misses(failed)
        /\ new[i].rd = Read + Count(new) - f
    BY <1>4, <2>1
  <2>3. Count(dataI) > 0 /\ Read = Total
    BY <1>2, <2>2, CountIs, ReadIs DEF Misses
  <2>4. CASE Writers(dataI) \ failed # {}
    <3>1. f < Count(dataI)
      <4>1. failed \in SUBSET Writers(dataI)
        BY ConditionalAre
      <4>2. failed # Writers(dataI)
        BY <2>4
      <4>3. IsFiniteSet(Writers(dataI))
        <5>1. IsFiniteSet({0} \union {1})
          BY FS_Singleton, FS_AddElement
        <5>2. Writers(dataI) \in SUBSET ({0} \union {1})
          BY DEF Writers, Slots
        <5>3. QED
          BY <5>1, <5>2, FS_Subset
      <4>4. f # Cardinality(Writers(dataI))
        BY <4>1, <4>2, <4>3, FS_Subset DEF f
      <4>5. QED
        BY <1>3, <4>4, CountIs
    <3>2. QED
      BY <1>3, <2>2, <2>3, <3>1
  <2>5. CASE Matches # {}
    <3>1. Count(dataE) > 0 \/ Count(dataM1) > 0 \/ Count(dataM2) > 0 \/ Count(dataM3) > 0
      BY <1>3, <2>5, FirstIs
    <3>2. QED
      BY <1>3, <2>2, <2>3, <3>1
  <2>6. QED
    BY <2>2, <2>4, <2>5 DEF Misses
<1>19. Bounded'
  <2>1. Total' <= MaxWriters
    BY <1>3, <1>5, <1>9
  <2>2. QED
    BY <1>11, <1>13, <2>1 DEF Bounded
<1>20. QED
  BY <1>12, <1>14, <1>15, <1>16, <1>17, <1>18, <1>19 DEF OperandInv

-----------------------------------------------------------------------------
(* Theorems.                                                               *)

LEMMA InitInv == Init => OperandInv
<1> SUFFICES ASSUME Init PROVE OperandInv
  OBVIOUS
<1>1. /\ head = None /\ dataI = NoBundle /\ dataE = NoBundle /\ dataM1 = NoBundle
      /\ dataM2 = NoBundle /\ dataM3 = NoBundle /\ taken = FALSE /\ regs = 0
      /\ saved = NoBundle /\ mult = "INIT" /\ mult_of = FALSE
      /\ count = 0 /\ div_of = FALSE /\ moved = "issued"
  BY DEF Init
<1>2. Total = 0
  BY <1>1, NoBundleIs DEF Total
<1>3. TypeOK
  <2>1. saved \in [Slots -> Ages \union {None}]
    BY <1>1 DEF NoBundle
  <2>2. count \in 0..DivDelay
    BY <1>1, BoundsAssumption
  <2>3. /\ dataI \in [Slots -> Entries \union {None}]
        /\ {dataE, dataM1, dataM2, dataM3} \subseteq [Slots -> LaterEntries \union {None}]
    BY <1>1, EmptyBundle
  <2>4. head \in Decoded \union {None} /\ regs \in 0..10
    BY <1>1
  <2>5. mult \in {"INIT", "DOING"} /\ moved \in {"issued", "free", "stalled"}
    BY <1>1
  <2>6. {taken, mult_of, div_of} \subseteq BOOLEAN
    BY <1>1
  <2>7. QED
    BY <2>1, <2>2, <2>3, <2>4, <2>5, <2>6 DEF TypeOK
<1>4. AgesExact
  BY <1>1, <1>2, EmptyBundle DEF AgesExact
<1>5. NeedsOf(dataI) /\ Available /\ TooOld
  BY <1>1, EmptyBundle, NoBundleIs DEF Available, TooOld
<1>6. Bounded
  BY <1>1, <1>2, NoBundleIs, WriterIs, BoundsAssumption DEF Bounded
<1>7. Units
  BY <1>1 DEF Units
<1>8. QED
  BY <1>3, <1>4, <1>5, <1>6, <1>7 DEF OperandInv

LEMMA ClockInv ==
  ASSUME OperandInv, NEW d_wait \in BOOLEAN, NEW excpW \in BOOLEAN,
         NEW kept \in {{}, {1}, {0, 1}}, ~excpW => kept = {0, 1},
         Clock(d_wait, excpW, kept)
  PROVE  OperandInv'
<1>1. taken \in BOOLEAN
  BY DEF OperandInv, TypeOK
<1>2. moved' \in {"issued", "free", "stalled"}
  BY <1>1, CycleCases
<1>3. PICK n :
        /\ Values(kept, d_wait \/ EWait, n)
        /\ \/ excpW /\ Flushes(kept, n)
           \/ ~excpW /\ d_wait /\ Holds(n)
           \/ ~excpW /\ ~d_wait /\ Branches(n)
           \/ ~excpW /\ ~d_wait /\ Waits(n)
           \/ ~excpW /\ ~d_wait
                    /\ \E c2 \in Candidates, failed \in SUBSET Conditional :
                         Advances(c2, failed, n)
  BY <1>1, CycleCases
<1>4. (d_wait \/ EWait) \in BOOLEAN
  OBVIOUS
<1>5. CASE excpW /\ Flushes(kept, n)
  BY <1>2, <1>3, <1>4, <1>5, FlushStep
<1>6. CASE ~excpW /\ d_wait /\ Holds(n)
  <2>1. (d_wait \/ EWait) = TRUE
    BY <1>6
  <2>2. Values({0, 1}, TRUE, n)
    BY <1>3, <1>6, <2>1
  <2>3. QED
    BY <1>2, <1>6, <2>2, HoldStep
<1>7. CASE ~excpW /\ ~d_wait /\ Branches(n)
  <2>1. Values({0, 1}, d_wait \/ EWait, n)
    BY <1>3, <1>7
  <2>2. QED
    BY <1>2, <1>4, <1>7, <2>1, BranchStep
<1>8. CASE ~excpW /\ ~d_wait /\ Waits(n)
  <2>1. (d_wait \/ EWait) = TRUE
    BY <1>8 DEF Waits
  <2>2. Values({0, 1}, TRUE, n)
    BY <1>3, <1>8, <2>1
  <2>3. QED
    BY <1>2, <1>8, <2>2, WaitStep
<1>9. CASE ~excpW /\ ~d_wait
                    /\ \E c2 \in Candidates, failed \in SUBSET Conditional :
                         Advances(c2, failed, n)
  <2>1. PICK c2 \in Candidates, failed \in SUBSET Conditional : Advances(c2, failed, n)
    BY <1>9
  <2>2. (d_wait \/ EWait) = FALSE
    BY <1>9, <2>1 DEF Advances
  <2>3. Values({0, 1}, FALSE, n)
    BY <1>3, <1>9, <2>2
  <2>4. QED
    BY <1>2, <2>1, <2>3, AdvanceStep
<1>10. QED
  BY <1>3, <1>5, <1>6, <1>7, <1>8, <1>9

LEMMA NextInv == OperandInv /\ [Next]_vars => OperandInv'
<1> SUFFICES ASSUME OperandInv, [Next]_vars PROVE OperandInv'
  OBVIOUS
<1>1. CASE Next
  <2>1. PICK d_wait \in BOOLEAN :
          \/ Clock(d_wait, FALSE, Slots)
          \/ \E kept \in {{}, {1}, {0, 1}} : Clock(d_wait, TRUE, kept)
    BY <1>1 DEF Next
  <2>2. CASE Clock(d_wait, FALSE, Slots)
    BY <2>2, ClockInv DEF Slots
  <2>3. CASE \E kept \in {{}, {1}, {0, 1}} : Clock(d_wait, TRUE, kept)
    BY <2>3, ClockInv
  <2>4. QED
    BY <2>1, <2>2, <2>3
<1>2. CASE UNCHANGED vars
  BY <1>2 DEF vars, later, OperandInv, TypeOK, AgesExact, Total, Available,
              Gone, Kept, TooOld, Bounded, Units, Uses, Judged
<1>3. QED
  BY <1>1, <1>2

THEOREM OperandInvariant == Spec => []OperandInv
<1>1. Init => OperandInv
  BY InitInv
<1>2. OperandInv /\ [Next]_vars => OperandInv'
  BY NextInv
<1>3. QED
  BY <1>1, <1>2, PTL DEF Spec

(* Execute computes with the values of the youngest older writers, for any *)
(* mix of writers, waits and redirects (bypassE.sv:34, execute.sv:52),     *)
(* except where the operand was read behind a conditional move that failed *)
(* (execute.sv:366) and not bypassed since; there it never does.           *)
THEOREM ExecuteReadsCurrent == Spec => []OperandsCurrent
<1>1. OperandInv => OperandsCurrent
  BY OperandsRight DEF OperandsCurrent
<1>2. QED
  BY <1>1, OperandInvariant, PTL

(* The register file lacks exactly the writers still in the pipeline       *)
(* (regfile.sv:42, hazard.sv:50).                                          *)
THEOREM RegfileFollows == Spec => []RegfileInOrder
<1>1. OperandInv => RegfileInOrder
  BY InFlightIs DEF OperandInv, AgesExact, RegfileInOrder
<1>2. QED
  BY <1>1, OperandInvariant, PTL

(* A product or quotient that is reported done is that of the operands of  *)
(* the instruction in execute (multi.sv:57, div.sv:27), if no redirect     *)
(* meets a divide, which leaves the divider counting for an instruction    *)
(* that is gone, and the instruction was not issued behind a conditional   *)
(* move that failed (execute.sv:366).                                      *)
THEOREM UnitsAnswerCurrent ==
  ASSUME ~FlushDividing
  PROVE  Spec => []ResultOfOperands
<1>1. OperandInv => ResultOfOperands
  <2> SUFFICES ASSUME OperandInv, ~EWait
               PROVE  /\ Judged("mul") => mult_of
                      /\ Judged("div") => div_of
    BY DEF ResultOfOperands
  <2>1. TypeOK /\ Units
    BY DEF OperandInv
  <2>2. ASSUME Judged("mul")
        PROVE  mult_of
    <3>1. mult = "DOING"
      BY <2>1, <2>2 DEF EWait, MultNext, TypeOK, Judged
    <3>2. QED
      BY <2>1, <2>2, <3>1 DEF Units
  <2>3. ASSUME Judged("div")
        PROVE  div_of
    <3>1. count > 0
      BY <2>1, <2>3, BoundsAssumption DEF EWait, CountNext, TypeOK, Judged
    <3>2. QED
      BY <2>1, <2>3, <3>1 DEF Units
  <2>4. QED
    BY <2>2, <2>3
<1>2. QED
  BY <1>1, OperandInvariant, PTL
=============================================================================
