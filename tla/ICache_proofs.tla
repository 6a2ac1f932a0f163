---------------------------- MODULE ICache_proofs ---------------------------
(***************************************************************************)
(* Proofs about the instruction cache, for every geometry of at least two  *)
(* sets, every set of words fetched and every set of words the program     *)
(* changes.                                                                *)
(***************************************************************************)
EXTENDS ICache, Integers, TLAPS

-----------------------------------------------------------------------------
(* The inductive invariant.                                                *)

(* A cell that holds word o of the line with tag t in set s; a copy that   *)
(* is out of date is of a word in `dirty'.                                 *)
Holds(cell, s, t, o, dirty) ==
  /\ cell \in Words \X BOOLEAN
  /\ Index(cell[1]) = s /\ Tag(cell[1]) = t /\ Offset(cell[1]) = o
  /\ cell[2] \/ cell[1] \in dirty

(* The line that a refill is overwriting: its tag is still the old one.    *)
Victim(y, s) == Fetching /\ y = miss_addr.line /\ s = miss_addr.index

(* Every valid line but the victim holds the words of its tag.             *)
LinesHeld ==
  \A y \in Ways, s \in Sets : meta_ram[s][y].valid /\ ~Victim(y, s) =>
    \A o \in Offsets : Holds(data_ram[y][s][o], s, meta_ram[s][y].tag, o, written)

(* No line is in both ways. *)
Distinct ==
  \A s \in Sets : meta_ram[s][0].valid /\ meta_ram[s][1].valid =>
    meta_ram[s][0].tag # meta_ram[s][1].tag

(* A refill: the request stays, the line is not in the cache, the place    *)
(* saved in miss_addr is the one plru still names, and what the bus has    *)
(* delivered so far is there.                                              *)
Refill ==
  Fetching =>
    LET a == Addr(FetchPort) IN
    /\ req.valid /\ inst_save = "I_UNKNOWN"
    /\ state = "FETCH_2" => Index(Addr(1)) # Index(Addr(2))
    /\ miss_addr = [line |-> plru[Index(a)], index |-> Index(a), offset |-> bus_beat]
    /\ \A y \in Ways : meta_ram[Index(a)][y].valid => meta_ram[Index(a)][y].tag # Tag(a)
    /\ bus_busy => bus_line = LineOf(a)
    /\ \A o \in Offsets : o < bus_beat =>
         Holds(data_ram[miss_addr.line][miss_addr.index][o], Index(a), Tag(a), o,
               written)

(* The bus between two refills. *)
BusIdle == (~Fetching => ~bus_busy) /\ (~bus_busy => bus_beat = 0)

(* While the cache is emptied the request stays an I-cache instruction,    *)
(* and the sets passed are empty.                                          *)
Emptying ==
  state = "INVALID_ALL" =>
    /\ req.valid /\ inst_save \in Invals
    /\ \A s \in Sets, y \in Ways : s < meta_index => ~meta_ram[s][y].valid

CacheInv ==
  /\ TypeOK /\ Distinct /\ LinesHeld /\ Refill /\ BusIdle /\ Emptying
  /\ AnswersAsked /\ NewCodeAfterInvalidate

-----------------------------------------------------------------------------
(* Addresses.                                                              *)

LEMMA DivMod ==
  ASSUME NEW a \in Nat, NEW n \in Nat \ {0}
  PROVE  /\ a \div n \in Nat /\ a % n \in 0..(n - 1)
         /\ a = n * (a \div n) + (a % n)
<1>1. a % n \in 0..(n - 1)
  OBVIOUS
<1>2. a = n * (a \div n) + (a % n)
  OBVIOUS
<1>3. a \div n \in Int /\ a \div n >= 0
  OBVIOUS
<1>4. QED
  BY <1>1, <1>2, <1>3

LEMMA DivUnique ==
  ASSUME NEW q \in Nat, NEW n \in Nat \ {0}, NEW r \in 0..(n - 1)
  PROVE  (n * q + r) \div n = q /\ (n * q + r) % n = r
OBVIOUS

LEMMA ModBelow ==
  ASSUME NEW k \in Nat, NEW n \in Nat \ {0}, k < n
  PROVE  k % n = k
OBVIOUS

LEMMA DivBelow ==
  ASSUME NEW a \in Nat, NEW n \in Nat \ {0}, NEW m \in Nat, a < n * m
  PROVE  a \div n < m
OBVIOUS

LEMMA MulBelow ==
  ASSUME NEW q \in Nat, NEW n \in Nat \ {0}, NEW m \in Nat, q < m,
         NEW r \in 0..(n - 1)
  PROVE  n * q + r < n * m
OBVIOUS

LEMMA DivTwice ==
  ASSUME NEW a \in Nat, NEW m \in Nat \ {0}, NEW n \in Nat \ {0}
  PROVE  a \div (m * n) = (a \div m) \div n
<1> DEFINE q == a \div m
           t == q \div n
           i == q % n
           r == m * i + (a % m)
<1>1. /\ q \in Nat /\ a % m \in 0..(m - 1) /\ a = m * q + (a % m)
  BY DivMod
<1>2. t \in Nat /\ i \in 0..(n - 1) /\ q = n * t + i
  BY <1>1, DivMod
<1>3. m * n \in Nat \ {0}
  OBVIOUS
<1>4. r < m * n /\ r \in Nat
  BY <1>1, <1>2, MulBelow
<1>5. a = (m * n) * t + r
  <2> HIDE DEF q, t, i
  <2>1. m * (n * t + i) = (m * n) * t + m * i
    BY <1>2
  <2>2. QED
    BY <1>1, <1>2, <2>1
<1>6. r \in 0..((m * n) - 1)
  <2> HIDE DEF r
  <2>1. QED
    BY <1>3, <1>4
<1>7. QED
  <2> HIDE DEF r, t
  <2>1. ((m * n) * t + r) \div (m * n) = t
    BY <1>2, <1>3, <1>6, DivUnique
  <2>2. a \div (m * n) = t
    BY <2>1, <1>5
  <2>3. QED
    BY <2>2 DEF t

LEMMA TagOf ==
  ASSUME NEW a \in Words
  PROVE  Tag(a) = (a \div LineWords) \div NumSets
<1>1. a \in Nat /\ LineWords \in Nat \ {0} /\ NumSets \in Nat \ {0}
  BY GeometryAssumption DEF Words
<1>2. a \div (LineWords * NumSets) = (a \div LineWords) \div NumSets
  BY <1>1, DivTwice
<1>3. QED
  BY <1>2 DEF Tag

LEMMA AddressParts ==
  ASSUME NEW a \in Words
  PROVE  /\ Offset(a) \in Offsets /\ Index(a) \in Sets /\ Tag(a) \in Tags
         /\ a \div LineWords \in Nat
         /\ a = LineWords * (a \div LineWords) + Offset(a)
         /\ a \div LineWords = NumSets * Tag(a) + Index(a)
         /\ LineOf(a) = LineWords * (a \div LineWords)
<1> USE GeometryAssumption
<1> DEFINE q == a \div LineWords
<1>0. a \in Nat /\ LineWords \in Nat \ {0} /\ NumSets \in Nat \ {0}
  BY DEF Words
<1>1. q \in Nat /\ Offset(a) \in Offsets /\ a = LineWords * q + Offset(a)
  BY <1>0, DivMod DEF Offset, Offsets
<1>2. Tag(a) = q \div NumSets
  BY TagOf
<1>3. Tag(a) \in Nat /\ Index(a) \in Sets /\ q = NumSets * Tag(a) + Index(a)
  <2>1. Index(a) = q % NumSets
    BY DEF Index
  <2> HIDE DEF q
  <2>2. /\ q \div NumSets \in Nat /\ q % NumSets \in 0..(NumSets - 1)
        /\ q = NumSets * (q \div NumSets) + (q % NumSets)
    BY <1>0, <1>1, DivMod
  <2>3. QED
    BY <1>2, <2>1, <2>2 DEF Sets
<1>4. Tag(a) < NumTags
  <2> HIDE DEF q
  <2>0. NumTags * NumSets \in Nat
    OBVIOUS
  <2>1. a < LineWords * (NumTags * NumSets)
    BY <1>0, <2>0 DEF Words
  <2>2. q < NumTags * NumSets
    BY <1>0, <2>0, <2>1, DivBelow DEF q
  <2>3. q < NumSets * NumTags
    BY <2>2
  <2>4. QED
    BY <1>0, <1>1, <1>2, <2>3, DivBelow
<1>5. LineOf(a) = LineWords * q
  <2> HIDE DEF q
  <2>1. LineWords * q \in Nat /\ Offset(a) \in Nat
    BY <1>1 DEF Offsets
  <2>2. QED
    BY <1>1, <2>1 DEF LineOf
<1>6. QED
  BY <1>1, <1>3, <1>4, <1>5 DEF Tags

(* The place and the tag name the word. *)
LEMMA SameWord ==
  ASSUME NEW a \in Words, NEW b \in Words,
         Offset(a) = Offset(b), Index(a) = Index(b), Tag(a) = Tag(b)
  PROVE  a = b
<1>1. a \div LineWords = b \div LineWords
  BY AddressParts
<1>2. QED
  BY <1>1, AddressParts

(* The words of a line. *)
LEMMA WordOfLine ==
  ASSUME NEW a \in Words, NEW o \in Offsets
  PROVE  /\ LineOf(a) + o \in Words
         /\ Offset(LineOf(a) + o) = o
         /\ Index(LineOf(a) + o) = Index(a) /\ Tag(LineOf(a) + o) = Tag(a)
<1> DEFINE q == a \div LineWords
           b == LineWords * q + o
<1> USE GeometryAssumption
<1>0. LineWords \in Nat \ {0} /\ NumSets \in Nat \ {0} /\ NumTags * NumSets \in Nat
  OBVIOUS
<1>1. q \in Nat /\ LineOf(a) = LineWords * q /\ o \in 0..(LineWords - 1)
  BY AddressParts DEF Offsets
<1>2. b \div LineWords = q /\ b % LineWords = o
  BY <1>0, <1>1, DivUnique
<1>3. q < NumTags * NumSets
  <2> HIDE DEF q
  <2>1. a \in Nat /\ a < LineWords * (NumTags * NumSets)
    BY <1>0 DEF Words
  <2>2. QED
    BY <1>0, <2>1, DivBelow DEF q
<1>4. b \in Nat /\ b < LineWords * (NumTags * NumSets)
  <2> HIDE DEF q
  <2>1. b < LineWords * (NumTags * NumSets)
    BY <1>0, <1>1, <1>3, MulBelow
  <2>2. QED
    BY <2>1, <1>1
<1>5. b \in Words
  BY <1>4, <1>0 DEF Words
<1>6. Tag(b) = Tag(a)
  <2>1. Tag(b) = (b \div LineWords) \div NumSets /\ Tag(a) = q \div NumSets
    BY <1>5, TagOf
  <2>2. QED
    BY <2>1, <1>2
<1>7. LineOf(a) + o = b
  BY <1>1
<1>8. QED
  BY <1>2, <1>5, <1>6, <1>7 DEF Offset, Index

(* Two consecutive words in one set are in one line. *)
LEMMA OneSetOneLine ==
  ASSUME NEW a \in Words, a + 1 \in Words, Index(a) = Index(a + 1)
  PROVE  Tag(a) = Tag(a + 1)
<1> DEFINE q == a \div LineWords
           r == (a + 1) \div LineWords
<1> USE GeometryAssumption
<1>0. LineWords \in Nat \ {0} /\ NumSets \in Nat \ {0} /\ a \in Nat
  BY DEF Words
<1>1. q \in Nat /\ (r = q \/ r = q + 1)
  BY <1>0
<1>2. (q + 1) % NumSets # q % NumSets
  <2> HIDE DEF q
  <2> DEFINE k == q \div NumSets
  <2>1. k \in Nat /\ q % NumSets \in 0..(NumSets - 1) /\ q = NumSets * k + (q % NumSets)
    BY <1>0, <1>1, DivMod
  <2>2. CASE q % NumSets < NumSets - 1
    <3> DEFINE i == (q % NumSets) + 1
    <3>1. q + 1 = NumSets * k + i /\ i \in 0..(NumSets - 1)
      BY <2>1, <2>2
    <3>2. (NumSets * k + i) % NumSets = i
      BY <1>0, <2>1, <3>1, DivUnique
    <3>3. QED
      BY <2>1, <3>1, <3>2
  <2>3. CASE q % NumSets = NumSets - 1
    <3>1. q + 1 = NumSets * (k + 1) + 0
      <4> HIDE DEF k
      <4>1. NumSets * (k + 1) = NumSets * k + NumSets
        BY <2>1
      <4>2. QED
        BY <2>1, <2>3, <4>1
    <3>2. (NumSets * (k + 1) + 0) % NumSets = 0
      <4> HIDE DEF k
      <4>1. k + 1 \in Nat /\ 0 \in 0..(NumSets - 1)
        BY <2>1
      <4>2. QED
        BY <1>0, <4>1, DivUnique
    <3>3. QED
      BY <2>3, <3>1, <3>2
  <2>4. QED
    BY <2>1, <2>2, <2>3
<1>3. r = q
  BY <1>1, <1>2 DEF Index
<1>4. QED
  BY <1>3, TagOf

-----------------------------------------------------------------------------
(* The request and the look-up.                                            *)

LEMMA RequestParts ==
  ASSUME TypeOK
  PROVE  /\ req.valid \in BOOLEAN /\ req.inst \in Insts
         /\ Addr(1) = req.addr /\ Addr(2) = req.addr + 1
         /\ Addr(1) \in Words /\ Addr(2) \in Words
         /\ Index(Addr(1)) = Index(Addr(2)) => Tag(Addr(1)) = Tag(Addr(2))
<1>1. req.valid \in BOOLEAN /\ req.inst \in Insts /\ req.addr \in Fetches
  BY FetchesAssumption DEF TypeOK, Requests, Insts, Invals
<1>2. req.addr \in Words /\ req.addr + 1 \in Words
  BY <1>1, FetchesAssumption
<1>3. Addr(1) = req.addr /\ Addr(2) = req.addr + 1
  BY <1>2 DEF Addr, Words
<1>4. QED
  BY <1>1, <1>2, <1>3, OneSetOneLine

LEMMA Matches ==
  ASSUME NEW m \in [valid : BOOLEAN, tag : Tags], NEW t
  PROVE  m = [valid |-> TRUE, tag |-> t] <=> m.valid /\ m.tag = t
<1>1. ASSUME m.valid, m.tag = t PROVE m = [valid |-> TRUE, tag |-> t]
  <2>1. m.valid = TRUE /\ m = [valid |-> m.valid, tag |-> m.tag]
    BY <1>1
  <2>2. QED
    BY <1>1, <2>1
<1>2. ASSUME m = [valid |-> TRUE, tag |-> t] PROVE m.valid /\ m.tag = t
  BY <1>2
<1>3. QED
  BY <1>1, <1>2

LEMMA Lookup ==
  ASSUME TypeOK, NEW p \in {1, 2}
  PROVE  /\ Addr(p) \in Words /\ MetaAddr(p) \in Sets
         /\ HitLine(p) \in Ways /\ ReplaceLine(p) \in Ways
         /\ Hit(p) => /\ meta_ram[MetaAddr(p)][HitLine(p)].valid
                      /\ meta_ram[MetaAddr(p)][HitLine(p)].tag = Tag(Addr(p))
         /\ ~Hit(p) => \A y \in Ways : meta_ram[MetaAddr(p)][y].valid =>
                         meta_ram[MetaAddr(p)][y].tag # Tag(Addr(p))
<1>1. Addr(1) \in Words /\ Addr(2) \in Words
  BY RequestParts
<1>2. Index(Addr(1)) \in Sets /\ Index(Addr(2)) \in Sets
  BY <1>1, AddressParts
<1>3. MetaAddr(p) \in Sets
  BY <1>2 DEF MetaAddr, TypeOK
<1>4. HitLine(1) \in Ways /\ HitLine(p) \in Ways
  BY DEF HitLine, Ways
<1>5. ReplaceLine(p) \in Ways
  <2>1. plru[Index(Addr(p))] \in Ways
    BY <1>2 DEF TypeOK
  <2>2. 1 - HitLine(1) \in Ways
    BY <1>4 DEF Ways
  <2>3. QED
    BY <2>1, <2>2 DEF ReplaceLine
<1>6. \A y \in Ways : meta_ram[MetaAddr(p)][y] \in [valid : BOOLEAN, tag : Tags]
  BY <1>3 DEF TypeOK
<1>7. \A y \in Ways : y \in HitWays(p) <=>
        meta_ram[MetaAddr(p)][y].valid /\ meta_ram[MetaAddr(p)][y].tag = Tag(Addr(p))
  BY <1>6, Matches DEF HitWays
<1>8. Hit(p) => HitLine(p) \in HitWays(p)
  BY DEF Hit, HitLine, HitWays, Ways
<1>9. QED
  BY <1>1, <1>3, <1>4, <1>5, <1>7, <1>8 DEF Hit

-----------------------------------------------------------------------------
(* Cells.                                                                  *)

LEMMA AgedCell ==
  ASSUME NEW cell \in Cells, NEW w \in Writable \union {None}
  PROVE  Aged(cell, w) \in Cells
BY WritableAssumption, ModelValuesAssumption DEF Aged, Cells

LEMMA AgedHolds ==
  ASSUME NEW w \in Writable \union {None}, NEW cell, NEW s, NEW t, NEW o,
         NEW D, NEW E, Holds(cell, s, t, o, D), D \union ({w} \ {None}) \subseteq E
  PROVE  Holds(Aged(cell, w), s, t, o, E)
<1>1. cell # Junk
  BY ModelValuesAssumption DEF Holds
<1>2. CASE cell[1] = w
  <2>1. Aged(cell, w) = <<w, FALSE>> /\ w \in Words /\ w # None /\ w \in E
    BY <1>1, <1>2, WritableAssumption, ModelValuesAssumption DEF Aged, Holds
  <2>2. <<w, FALSE>> \in Words \X BOOLEAN /\ <<w, FALSE>>[1] = w
    BY <2>1
  <2>3. Index(w) = s /\ Tag(w) = t /\ Offset(w) = o
    BY <1>2 DEF Holds
  <2>4. QED
    BY <2>1, <2>2, <2>3 DEF Holds
<1>3. CASE cell[1] # w
  BY <1>3 DEF Aged, Holds
<1>4. QED
  BY <1>2, <1>3

-----------------------------------------------------------------------------
(* What a cycle does, by the state it starts in.                           *)

(* The words of memory changed, and the copies that are now out of date.   *)
Changes(w) == written' = written \union ({w} \ {None})

RamAges(w) ==
  \A y \in Ways, s \in Sets, o \in Offsets :
    data_ram'[y][s][o] = Aged(data_ram[y][s][o], w)

BusQuiet == ~bus_busy' /\ bus_beat' = 0

(* An I-cache instruction is seen: one line goes, the emptying starts.     *)
EmptyingStarts(w) ==
  /\ state = "IDLE" /\ state' = "INVALID_ALL" /\ meta_index' = 0
  /\ req.valid /\ req' = req /\ inst_save' \in Invals
  /\ \A s \in Sets, y \in Ways : meta_ram'[s][y].valid =>
       meta_ram[s][y].valid /\ meta_ram'[s][y].tag = meta_ram[s][y].tag
  /\ asked' = None /\ Changes(w) /\ RamAges(w) /\ BusQuiet

(* Word p of the access is missing. *)
RefillStarts(p, w) ==
  /\ state = "IDLE" /\ state' = IF p = 1 THEN "FETCH_1" ELSE "FETCH_2"
  /\ req.valid /\ req' = req /\ inst_save' = "I_UNKNOWN"
  /\ p = 2 => Index(Addr(1)) # Index(Addr(2))
  /\ ~Hit(p) /\ MetaAddr(p) = Index(Addr(p))
  /\ miss_addr' = [line |-> plru'[Index(Addr(p))], index |-> Index(Addr(p)),
                   offset |-> 0]
  /\ meta_ram' = meta_ram
  /\ asked' = None /\ Changes(w) /\ RamAges(w) /\ BusQuiet

(* Nothing is asked for, or it is all there. *)
Rests(w) ==
  /\ state = "IDLE" /\ state' = "IDLE"
  /\ meta_ram' = meta_ram
  /\ Changes(w) /\ RamAges(w) /\ BusQuiet
  /\ \/ asked' = None
     \/ /\ asked' = req.addr /\ Hit(1) /\ Hit(2)
        /\ \A p \in {1, 2} :
             /\ MetaAddr(p) = Index(Addr(p))
             /\ iresp'[p] =
                  Aged(data_ram[HitLine(p)][Index(Addr(p))][Offset(Addr(p))], w)

(* A cycle of a refill: a place of the line is written, whether the bus    *)
(* has a word for it or not; with the last one the line becomes valid.     *)
Refills(ready, w) ==
  LET a == Addr(FetchPort)
  IN  /\ Fetching /\ req' = req /\ inst_save' = inst_save
      /\ plru'[Index(a)] = plru[Index(a)]
      /\ \A y \in Ways, s \in Sets, o \in Offsets :
           data_ram'[y][s][o] =
             IF y = miss_addr.line /\ s = miss_addr.index /\ o = miss_addr.offset
             THEN Aged(Resp(ready).data, w) ELSE Aged(data_ram[y][s][o], w)
      /\ ready => bus_busy
      /\ asked' = None /\ Changes(w)

RefillGoesOn(ready) ==
  /\ state' = state /\ meta_ram' = meta_ram
  /\ ~(ready /\ bus_beat = LineWords - 1)
  /\ miss_addr' = [miss_addr EXCEPT !.offset = IF ready THEN @ + 1 ELSE @]
  /\ bus_busy'
  /\ bus_beat' = IF ready THEN bus_beat + 1 ELSE bus_beat
  /\ bus_line' = LineOf(Addr(FetchPort))

RefillEnds(ready) ==
  /\ ready /\ bus_beat = LineWords - 1
  /\ state' = "IDLE" /\ BusQuiet
  /\ \A s \in Sets, y \in Ways :
       meta_ram'[s][y] =
         IF s = miss_addr.index /\ y = miss_addr.line
         THEN [valid |-> TRUE, tag |-> Tag(Addr(FetchPort))] ELSE meta_ram[s][y]

(* A set is emptied. *)
Empties(w) ==
  /\ state = "INVALID_ALL" /\ asked' = None /\ RamAges(w) /\ BusQuiet
  /\ \A s \in Sets, y \in Ways :
       /\ s = meta_index => ~meta_ram'[s][y].valid
       /\ s # meta_index => meta_ram'[s][y] = meta_ram[s][y]
  /\ \/ /\ ~LastSet /\ state' = "INVALID_ALL" /\ meta_index' = meta_index + 1
        /\ req' = req /\ inst_save' = inst_save /\ Changes(w)
     \/ LastSet /\ state' = "IDLE"

LEMMA IdleCases ==
  ASSUME CacheInv, state = "IDLE", NEW noise, NEW ready \in BOOLEAN,
         NEW w \in Writable \union {None}, Clock(noise, ready, w)
  PROVE  EmptyingStarts(w) \/ RefillStarts(1, w) \/ RefillStarts(2, w) \/ Rests(w)
<1> USE DEF CacheInv
<1>0. TypeOK /\ ~Fetching /\ ~ready /\ ~Resp(ready).last /\ noise \in Insts
  BY DEF Fetching, BusIdle, Clock, Resp, Noises, Insts
<1>1. Changes(w)
  BY <1>0 DEF Clock, HistoryClock, Changes
<1>2. RamAges(w)
  BY <1>0 DEF Clock, RamClock, RamAges
<1>3. BusQuiet
  BY <1>0 DEF Clock, BusClock, Resp, BusIdle, BusQuiet
<1>4. /\ MetaAddr(1) = Index(Addr(1)) /\ MetaAddr(2) = Index(Addr(2))
      /\ Addr(1) \in Words /\ Addr(2) \in Words
      /\ Index(Addr(1)) \in Sets /\ Index(Addr(2)) \in Sets
  BY <1>0, Lookup, AddressParts DEF MetaAddr
<1>5. Index(Addr(1)) = Index(Addr(2)) => (Hit(1) <=> Hit(2))
  <2>1. Index(Addr(1)) = Index(Addr(2)) => Tag(Addr(1)) = Tag(Addr(2))
    BY <1>0, RequestParts
  <2>2. QED
    BY <1>4, <2>1 DEF Hit, HitWays
<1>6. FsmIdle(noise)
  BY <1>0 DEF Clock, FsmClock, FsmFetch, FsmInvalid
<1>7. CacheOper(noise) \in {"INVALID", "REQ", "NULL"} /\ req.valid \in BOOLEAN
  BY <1>0, RequestParts DEF CacheOper
<1>8. CASE CacheOper(noise) = "INVALID"
  <2>1. req.valid /\ ValidInst(noise) # "I_UNKNOWN"
    BY <1>7, <1>8 DEF CacheOper
  <2>2. ~En(noise)
    BY <2>1 DEF En
  <2>3. req' = req
    BY <2>1, <2>2 DEF Clock, ReqClock
  <2>4. ValidInst(noise) \in Invals
    BY <1>0, <2>1, RequestParts DEF ValidInst, CacheInst, TypeOK, Insts
  <2>5. inst_save' = ValidInst(noise)
    BY <2>2 DEF Clock, SaveClock, ValidInst
  <2>6. InvalidLine(noise) \in Ways
    <3>1. Tag(Addr(1)) \in Nat
      BY <1>4, AddressParts DEF Tags
    <3>2. QED
      BY <1>0, <3>1, Lookup DEF InvalidLine, Ways
  <2>7. meta_ram' = [meta_ram EXCEPT ![MetaAddr(1)][InvalidLine(noise)].valid = FALSE]
    BY <1>0, <1>8 DEF Clock, MetaClock
  <2>8. \A s \in Sets, y \in Ways : meta_ram'[s][y].valid =>
          meta_ram[s][y].valid /\ meta_ram'[s][y].tag = meta_ram[s][y].tag
    BY <1>0, <1>4, <2>6, <2>7 DEF TypeOK
  <2>9. state' = "INVALID_ALL" /\ meta_index' = 0
    BY <1>6, <1>8 DEF FsmIdle
  <2>10. asked' = None
    BY <1>8 DEF Clock, HistoryClock
  <2>11. QED
    BY <1>1, <1>2, <1>3, <2>1, <2>3, <2>4, <2>5, <2>8, <2>9, <2>10
       DEF EmptyingStarts
<1>9. CASE CacheOper(noise) = "REQ"
  <2>1. req.valid /\ ValidInst(noise) = "I_UNKNOWN"
    BY <1>7, <1>9 DEF CacheOper
  <2>2. En(noise) <=> Hit(1) /\ Hit(2)
    BY <2>1 DEF En
  <2>3. meta_ram' = meta_ram
    BY <1>0, <1>9 DEF Clock, MetaClock
  <2>4. ASSUME ~(Hit(1) /\ Hit(2))
        PROVE  req' = req /\ asked' = None /\ inst_save' = "I_UNKNOWN"
    <3>1. ~En(noise)
      BY <2>2, <2>4
    <3>2. inst_save' = ValidInst(noise)
      BY <3>1 DEF Clock, SaveClock, ValidInst
    <3>3. QED
      BY <2>1, <3>1, <3>2 DEF Clock, ReqClock, HistoryClock
  <2>5. CASE ~Hit(1)
    <3>1. StartFetch(1)
      BY <1>6, <1>9, <2>5 DEF FsmIdle
    <3>2. plru'[Index(Addr(1))] = plru[Index(Addr(1))]
      BY <1>0, <1>4, <1>5, <1>9, <2>5 DEF Clock, PlruClock, TypeOK
    <3>3. miss_addr' = [line |-> plru'[Index(Addr(1))], index |-> Index(Addr(1)),
                        offset |-> 0]
      BY <3>1, <3>2 DEF StartFetch, ReplaceLine
    <3>4. RefillStarts(1, w)
      BY <1>1, <1>2, <1>3, <1>4, <2>1, <2>3, <2>4, <2>5, <3>1, <3>3
         DEF RefillStarts, StartFetch
    <3>5. QED
      BY <3>4
  <2>6. CASE Hit(1) /\ ~Hit(2) /\ ReqValid(2, noise)
    <3>1. StartFetch(2)
      BY <1>6, <1>9, <2>6 DEF FsmIdle
    <3>2. Index(Addr(1)) # Index(Addr(2))
      BY <1>5, <2>6
    <3>3. plru'[Index(Addr(2))] = plru[Index(Addr(2))]
      BY <1>0, <1>4, <3>2, <1>9, <2>6 DEF Clock, PlruClock, TypeOK
    <3>4. miss_addr' = [line |-> plru'[Index(Addr(2))], index |-> Index(Addr(2)),
                        offset |-> 0]
      BY <3>1, <3>2, <3>3 DEF StartFetch, ReplaceLine
    <3>5. RefillStarts(2, w)
      BY <1>1, <1>2, <1>3, <1>4, <2>1, <2>3, <2>4, <2>6, <3>1, <3>2, <3>4
         DEF RefillStarts, StartFetch
    <3>6. QED
      BY <3>5
  <2>7. CASE Hit(1) /\ ~Hit(2) /\ ~ReqValid(2, noise)
    <3>1. state' = state
      BY <1>6, <1>9, <2>7 DEF FsmIdle
    <3>2. QED
      BY <1>1, <1>2, <1>3, <2>3, <2>4, <2>7, <3>1 DEF Rests
  <2>8. CASE Hit(1) /\ Hit(2)
    <3>1. state' = state
      BY <1>6, <1>9, <2>8 DEF FsmIdle
    <3>2. asked' = req.addr
      BY <1>9, <2>2, <2>8 DEF Clock, HistoryClock
    <3>3. \A p \in {1, 2} : iresp'[p] =
            Aged(data_ram[HitLine(p)][Index(Addr(p))][Offset(Addr(p))], w)
      BY <1>9, <2>2, <2>8 DEF Clock, RamClock, PortAddr
    <3>4. QED
      BY <1>1, <1>2, <1>3, <1>4, <2>3, <2>8, <3>1, <3>2, <3>3 DEF Rests
  <2>9. QED
    BY <2>5, <2>6, <2>7, <2>8
<1>10. CASE CacheOper(noise) = "NULL"
  <2>1. meta_ram' = meta_ram /\ asked' = None
    BY <1>0, <1>10 DEF Clock, MetaClock, HistoryClock
  <2>2. state' = state
    BY <1>6, <1>10 DEF FsmIdle
  <2>3. QED
    BY <1>1, <1>2, <1>3, <2>1, <2>2 DEF Rests
<1>11. QED
  BY <1>7, <1>8, <1>9, <1>10

LEMMA RefillCases ==
  ASSUME CacheInv, Fetching, NEW noise, NEW ready \in BOOLEAN,
         NEW w \in Writable \union {None}, Clock(noise, ready, w)
  PROVE  Refills(ready, w) /\ (RefillGoesOn(ready) \/ RefillEnds(ready))
<1> USE DEF CacheInv
<1> DEFINE a == Addr(FetchPort)
<1>0. TypeOK /\ ~(state = "IDLE") /\ ~(state = "INVALID_ALL") /\ noise \in Insts
      /\ (state = "FETCH_1" \/ state = "FETCH_2")
  BY DEF Fetching, Clock, Noises, Insts
<1>1. /\ req.valid /\ inst_save = "I_UNKNOWN"
      /\ state = "FETCH_2" => Index(Addr(1)) # Index(Addr(2))
      /\ miss_addr = [line |-> plru[Index(a)], index |-> Index(a),
                      offset |-> bus_beat]
      /\ \A y \in Ways : meta_ram[Index(a)][y].valid =>
                           meta_ram[Index(a)][y].tag # Tag(a)
      /\ bus_busy => bus_line = LineOf(a)
  BY DEF Refill
<1>2. /\ Addr(1) \in Words /\ Addr(2) \in Words
      /\ Index(Addr(1)) \in Sets /\ Index(Addr(2)) \in Sets
  BY <1>0, RequestParts, AddressParts
<1>3. /\ MetaAddr(1) = Index(a) /\ MetaAddr(FetchPort) = Index(a)
      /\ ReplaceLine(FetchPort) = plru[Index(a)]
  BY <1>0, <1>1 DEF MetaAddr, ReplaceLine, FetchPort
<1>4. ~Hit(FetchPort)
  <2>1. \A y \in Ways : meta_ram[Index(a)][y] \in [valid : BOOLEAN, tag : Tags]
    BY <1>0, <1>2 DEF TypeOK, FetchPort
  <2>2. QED
    BY <1>1, <1>3, <2>1 DEF Hit, HitWays
<1>5. ~En(noise)
  BY <1>0 DEF En
<1>6. /\ req' = req /\ inst_save' = inst_save /\ asked' = None /\ Changes(w)
      /\ ready => bus_busy
  BY <1>0, <1>1, <1>5, ModelValuesAssumption
     DEF Clock, ReqClock, SaveClock, HistoryClock, Changes, Insts
<1>7. plru'[Index(a)] = plru[Index(a)]
  <2>1. CASE state = "FETCH_1"
    <3>1. a = Addr(1) /\ ~Hit(1)
      BY <1>4, <2>1 DEF FetchPort
    <3>2. Index(Addr(1)) = Index(Addr(2)) => ~Hit(2)
      <4>1. Index(Addr(1)) = Index(Addr(2)) => Tag(Addr(1)) = Tag(Addr(2))
        BY <1>0, RequestParts
      <4>2. MetaAddr(1) = Index(Addr(1)) /\ MetaAddr(2) = Index(Addr(2))
        BY <2>1 DEF MetaAddr
      <4>3. QED
        BY <3>1, <4>1, <4>2 DEF Hit, HitWays
    <3>3. QED
      BY <1>0, <1>2, <3>1, <3>2 DEF Clock, PlruClock, TypeOK
  <2>2. CASE state = "FETCH_2"
    <3>1. a = Addr(2) /\ ~Hit(2) /\ Index(Addr(1)) # Index(Addr(2))
      BY <1>1, <1>4, <2>2 DEF FetchPort
    <3>2. QED
      BY <1>0, <1>2, <3>1 DEF Clock, PlruClock, TypeOK
  <2>3. QED
    BY <1>0, <2>1, <2>2
<1>8. \A y \in Ways, s \in Sets, o \in Offsets :
        data_ram'[y][s][o] =
          IF y = miss_addr.line /\ s = miss_addr.index /\ o = miss_addr.offset
          THEN Aged(Resp(ready).data, w) ELSE Aged(data_ram[y][s][o], w)
  <2>1. PortAddr(2) = miss_addr
    BY <1>0 DEF PortAddr
  <2>2. miss_addr \in [line : Ways, index : Sets, offset : Offsets]
    BY <1>0 DEF TypeOK
  <2>3. \A y \in Ways, s \in Sets, o \in Offsets :
          miss_addr = [line |-> y, index |-> s, offset |-> o] <=>
            y = miss_addr.line /\ s = miss_addr.index /\ o = miss_addr.offset
    BY <2>2
  <2>4. QED
    BY <2>1, <2>3 DEF Clock, RamClock
<1>9. Refills(ready, w)
  BY <1>6, <1>7, <1>8 DEF Refills
<1>10. /\ Resp(ready).ready <=> ready
       /\ Resp(ready).last <=> ready /\ bus_beat = LineWords - 1
  BY DEF Resp
<1>11. FsmFetch(Resp(ready))
  BY <1>0 DEF Clock, FsmClock, FsmIdle, FsmInvalid
<1>12. CASE Resp(ready).last
  <2>1. state' = "IDLE"
    BY <1>11, <1>12 DEF FsmFetch
  <2>2. BusQuiet
    BY <1>12 DEF Clock, BusClock, BusQuiet
  <2>3. meta_ram' = [meta_ram EXCEPT ![Index(a)][plru[Index(a)]] =
                       [valid |-> TRUE, tag |-> Tag(a)]]
    BY <1>0, <1>3, <1>12 DEF Clock, MetaClock
  <2>4. miss_addr.index = Index(a) /\ miss_addr.line = plru[Index(a)]
    BY <1>1
  <2>5. \A s \in Sets, y \in Ways :
          meta_ram'[s][y] =
            IF s = miss_addr.index /\ y = miss_addr.line
            THEN [valid |-> TRUE, tag |-> Tag(a)] ELSE meta_ram[s][y]
    <3>1. meta_ram \in [Sets -> [Ways -> [valid : BOOLEAN, tag : Tags]]]
      BY <1>0 DEF TypeOK
    <3>2. QED
      BY <2>3, <2>4, <3>1
  <2>6. QED
    BY <1>9, <1>10, <1>12, <2>1, <2>2, <2>5 DEF RefillEnds
<1>13. CASE ~Resp(ready).last
  <2>1. state' = state
    BY <1>11, <1>13 DEF FsmFetch
  <2>2. meta_ram' = meta_ram
    BY <1>0, <1>13 DEF Clock, MetaClock
  <2>3. miss_addr.offset = bus_beat /\ bus_beat \in 0..(LineWords - 1)
    BY <1>0, <1>1 DEF TypeOK, Offsets
  <2>4. ready => (miss_addr.offset + 1) % LineWords = miss_addr.offset + 1
    <3>1. ready => miss_addr.offset + 1 \in Nat /\ miss_addr.offset + 1 < LineWords
      <4>1. ready => bus_beat # LineWords - 1
        BY <1>10, <1>13
      <4>2. QED
        BY <2>3, <4>1, GeometryAssumption
    <3>2. QED
      BY <3>1, ModBelow, GeometryAssumption
  <2>5. miss_addr' = [miss_addr EXCEPT !.offset = IF ready THEN @ + 1 ELSE @]
    <3>1. CASE ready
      BY <1>10, <1>11, <2>4, <3>1 DEF FsmFetch
    <3>2. CASE ~ready
      <4>1. miss_addr' = miss_addr
        BY <1>10, <1>11, <3>2 DEF FsmFetch
      <4>2. miss_addr \in [line : Ways, index : Sets, offset : Offsets]
        BY <1>0 DEF TypeOK
      <4>3. miss_addr = [miss_addr EXCEPT !.offset = miss_addr.offset]
        BY <4>2
      <4>4. QED
        BY <3>2, <4>1, <4>3
    <3>3. QED
      BY <3>1, <3>2
  <2>6. bus_busy' /\ bus_beat' = (IF ready THEN bus_beat + 1 ELSE bus_beat)
    BY <1>10, <1>13 DEF Clock, BusClock
  <2>7. bus_line' = LineOf(a)
    BY <1>0, <1>1 DEF Clock, BusClock, IcreqLine, TypeOK
  <2>8. QED
    BY <1>9, <1>10, <1>13, <2>1, <2>2, <2>5, <2>6, <2>7 DEF RefillGoesOn
<1>14. QED
  BY <1>12, <1>13

LEMMA EmptyCases ==
  ASSUME CacheInv, state = "INVALID_ALL", NEW noise, NEW ready \in BOOLEAN,
         NEW w \in Writable \union {None}, Clock(noise, ready, w)
  PROVE  Empties(w)
<1> USE DEF CacheInv
<1>0. TypeOK /\ ~Fetching /\ ~ready /\ ~Resp(ready).last /\ noise \in Insts
  BY DEF Fetching, BusIdle, Clock, Resp, Noises, Insts
<1>1. req.valid /\ inst_save \in Invals /\ inst_save # None
  BY ModelValuesAssumption DEF Emptying, Insts
<1>2. CacheOper(noise) = "INVALID"
  BY <1>1 DEF CacheOper, ValidInst, Invals
<1>3. asked' = None
  BY <1>2 DEF Clock, HistoryClock
<1>4. RamAges(w)
  BY <1>0 DEF Clock, RamClock, RamAges
<1>5. BusQuiet
  BY <1>0 DEF Clock, BusClock, Resp, BusIdle, BusQuiet
<1>6. \A s \in Sets, y \in Ways :
       /\ s = meta_index => ~meta_ram'[s][y].valid
       /\ s # meta_index => meta_ram'[s][y] = meta_ram[s][y]
  <2>1. meta_ram' = [meta_ram EXCEPT ![meta_index] =
                       [y \in Ways |-> [valid |-> FALSE, tag |-> 0]]]
    BY <1>0 DEF Clock, MetaClock, MetaAddr
  <2>2. QED
    BY <1>0, <2>1 DEF TypeOK
<1>7. FsmInvalid
  BY <1>0 DEF Clock, FsmClock, FsmIdle, FsmFetch
<1>8. CASE LastSet
  BY <1>3, <1>4, <1>5, <1>6, <1>7, <1>8 DEF Empties, FsmInvalid
<1>9. CASE ~LastSet
  <2>1. state' = "INVALID_ALL"
    BY <1>7, <1>9 DEF FsmInvalid
  <2>2. meta_index' = meta_index + 1
    <3>1. meta_index + 1 \in Nat /\ meta_index + 1 < NumSets
      BY <1>0, <1>9, GeometryAssumption DEF LastSet, TypeOK, Sets
    <3>2. (meta_index + 1) % NumSets = meta_index + 1
      BY <3>1, ModBelow, GeometryAssumption
    <3>3. QED
      BY <1>7, <3>2 DEF FsmInvalid
  <2>3. ~En(noise)
    BY <1>9 DEF En
  <2>4. req' = req /\ inst_save' = inst_save /\ Changes(w)
    BY <1>1, <2>3 DEF Clock, ReqClock, SaveClock, HistoryClock, Changes
  <2>5. QED
    BY <1>3, <1>4, <1>5, <1>6, <1>9, <2>1, <2>2, <2>4 DEF Empties
<1>10. QED
  BY <1>8, <1>9

-----------------------------------------------------------------------------
(* Types.                                                                  *)

LEMMA TypeStep ==
  ASSUME CacheInv, NEW noise \in Insts, NEW ready \in BOOLEAN,
         NEW w \in Writable \union {None}, Clock(noise, ready, w)
  PROVE  TypeOK'
<1> USE DEF CacheInv
<1>0. TypeOK
  OBVIOUS
<1>1. /\ Addr(1) \in Words /\ Addr(2) \in Words /\ Addr(1) = req.addr
      /\ Index(Addr(1)) \in Sets /\ Index(Addr(2)) \in Sets
      /\ Offset(Addr(1)) \in Offsets /\ Offset(Addr(2)) \in Offsets
      /\ Tag(Addr(1)) \in Tags /\ Tag(Addr(2)) \in Tags
  BY RequestParts, AddressParts
<1>2. /\ MetaAddr(1) \in Sets /\ HitLine(1) \in Ways /\ HitLine(2) \in Ways
      /\ ReplaceLine(1) \in Ways /\ ReplaceLine(2) \in Ways
  BY Lookup
<1>3. FetchPort \in {1, 2} /\ 0 \in Sets /\ 0 \in Offsets
  BY GeometryAssumption DEF FetchPort, Sets, Offsets
<1>4. Resp(ready).data \in Cells
  <2>1. CASE ready
    <3>1. Fetching /\ bus_line = LineOf(Addr(FetchPort)) /\ bus_beat \in Offsets
      BY <2>1 DEF Clock, BusIdle, Refill, TypeOK
    <3>2. Addr(FetchPort) \in Words
      BY <1>1, <1>3
    <3>3. bus_line + bus_beat \in Words
      BY <3>1, <3>2, WordOfLine
    <3>4. QED
      BY <2>1, <3>3 DEF Resp, Cells
  <2>2. CASE ~ready
    BY <2>2 DEF Resp, Cells
  <2>3. QED
    BY <2>1, <2>2
<1>5. meta_ram' \in [Sets -> [Ways -> [valid : BOOLEAN, tag : Tags]]]
  <2>1. InvalidLine(noise) \in Ways /\ Tag(Addr(1)) \in Nat
    BY <1>1, <1>2 DEF InvalidLine, Ways, Tags
  <2>2. /\ ReplaceLine(FetchPort) \in Ways /\ Tag(Addr(FetchPort)) \in Tags
        /\ 0 \in Tags
    BY <1>1, <1>2, <1>3, GeometryAssumption DEF Tags
  <2>3. /\ [valid |-> TRUE, tag |-> Tag(Addr(FetchPort))] \in [valid : BOOLEAN, tag : Tags]
        /\ [y \in Ways |-> [valid |-> FALSE, tag |-> 0]] \in
             [Ways -> [valid : BOOLEAN, tag : Tags]]
    BY <2>2
  <2>4. meta_ram \in [Sets -> [Ways -> [valid : BOOLEAN, tag : Tags]]]
    BY <1>0 DEF TypeOK
  <2>5. QED
    <3> DEFINE Metas == [Sets -> [Ways -> [valid : BOOLEAN, tag : Tags]]]
    <3>1. [meta_ram EXCEPT ![MetaAddr(1)][InvalidLine(noise)].valid = FALSE] \in Metas
      <4> DEFINE R == [valid : BOOLEAN, tag : Tags]
                 x == MetaAddr(1)
                 y == InvalidLine(noise)
                 m == [meta_ram[x][y] EXCEPT !.valid = FALSE]
                 row == [meta_ram[x] EXCEPT ![y] = m]
      <4>1. x \in Sets /\ y \in Ways
        BY <1>2, <2>1
      <4>2. meta_ram[x][y] \in R
        BY <2>4, <4>1
      <4>3. m \in R
        BY <4>2
      <4>4. row \in [Ways -> R]
        <5> HIDE DEF m, R, x, y
        <5>1. meta_ram[x] \in [Ways -> R]
          BY <2>4, <4>1 DEF R
        <5>2. QED
          BY <4>1, <4>3, <5>1
      <4>5. [meta_ram EXCEPT ![x] = row] \in Metas
        <5> HIDE DEF row, x
        <5>1. QED
          BY <2>4, <4>1, <4>4
      <4>6. QED
        BY <4>5
    <3>2. [meta_ram EXCEPT ![MetaAddr(1)][ReplaceLine(FetchPort)] =
             [valid |-> TRUE, tag |-> Tag(Addr(FetchPort))]] \in Metas
      BY <1>2, <2>2, <2>3, <2>4
    <3>3. [meta_ram EXCEPT ![MetaAddr(1)] =
             [y \in Ways |-> [valid |-> FALSE, tag |-> 0]]] \in Metas
      BY <1>2, <2>3, <2>4
    <3> HIDE DEF Metas
    <3>4. meta_ram \in Metas
      BY <2>4 DEF Metas
    <3>5. meta_ram' \in Metas
      BY <3>1, <3>2, <3>3, <3>4 DEF Clock, MetaClock
    <3>6. QED
      BY <3>5 DEF Metas
<1>6. plru' \in [Sets -> Ways]
  <2>1. 1 - HitLine(1) \in Ways /\ 1 - HitLine(2) \in Ways
    BY <1>2 DEF Ways
  <2>2. QED
    BY <1>0, <1>1, <2>1 DEF Clock, PlruClock, TypeOK
<1>7. data_ram' \in [Ways -> [Sets -> [Offsets -> Cells]]]
  <2>1. \A y \in Ways, s \in Sets, o \in Offsets : Aged(data_ram[y][s][o], w) \in Cells
    BY <1>0, AgedCell DEF TypeOK
  <2>2. Aged(Resp(ready).data, w) \in Cells
    BY <1>4, AgedCell
  <2>3. QED
    BY <2>1, <2>2 DEF Clock, RamClock
<1>8. iresp' \in [{1, 2} -> Cells]
  <2>1. miss_addr \in [line : Ways, index : Sets, offset : Offsets]
    BY <1>0 DEF TypeOK
  <2>2. \A p \in {1, 2} : /\ PortAddr(p).line \in Ways /\ PortAddr(p).index \in Sets
                          /\ PortAddr(p).offset \in Offsets
    BY <1>1, <1>2, <2>1 DEF PortAddr
  <2>3. \A p \in {1, 2} :
          Aged(data_ram[PortAddr(p).line][PortAddr(p).index][PortAddr(p).offset], w)
            \in Cells
    BY <1>0, <2>2, AgedCell DEF TypeOK
  <2>4. Junk \in Cells
    BY DEF Cells
  <2>5. QED
    BY <2>3, <2>4 DEF Clock, RamClock
<1>9. /\ state' \in {"IDLE", "FETCH_1", "FETCH_2", "INVALID_ALL"}
      /\ miss_addr' \in [line : Ways, index : Sets, offset : Offsets]
      /\ meta_index' \in Sets
  <2>1. CASE FsmIdle(noise)
    <3>1. CASE StartFetch(1)
      BY <1>0, <1>1, <1>2, <1>3, <3>1 DEF StartFetch, TypeOK
    <3>2. CASE StartFetch(2)
      BY <1>0, <1>1, <1>2, <1>3, <3>2 DEF StartFetch, TypeOK
    <3>3. QED
      BY <1>0, <1>3, <2>1, <3>1, <3>2 DEF FsmIdle, TypeOK
  <2>2. CASE FsmFetch(Resp(ready))
    <3>1. (miss_addr.offset + 1) % LineWords \in Offsets
      BY <1>0, GeometryAssumption DEF TypeOK, Offsets
    <3>2. QED
      BY <1>0, <2>2, <3>1 DEF FsmFetch, TypeOK
  <2>3. CASE FsmInvalid
    <3>1. (meta_index + 1) % NumSets \in Sets
      BY <1>0, GeometryAssumption DEF TypeOK, Sets
    <3>2. QED
      BY <1>0, <2>3, <3>1 DEF FsmInvalid, TypeOK
  <2>4. QED
    BY <2>1, <2>2, <2>3 DEF Clock, FsmClock
<1>10. inst_save' \in Insts \union {None}
  BY <1>0, RequestParts DEF Clock, SaveClock, CacheInst, TypeOK
<1>11. req' \in Requests
  BY <1>0 DEF Clock, ReqClock, TypeOK
<1>12. bus_busy' \in BOOLEAN /\ bus_beat' \in Offsets /\ bus_line' \in Words
  <2>1. LineOf(Addr(FetchPort)) \in Words
    <3>1. LineOf(Addr(FetchPort)) + 0 \in Words
      BY <1>1, <1>3, WordOfLine
    <3>2. Addr(FetchPort) \in Nat /\ Offset(Addr(FetchPort)) \in Nat
      BY <1>1, <1>3 DEF Words, Offsets
    <3>3. QED
      BY <3>1, <3>2 DEF LineOf
  <2>2. Resp(ready).ready /\ ~Resp(ready).last => bus_beat + 1 \in Offsets
    <3>1. Resp(ready).ready /\ ~Resp(ready).last => bus_beat # LineWords - 1
      BY DEF Resp
    <3>2. QED
      BY <1>0, <3>1, GeometryAssumption DEF TypeOK, Offsets
  <2>3. bus_busy' \in BOOLEAN
    BY DEF Clock, BusClock, Fetching, Resp
  <2>4. bus_beat' \in Offsets
    BY <1>0, <1>3, <2>2 DEF Clock, BusClock, TypeOK
  <2>5. bus_line' \in Words
    BY <1>0, <2>1 DEF Clock, BusClock, IcreqLine, TypeOK
  <2>6. QED
    BY <2>3, <2>4, <2>5
<1>13. asked' \in Words \union {None} /\ written' \subseteq Writable
  BY <1>0, <1>1 DEF Clock, HistoryClock, TypeOK
<1>14. QED
  BY <1>5, <1>6, <1>7, <1>8, <1>9, <1>10, <1>11, <1>12, <1>13 DEF TypeOK

-----------------------------------------------------------------------------
(* The steps.                                                              *)

(* A cell of a line that is kept ages. *)
LEMMA KeptCell ==
  ASSUME NEW w \in Writable \union {None}, Changes(w), NEW cell, NEW s, NEW t,
         NEW o, Holds(cell, s, t, o, written)
  PROVE  Holds(Aged(cell, w), s, t, o, written')
BY AgedHolds DEF Changes

LEMMA EmptyingStartsStep ==
  ASSUME CacheInv, NEW w \in Writable \union {None}, EmptyingStarts(w), TypeOK'
  PROVE  CacheInv'
<1>1. ~Fetching /\ ~Fetching'
  BY DEF EmptyingStarts, Fetching
<1>2. Distinct'
  BY DEF CacheInv, Distinct, EmptyingStarts, Ways
<1>3. LinesHeld'
  <2>1. ASSUME NEW y \in Ways, NEW s \in Sets, meta_ram'[s][y].valid,
               NEW o \in Offsets
        PROVE  Holds(data_ram'[y][s][o], s, meta_ram'[s][y].tag, o, written')
    <3>1. meta_ram[s][y].valid /\ meta_ram'[s][y].tag = meta_ram[s][y].tag
      BY <2>1 DEF EmptyingStarts
    <3>2. Holds(data_ram[y][s][o], s, meta_ram[s][y].tag, o, written)
      BY <1>1, <2>1, <3>1 DEF CacheInv, LinesHeld, Victim
    <3>3. QED
      BY <3>1, <3>2, KeptCell DEF EmptyingStarts, RamAges
  <2>2. QED
    BY <2>1 DEF LinesHeld
<1>4. Refill' /\ BusIdle'
  BY <1>1 DEF Refill, BusIdle, EmptyingStarts, BusQuiet
<1>5. Emptying'
  BY DEF Emptying, EmptyingStarts, Sets
<1>6. AnswersAsked' /\ NewCodeAfterInvalidate'
  BY DEF AnswersAsked, NewCodeAfterInvalidate, EmptyingStarts
<1>7. QED
  BY <1>2, <1>3, <1>4, <1>5, <1>6 DEF CacheInv

LEMMA RefillStartsStep ==
  ASSUME CacheInv, NEW p \in {1, 2}, NEW w \in Writable \union {None},
         RefillStarts(p, w), TypeOK'
  PROVE  CacheInv'
<1>1. ~Fetching /\ Fetching' /\ FetchPort' = p
  BY DEF RefillStarts, Fetching, FetchPort
<1>2. Addr(1)' = Addr(1) /\ Addr(2)' = Addr(2) /\ Addr(FetchPort)' = Addr(p)
  BY <1>1 DEF RefillStarts, Addr
<1>3. Distinct'
  BY DEF CacheInv, Distinct, RefillStarts
<1>4. LinesHeld'
  <2>1. ASSUME NEW y \in Ways, NEW s \in Sets, meta_ram'[s][y].valid,
               NEW o \in Offsets
        PROVE  Holds(data_ram'[y][s][o], s, meta_ram'[s][y].tag, o, written')
    <3>2. Holds(data_ram[y][s][o], s, meta_ram[s][y].tag, o, written)
      BY <1>1, <2>1 DEF CacheInv, LinesHeld, Victim, RefillStarts
    <3>3. QED
      BY <3>2, KeptCell DEF RefillStarts, RamAges
  <2>2. QED
    BY <2>1 DEF LinesHeld
<1>5. Refill'
  <2>1. \A y \in Ways : meta_ram[Index(Addr(p))][y].valid =>
                          meta_ram[Index(Addr(p))][y].tag # Tag(Addr(p))
    BY Lookup DEF CacheInv, RefillStarts
  <2>2. ~bus_busy' /\ bus_beat' = 0 /\ \A o \in Offsets : ~(o < 0)
    BY DEF RefillStarts, BusQuiet, Offsets
  <2>3. state' = "FETCH_2" => Index(Addr(1)) # Index(Addr(2))
    BY DEF RefillStarts
  <2>4. QED
    BY <1>1, <1>2, <2>1, <2>2, <2>3 DEF Refill, RefillStarts
<1>6. BusIdle' /\ Emptying'
  BY <1>1 DEF BusIdle, Emptying, RefillStarts, BusQuiet
<1>7. AnswersAsked' /\ NewCodeAfterInvalidate'
  BY DEF AnswersAsked, NewCodeAfterInvalidate, RefillStarts
<1>8. QED
  BY <1>3, <1>4, <1>5, <1>6, <1>7 DEF CacheInv

LEMMA RestsStep ==
  ASSUME CacheInv, NEW w \in Writable \union {None}, Rests(w), TypeOK'
  PROVE  CacheInv'
<1>1. ~Fetching /\ ~Fetching'
  BY DEF Rests, Fetching
<1>2. Distinct'
  BY DEF CacheInv, Distinct, Rests
<1>3. \A y \in Ways, s \in Sets, o \in Offsets : meta_ram[s][y].valid =>
        Holds(data_ram[y][s][o], s, meta_ram[s][y].tag, o, written)
  BY <1>1 DEF CacheInv, LinesHeld, Victim
<1>4. LinesHeld'
  <2>1. ASSUME NEW y \in Ways, NEW s \in Sets, meta_ram'[s][y].valid,
               NEW o \in Offsets
        PROVE  Holds(data_ram'[y][s][o], s, meta_ram'[s][y].tag, o, written')
    BY <1>3, <2>1, KeptCell DEF Rests, RamAges
  <2>2. QED
    BY <2>1 DEF LinesHeld
<1>5. Refill' /\ BusIdle' /\ Emptying'
  BY <1>1 DEF Refill, BusIdle, Emptying, Rests, BusQuiet
<1>6. ASSUME asked' # None, NEW p \in {1, 2}
      PROVE  /\ iresp'[p] \in Words \X BOOLEAN /\ iresp'[p][1] = asked' + (p - 1)
             /\ iresp'[p][2] \/ iresp'[p][1] \in written'
  <2>1. /\ asked' = req.addr /\ Hit(p) /\ MetaAddr(p) = Index(Addr(p))
        /\ iresp'[p] =
             Aged(data_ram[HitLine(p)][Index(Addr(p))][Offset(Addr(p))], w)
    BY <1>6 DEF Rests
  <2>2. /\ Addr(p) \in Words /\ HitLine(p) \in Ways
        /\ Index(Addr(p)) \in Sets /\ Offset(Addr(p)) \in Offsets
        /\ meta_ram[Index(Addr(p))][HitLine(p)].valid
        /\ meta_ram[Index(Addr(p))][HitLine(p)].tag = Tag(Addr(p))
    BY <2>1, Lookup, AddressParts DEF CacheInv
  <2>3. Holds(iresp'[p], Index(Addr(p)), Tag(Addr(p)), Offset(Addr(p)), written')
    BY <1>3, <2>1, <2>2, KeptCell DEF Rests
  <2>4. iresp'[p] \in Words \X BOOLEAN /\ iresp'[p][1] \in Words
    BY <2>3 DEF Holds
  <2>5. iresp'[p][1] = Addr(p)
    BY <2>2, <2>3, <2>4, SameWord DEF Holds
  <2>6. QED
    BY <2>1, <2>3, <2>4, <2>5 DEF Holds, Addr
<1>7. AnswersAsked' /\ NewCodeAfterInvalidate'
  BY <1>6, ModelValuesAssumption DEF AnswersAsked, NewCodeAfterInvalidate
<1>8. QED
  BY <1>2, <1>4, <1>5, <1>7 DEF CacheInv

(* The word the bus has is the next one of the line. *)
LEMMA WordDelivered ==
  ASSUME CacheInv, Fetching, bus_busy
  PROVE  /\ Addr(FetchPort) \in Words /\ bus_beat \in Offsets
         /\ Holds(Resp(TRUE).data, Index(Addr(FetchPort)), Tag(Addr(FetchPort)),
                  bus_beat, written)
<1>1. FetchPort \in {1, 2}
  BY DEF FetchPort
<1>2. Addr(FetchPort) \in Words /\ bus_beat \in Offsets
  BY <1>1, Lookup DEF CacheInv, TypeOK
<1>3. bus_line = LineOf(Addr(FetchPort))
  BY DEF CacheInv, Refill
<1>4. Resp(TRUE).data = <<bus_line + bus_beat, TRUE>>
  BY DEF Resp
<1>5. PICK b : b = bus_line + bus_beat
  OBVIOUS
<1>6. /\ b \in Words /\ Offset(b) = bus_beat /\ Index(b) = Index(Addr(FetchPort))
      /\ Tag(b) = Tag(Addr(FetchPort))
  BY <1>2, <1>3, <1>5, WordOfLine
<1>7. Resp(TRUE).data = <<b, TRUE>>
  BY <1>4, <1>5
<1>8. <<b, TRUE>> \in Words \X BOOLEAN /\ <<b, TRUE>>[1] = b /\ <<b, TRUE>>[2]
  BY <1>6
<1>9. Holds(<<b, TRUE>>, Index(Addr(FetchPort)), Tag(Addr(FetchPort)), bus_beat,
            written)
  BY <1>6, <1>8 DEF Holds
<1>10. QED
  BY <1>2, <1>7, <1>9

LEMMA RefillGoesOnStep ==
  ASSUME CacheInv, NEW ready \in BOOLEAN, NEW w \in Writable \union {None},
         Refills(ready, w), RefillGoesOn(ready), TypeOK'
  PROVE  CacheInv'
<1> DEFINE a == Addr(FetchPort)
<1>1. /\ Fetching /\ Fetching' /\ FetchPort' = FetchPort
      /\ Addr(1)' = Addr(1) /\ Addr(2)' = Addr(2) /\ a' = a
  BY DEF Refills, RefillGoesOn, Fetching, FetchPort, Addr
<1>2. /\ req.valid /\ inst_save = "I_UNKNOWN"
      /\ state = "FETCH_2" => Index(Addr(1)) # Index(Addr(2))
      /\ miss_addr = [line |-> plru[Index(a)], index |-> Index(a),
                      offset |-> bus_beat]
      /\ \A y \in Ways : meta_ram[Index(a)][y].valid =>
                           meta_ram[Index(a)][y].tag # Tag(a)
      /\ \A o \in Offsets : o < bus_beat =>
           Holds(data_ram[miss_addr.line][miss_addr.index][o], Index(a), Tag(a), o,
                 written)
  BY <1>1 DEF CacheInv, Refill
<1>3. /\ miss_addr \in [line : Ways, index : Sets, offset : Offsets]
      /\ bus_beat \in Offsets
  BY DEF CacheInv, TypeOK
<1>4. miss_addr'.line = miss_addr.line /\ miss_addr'.index = miss_addr.index
  BY <1>3 DEF RefillGoesOn
<1>5. Distinct'
  BY DEF CacheInv, Distinct, RefillGoesOn
<1>6. LinesHeld'
  <2>1. ASSUME NEW y \in Ways, NEW s \in Sets, meta_ram'[s][y].valid,
               ~Victim(y, s)', NEW o \in Offsets
        PROVE  Holds(data_ram'[y][s][o], s, meta_ram'[s][y].tag, o, written')
    <3>1. ~(y = miss_addr.line /\ s = miss_addr.index)
      BY <1>1, <1>4, <2>1 DEF Victim
    <3>2. Holds(data_ram[y][s][o], s, meta_ram[s][y].tag, o, written)
      BY <2>1, <3>1 DEF CacheInv, LinesHeld, Victim, RefillGoesOn
    <3>3. QED
      BY <3>1, <3>2, KeptCell DEF Refills, RefillGoesOn
  <2>2. QED
    BY <2>1 DEF LinesHeld
<1>7. miss_addr' = [line |-> plru'[Index(a)], index |-> Index(a),
                    offset |-> bus_beat']
  BY <1>2, <1>3 DEF Refills, RefillGoesOn
<1>8. ASSUME NEW o \in Offsets, o < bus_beat'
      PROVE  Holds(data_ram'[miss_addr.line][miss_addr.index][o], Index(a), Tag(a), o,
                   written')
  <2>1. miss_addr.line \in Ways /\ miss_addr.index \in Sets /\ miss_addr.offset = bus_beat
    BY <1>2, <1>3
  <2>2. CASE o = bus_beat
    <3>1. ready
      BY <1>3, <1>8, <2>2 DEF RefillGoesOn, Offsets
    <3>2. bus_busy /\ Resp(ready) = Resp(TRUE)
      BY <3>1 DEF Refills, Resp
    <3>3. Holds(Resp(ready).data, Index(a), Tag(a), o, written)
      BY <1>1, <2>2, <3>2, WordDelivered
    <3>4. QED
      BY <2>1, <2>2, <3>3, KeptCell DEF Refills
  <2>3. CASE o # bus_beat
    <3>1. o < bus_beat
      BY <1>3, <1>8, <2>3 DEF RefillGoesOn, Offsets
    <3>2. Holds(data_ram[miss_addr.line][miss_addr.index][o], Index(a), Tag(a), o,
                written)
      BY <1>2, <3>1
    <3>3. QED
      BY <2>1, <2>3, <3>2, KeptCell DEF Refills
  <2>4. QED
    BY <2>2, <2>3
<1>9. Refill'
  BY <1>1, <1>2, <1>4, <1>7, <1>8 DEF Refill, Refills, RefillGoesOn
<1>10. BusIdle' /\ Emptying'
  BY <1>1 DEF BusIdle, Emptying, RefillGoesOn, Fetching
<1>11. AnswersAsked' /\ NewCodeAfterInvalidate'
  BY DEF AnswersAsked, NewCodeAfterInvalidate, Refills
<1>12. QED
  BY <1>5, <1>6, <1>9, <1>10, <1>11 DEF CacheInv

LEMMA RefillEndsStep ==
  ASSUME CacheInv, NEW ready \in BOOLEAN, NEW w \in Writable \union {None},
         Refills(ready, w), RefillEnds(ready), TypeOK'
  PROVE  CacheInv'
<1> DEFINE a == Addr(FetchPort)
<1>1. Fetching /\ ~Fetching'
  BY DEF Refills, RefillEnds, Fetching
<1>2. /\ miss_addr.line \in Ways /\ miss_addr.index = Index(a)
      /\ miss_addr.index \in Sets /\ miss_addr.offset = bus_beat
      /\ \A y \in Ways : meta_ram[Index(a)][y].valid =>
                           meta_ram[Index(a)][y].tag # Tag(a)
      /\ \A o \in Offsets : o < bus_beat =>
           Holds(data_ram[miss_addr.line][miss_addr.index][o], Index(a), Tag(a), o,
                 written)
  BY <1>1 DEF CacheInv, Refill, TypeOK
<1>3. Distinct'
  BY <1>2 DEF CacheInv, Distinct, RefillEnds, Ways
<1>4. LinesHeld'
  <2>1. ASSUME NEW y \in Ways, NEW s \in Sets, meta_ram'[s][y].valid,
               NEW o \in Offsets
        PROVE  Holds(data_ram'[y][s][o], s, meta_ram'[s][y].tag, o, written')
    <3>1. CASE y = miss_addr.line /\ s = miss_addr.index
      <4>1. meta_ram'[s][y].tag = Tag(a) /\ s = Index(a)
        BY <1>2, <3>1 DEF RefillEnds
      <4>2. CASE o = bus_beat
        <5>1. bus_busy /\ Resp(ready) = Resp(TRUE)
          BY DEF RefillEnds, Refills, Resp
        <5>2. Holds(Resp(ready).data, Index(a), Tag(a), o, written)
          BY <1>1, <4>2, <5>1, WordDelivered
        <5>3. data_ram'[y][s][o] = Aged(Resp(ready).data, w)
          BY <1>2, <3>1, <4>2 DEF Refills
        <5>4. QED
          BY <4>1, <5>2, <5>3, KeptCell DEF Refills
      <4>3. CASE o # bus_beat
        <5>1. o < bus_beat
          BY <4>3 DEF RefillEnds, Offsets
        <5>2. data_ram'[y][s][o] = Aged(data_ram[y][s][o], w)
          BY <1>2, <3>1, <4>3 DEF Refills
        <5>3. QED
          BY <1>2, <3>1, <4>1, <5>1, <5>2, KeptCell DEF Refills
      <4>4. QED
        BY <4>2, <4>3
    <3>2. CASE ~(y = miss_addr.line /\ s = miss_addr.index)
      <4>1. meta_ram'[s][y] = meta_ram[s][y]
        BY <3>2 DEF RefillEnds
      <4>2. Holds(data_ram[y][s][o], s, meta_ram[s][y].tag, o, written)
        BY <2>1, <3>2, <4>1 DEF CacheInv, LinesHeld, Victim
      <4>3. QED
        BY <3>2, <4>1, <4>2, KeptCell DEF Refills
    <3>3. QED
      BY <3>1, <3>2
  <2>2. QED
    BY <2>1 DEF LinesHeld
<1>5. Refill' /\ BusIdle' /\ Emptying'
  BY <1>1 DEF Refill, BusIdle, Emptying, RefillEnds, BusQuiet
<1>6. AnswersAsked' /\ NewCodeAfterInvalidate'
  BY DEF AnswersAsked, NewCodeAfterInvalidate, Refills
<1>7. QED
  BY <1>3, <1>4, <1>5, <1>6 DEF CacheInv

LEMMA EmptiesStep ==
  ASSUME CacheInv, NEW w \in Writable \union {None}, Empties(w), TypeOK'
  PROVE  CacheInv'
<1>1. ~Fetching /\ ~Fetching' /\ meta_index \in Sets
  BY DEF Empties, Fetching, CacheInv, TypeOK
<1>2. \A s \in Sets, y \in Ways : s < meta_index => ~meta_ram[s][y].valid
  BY DEF CacheInv, Emptying, Empties
<1>3. Distinct'
  BY DEF CacheInv, Distinct, Empties, Ways
<1>4. LinesHeld'
  <2>1. ASSUME NEW y \in Ways, NEW s \in Sets, meta_ram'[s][y].valid,
               NEW o \in Offsets
        PROVE  Holds(data_ram'[y][s][o], s, meta_ram'[s][y].tag, o, written')
    <3>1. s # meta_index /\ meta_ram'[s][y] = meta_ram[s][y]
      BY <2>1 DEF Empties
    <3>2. ~(s < meta_index)
      BY <1>2, <2>1, <3>1
    <3>3. ~LastSet
      BY <1>1, <3>1, <3>2, GeometryAssumption DEF LastSet, Sets
    <3>4. Changes(w)
      BY <3>3 DEF Empties
    <3>5. Holds(data_ram[y][s][o], s, meta_ram[s][y].tag, o, written)
      BY <1>1, <2>1, <3>1 DEF CacheInv, LinesHeld, Victim
    <3>6. QED
      BY <3>1, <3>4, <3>5, KeptCell DEF Empties, RamAges
  <2>2. QED
    BY <2>1 DEF LinesHeld
<1>5. Refill' /\ BusIdle'
  BY <1>1 DEF Refill, BusIdle, Empties, BusQuiet
<1>6. Emptying'
  <2>1. ASSUME state' = "INVALID_ALL"
        PROVE  /\ req' = req /\ inst_save' = inst_save
               /\ meta_index' = meta_index + 1
    BY <2>1 DEF Empties
  <2>2. ASSUME state' = "INVALID_ALL", NEW s \in Sets, NEW y \in Ways,
               s < meta_index'
        PROVE  ~meta_ram'[s][y].valid
    <3>1. s = meta_index \/ s < meta_index
      BY <1>1, <2>1, <2>2 DEF Sets
    <3>2. QED
      BY <1>1, <1>2, <3>1 DEF Empties, Sets
  <2>3. QED
    BY <2>1, <2>2 DEF CacheInv, Emptying, Empties
<1>7. AnswersAsked' /\ NewCodeAfterInvalidate'
  BY DEF AnswersAsked, NewCodeAfterInvalidate, Empties
<1>8. QED
  BY <1>3, <1>4, <1>5, <1>6, <1>7 DEF CacheInv

-----------------------------------------------------------------------------
(* The theorems.                                                           *)

LEMMA CacheInvariant == Spec => []CacheInv
<1>1. Init => CacheInv
  <2> SUFFICES ASSUME Init PROVE CacheInv
    OBVIOUS
  <2>0. 0 \in Sets /\ 0 \in Offsets /\ 0 \in Tags /\ 0 \in Words
    BY GeometryAssumption, FetchesAssumption DEF Sets, Offsets, Tags, Words
  <2>1. TypeOK
    <3>1. meta_ram \in [Sets -> [Ways -> [valid : BOOLEAN, tag : Tags]]]
      BY <2>0 DEF Init
    <3>2. plru \in [Sets -> Ways] /\ data_ram \in [Ways -> [Sets -> [Offsets -> Cells]]]
          /\ iresp \in [{1, 2} -> Cells]
      BY DEF Init, Ways, Cells
    <3>3. miss_addr \in [line : Ways, index : Sets, offset : Offsets]
      BY <2>0 DEF Init, Ways
    <3>4. req \in Requests
      BY FetchesAssumption DEF Init, Requests
    <3>5. /\ bus_busy \in BOOLEAN /\ bus_beat \in Offsets /\ bus_line \in Words
          /\ asked \in Words \union {None} /\ written \subseteq Writable
          /\ meta_index \in Sets /\ inst_save \in Insts \union {None}
          /\ state \in {"IDLE", "FETCH_1", "FETCH_2", "INVALID_ALL"}
      BY <2>0 DEF Init
    <3>6. QED
      BY <3>1, <3>2, <3>3, <3>4, <3>5 DEF TypeOK
  <2>2. \A s \in Sets, y \in Ways : ~meta_ram[s][y].valid
    BY DEF Init
  <2>3. Distinct /\ LinesHeld
    BY <2>2 DEF Distinct, LinesHeld, Ways
  <2>4. Refill /\ BusIdle /\ Emptying
    BY DEF Init, Refill, BusIdle, Emptying, Fetching
  <2>5. AnswersAsked /\ NewCodeAfterInvalidate
    BY DEF Init, AnswersAsked, NewCodeAfterInvalidate
  <2>6. QED
    BY <2>1, <2>3, <2>4, <2>5 DEF CacheInv
<1>2. CacheInv /\ [Next]_vars => CacheInv'
  <2> SUFFICES ASSUME CacheInv, [Next]_vars PROVE CacheInv'
    OBVIOUS
  <2>1. CASE Next
    <3>1. PICK noise \in Insts, ready \in BOOLEAN, w \in Writable \union {None} :
            Clock(noise, ready, w)
      BY <2>1 DEF Next
    <3>2. TypeOK'
      BY <3>1, TypeStep
    <3>3. state = "IDLE" \/ Fetching \/ state = "INVALID_ALL"
      BY DEF CacheInv, TypeOK, Fetching
    <3>4. CASE state = "IDLE"
      BY <3>1, <3>2, <3>4, IdleCases, EmptyingStartsStep, RefillStartsStep, RestsStep
    <3>5. CASE Fetching
      BY <3>1, <3>2, <3>5, RefillCases, RefillGoesOnStep, RefillEndsStep
    <3>6. CASE state = "INVALID_ALL"
      BY <3>1, <3>2, <3>6, EmptyCases, EmptiesStep
    <3>7. QED
      BY <3>3, <3>4, <3>5, <3>6
  <2>2. CASE UNCHANGED vars
    BY <2>2 DEF vars, CacheInv, TypeOK, Distinct, LinesHeld, Victim, Refill, BusIdle,
       Emptying, AnswersAsked, NewCodeAfterInvalidate, Fetching, FetchPort, Addr
  <2>3. QED
    BY <2>1, <2>2
<1>3. QED
  BY <1>1, <1>2, PTL DEF Spec

(* The words answered are the two asked for, at any geometry: hits and     *)
(* refills of one or two lines, with an I-cache instruction between any    *)
(* two cycles (ICache.sv:380-384, 432).                                    *)
THEOREM AnswersWhatIsAsked == Spec => []AnswersAsked
<1>1. CacheInv => AnswersAsked
  BY DEF CacheInv
<1>2. QED
  BY <1>1, CacheInvariant, PTL

(* After an I-cache instruction has emptied the cache no word changed      *)
(* before it is answered from an old copy (ICache.sv:349-353).             *)
THEOREM NewCodeRuns == Spec => []NewCodeAfterInvalidate
<1>1. CacheInv => NewCodeAfterInvalidate
  BY DEF CacheInv
<1>2. QED
  BY <1>1, CacheInvariant, PTL

(* The types, and no line in both ways of its set. *)
THEOREM LineInOneWay == Spec => []OneCopy
<1>1. CacheInv => OneCopy
  BY DEF CacheInv, OneCopy, Distinct
<1>2. QED
  BY <1>1, CacheInvariant, PTL
=============================================================================
