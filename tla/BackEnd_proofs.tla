---------------------------- MODULE BackEnd_proofs ---------------------------
(***************************************************************************)
(* Proofs about the back end, for every program and every choice of the    *)
(* exceptions its instructions may raise.                                  *)
(***************************************************************************)
EXTENDS BackEnd, TLAPS

-----------------------------------------------------------------------------
(* The inductive invariant.                                                *)

(* An instruction at pc p that meets exception e, as it is decided once it *)
(* has gone through execute.                                               *)
MemOf(p, e) ==
  IF Kind(p) \in {"load", "store"} /\ e # "misalign" THEN Kind(p) ELSE "none"

TypeOf(p, e) ==
  CASE e # None -> "EXCEPTION"
    [] e = None /\ Kind(p) = "eret" -> "ERET"
    [] OTHER -> "NO_EXC"

(* A bundle as it is issued. *)
IssuedShape(b) ==
  /\ b \in [Slots -> Instructions]
  /\ \A i \in Slots :
       /\ ~b[i].valid => b[i] = Empty
       /\ b[i].valid =>
            /\ b[i].etype \in Raises(b[i].pc)
            /\ b[i].mem = MemOf(b[i].pc, None)
            /\ b[i].ctype = TypeOf(b[i].pc, IF b[i].etype = "syscall" THEN "syscall"
                                            ELSE None)
  /\ ~b[1].is_slot
  /\ b[1].valid /\ Kind(b[1].pc) = "branch" => b[0].valid
  /\ b[0].valid =>
       /\ b[1].valid /\ b[1].ctype = "NO_EXC" /\ b[0].pc = Succ(b[1].pc)
       /\ Kind(b[0].pc) # "branch"
       /\ b[0].is_slot <=> Kind(b[1].pc) = "branch"
  /\ b[1].branch_taken => Kind(b[1].pc) = "branch"

(* A bundle that has gone through execute.  If the older instruction stops *)
(* the program, the younger one does nothing, but a store beside a trap.   *)
ExecutedShape(b) ==
  /\ b \in [Slots -> Instructions]
  /\ ~b[1].valid => b = NoBundle
  /\ b[1].valid =>
       /\ b[1].etype \in Raises(b[1].pc)
       /\ b[1].mem = MemOf(b[1].pc, b[1].etype)
       /\ b[1].ctype = TypeOf(b[1].pc, b[1].etype)
  /\ ~b[1].is_slot
  /\ b[0].valid =>
       /\ b[0].pc = Succ(b[1].pc)
       /\ Kind(b[0].pc) # "branch"
       /\ b[0].is_slot <=> Kind(b[1].pc) = "branch"
  /\ b[1].ctype = "NO_EXC" =>
       /\ ~b[0].valid => b[0] = Empty /\ (b[1].valid => Kind(b[1].pc) # "branch")
       /\ b[0].valid => /\ b[0].etype \in Raises(b[0].pc)
                        /\ b[0].mem = MemOf(b[0].pc, b[0].etype)
                        /\ b[0].ctype = TypeOf(b[0].pc, b[0].etype)
  /\ b[1].ctype # "NO_EXC" =>
       b[0].ctype # "ERET" /\ (b[1].etype # "trap" => b[0].mem # "store")
  /\ b[0].mem = "store" => b[0].valid /\ Kind(b[0].pc) = "store"
  /\ b[1].branch_taken => Kind(b[1].pc) = "branch"

(* The same behind the memory stage. *)
PassedShape(b) ==
  ExecutedShape(b) /\ (b[1].ctype # "NO_EXC" => ~b[0].regwrite)

Shapes ==
  /\ IssuedShape(dataI) /\ ExecutedShape(dataE)
  /\ PassedShape(dataM1) /\ PassedShape(dataM2) /\ PassedShape(dataM3)

(* The program goes on elsewhere behind this bundle, as far as the core    *)
(* knows once it has gone through execute; and of an issued one.           *)
Stops(b) == \E i \in Slots : b[i].ctype # "NO_EXC"
WillStop(b) == \E i \in Slots :
  b[i].valid /\ (b[i].etype # None \/ Kind(b[i].pc) = "eret")

(* Bundle b comes next if p is the next pc, and the pc after it. *)
Placed(b, p) == b[1].valid => b[1].pc = p
After(p, b) ==
  CASE b[0].valid -> Succ(Succ(p))
    [] ~b[0].valid /\ b[1].valid -> Succ(p)
    [] OTHER -> p

Pc2 == After(arch, dataM3)
Pc1 == After(Pc2, dataM2)
PcE == After(Pc1, dataM1)
PcI == After(PcE, dataE)
PcN == After(PcI, dataI)

(* Behind a bundle that stops the program there is nothing, and nothing    *)
(* comes.                                                                  *)
NothingBehind ==
  /\ Stops(dataM3) => dataM2 = NoBundle /\ dataM1 = NoBundle
  /\ Stops(dataM2) => dataM1 = NoBundle
  /\ front = "shut" <=> Stops(dataM1) \/ Stops(dataM2) \/ Stops(dataM3)
  /\ front # "open" => dataE = NoBundle /\ dataI = NoBundle

(* The registers hold consecutive parts of the program, up to a bundle     *)
(* that stops it or a mispredicted branch.                                 *)
InProgram ==
  /\ Placed(dataM3, arch)
  /\ ~Stops(dataM3) => Placed(dataM2, Pc2)
  /\ ~Stops(dataM3) /\ ~Stops(dataM2) => Placed(dataM1, Pc1)
  /\ front # "shut" =>
       /\ Placed(dataE, PcE)
       /\ ~Stops(dataE) /\ ~dataE[1].branch_taken =>
            /\ Placed(dataI, PcI)
            /\ ~WillStop(dataI) /\ ~dataI[1].branch_taken => next = PcN

(* A pc that is not that of a delay slot. *)
NotSlot(p) == p \in User \ {0} => Program[p - 1] # "branch"

(* EXL is set exactly in the handler. *)
Levels ==
  /\ exl <=> arch \notin User
  /\ NotSlot(arch)
  /\ epc \in User /\ NotSlot(epc)

SavedPc == IF int_slot THEN int_pc_save - 1 ELSE int_pc_save

(* The pc saved for an interrupt is that of the instruction before the     *)
(* next one; one latched before an exception is entered before the handler *)
(* comes.                                                                  *)
IntInv ==
  /\ int_pc_saved /\ ~exl =>
       /\ int_pc_save \in User /\ arch = Succ(int_pc_save)
       /\ SavedPc \in User /\ NotSlot(SavedPc)
  /\ exl /\ int_saved =>
       /\ int_pc_saved /\ front = "fetch"
       /\ dataM1 = NoBundle /\ dataM2 = NoBundle /\ dataM3 = NoBundle

(* Where the handler returns to. *)
Returns ==
  /\ ReturnsToFault
  /\ exl /\ entered = "INT" =>
       resume \in User /\ (resume + Handler - epc) % Handler <= 4

StoresIn(b) == {b[i].pc : i \in {j \in Slots : b[j].mem = "store"}}

(* The stores sent and not completed are those behind the memory stage. *)
SentInv == sent = StoresIn(dataM1) \union StoresIn(dataM2) \union StoresIn(dataM3)

BackInv ==
  /\ TypeOK /\ Shapes /\ NothingBehind /\ InProgram /\ Levels /\ IntInv /\ Returns

-----------------------------------------------------------------------------
(* The program.                                                            *)

LEMMA Constants ==
  /\ Handler \in Nat \ {0} /\ User = 0..(Handler - 1)
  /\ \A p \in User : Program[p] \in Kinds
  /\ \A p \in User : Program[p] = "branch" =>
       p + 1 \in User /\ Succ(p) = p + 1 /\ Program[p + 1] # "branch"
  /\ \A p \in User : Faults[p] \subseteq EType
<1>1. Handler \in Nat \ {0} /\ User = 0..(Handler - 1)
  BY ProgramAssumption DEF User
<1>2. \A p \in User : Program[p] \in Kinds
  BY <1>1, ProgramAssumption
<1>3. ASSUME NEW p \in User, Program[p] = "branch"
      PROVE  p + 1 \in User /\ Succ(p) = p + 1 /\ Program[p + 1] # "branch"
  <2>1. p # Handler - 1
    BY <1>3, ProgramAssumption
  <2>2. QED
    BY <1>1, <1>3, <2>1, ProgramAssumption DEF Succ
<1>4. \A p \in User : Faults[p] \subseteq EType
  BY FaultsAssumption
<1>5. QED
  BY <1>1, <1>2, <1>3, <1>4

LEMMA SuccFacts ==
  ASSUME NEW p \in Pcs
  PROVE  /\ Succ(p) \in Pcs
         /\ p \in User => Succ(p) \in User
         /\ p = Handler => Succ(p) = Handler + 1
         /\ Succ(p) = p + 1 \/ Succ(p) = 0
BY Constants DEF Succ, Pcs

LEMMA KindFacts ==
  ASSUME NEW p \in Pcs
  PROVE  /\ Kind(p) \in Kinds \union {"eret"}
         /\ Kind(p) = "eret" <=> p = Handler + 1
         /\ p \in User => Kind(p) = Program[p]
         /\ p = Handler => Kind(p) = "alu"
         /\ p \notin User => p \in {Handler, Handler + 1} /\ Raises(p) = {None}
         /\ Raises(p) \subseteq EType \union {None}
<1>1. Handler \notin User /\ Handler + 1 \notin User /\ Handler + 1 # Handler
  BY Constants
<1>2. p \notin User => p \in {Handler, Handler + 1}
  BY Constants DEF Pcs
<1>3. Raises(p) \subseteq EType \union {None} /\ (p \notin User => Raises(p) = {None})
  BY Constants DEF Raises
<1>4. p \in User => Kind(p) = Program[p] /\ Kind(p) \in Kinds /\ Kind(p) # "eret"
  BY Constants DEF Kind, Kinds
<1>5. (p = Handler => Kind(p) = "alu") /\ (p = Handler + 1 => Kind(p) = "eret")
  BY <1>1 DEF Kind
<1>6. QED
  BY <1>1, <1>2, <1>3, <1>4, <1>5 DEF Kinds

(* A delay slot comes directly behind its branch. *)
LEMMA SlotFacts ==
  ASSUME NEW p \in Pcs
  PROVE  /\ Kind(p) = "branch" =>
              p \in User /\ Succ(p) = p + 1 /\ Kind(Succ(p)) # "branch"
         /\ Kind(p) # "branch" => NotSlot(Succ(p))
<1>1. ASSUME Kind(p) = "branch"
      PROVE  p \in User /\ Succ(p) = p + 1 /\ Kind(Succ(p)) # "branch"
  <2>1. p \in User /\ Program[p] = "branch"
    BY <1>1, KindFacts DEF Kinds
  <2>2. p + 1 \in User /\ Succ(p) = p + 1 /\ Program[p + 1] # "branch"
    BY <2>1, Constants
  <2>3. QED
    BY <2>1, <2>2, SuccFacts, KindFacts DEF Pcs
<1>2. ASSUME Kind(p) # "branch", Succ(p) \in User \ {0}
      PROVE  Program[Succ(p) - 1] # "branch"
  <2>1. Succ(p) = p + 1 /\ p \in User
    BY <1>2, SuccFacts, Constants DEF Pcs, Succ
  <2>2. QED
    BY <1>2, <2>1, KindFacts, Constants
<1>3. QED
  BY <1>1, <1>2 DEF NotSlot

-----------------------------------------------------------------------------
(* Bundles.                                                                *)

LEMMA EmptyFacts ==
  /\ Empty \in Instructions /\ NoBundle \in [Slots -> Instructions]
  /\ NoBundle[1] = Empty /\ NoBundle[0] = Empty
  /\ ~Empty.valid /\ Empty.pc = 0 /\ Empty.mem = "none" /\ ~Empty.regwrite
  /\ Empty.ctype = "NO_EXC" /\ Empty.etype = None /\ ~Empty.is_slot
  /\ ~Empty.branch_taken
<1>1. Empty \in Instructions
  BY Constants DEF Empty, Instructions, Pcs
<1>2. NoBundle[1] = Empty /\ NoBundle[0] = Empty
      /\ NoBundle \in [Slots -> Instructions]
  BY <1>1 DEF NoBundle, Bundle, Slots
<1>3. QED
  BY <1>1, <1>2 DEF Empty

LEMMA FieldTypes ==
  ASSUME NEW b \in [Slots -> Instructions], NEW i \in Slots
  PROVE  /\ b[i] \in Instructions
         /\ b[i].valid \in BOOLEAN /\ b[i].pc \in Pcs
         /\ b[i].mem \in {"none", "load", "store"} /\ b[i].regwrite \in BOOLEAN
         /\ b[i].ctype \in {"NO_EXC", "EXCEPTION", "ERET"}
         /\ b[i].etype \in EType \union {None}
         /\ b[i].is_slot \in BOOLEAN /\ b[i].branch_taken \in BOOLEAN
BY DEF Instructions

LEMMA BundleFacts ==
  ASSUME NEW x \in Instructions, NEW y \in Instructions
  PROVE  /\ Bundle(x, y) \in [Slots -> Instructions]
         /\ Bundle(x, y)[1] = x /\ Bundle(x, y)[0] = y
BY DEF Bundle, Slots

LEMMA SlotsAre == /\ 0 \in Slots /\ 1 \in Slots
                  /\ \A i \in Slots : i = 0 \/ i = 1
BY DEF Slots

LEMMA NoBundleShapes ==
  /\ IssuedShape(NoBundle) /\ PassedShape(NoBundle) /\ ExecutedShape(NoBundle)
  /\ ~Stops(NoBundle) /\ ~WillStop(NoBundle) /\ ~NoBundle[1].branch_taken
  /\ \A p : Placed(NoBundle, p) /\ After(p, NoBundle) = p
  /\ StoresIn(NoBundle) = {}
<1> USE EmptyFacts, SlotsAre
<1>1. IssuedShape(NoBundle)
  BY DEF IssuedShape
<1>2. ExecutedShape(NoBundle)
  BY DEF ExecutedShape
<1>3. PassedShape(NoBundle)
  BY <1>2 DEF PassedShape
<1>4. ~Stops(NoBundle) /\ ~WillStop(NoBundle) /\ ~NoBundle[1].branch_taken
  BY DEF Stops, WillStop
<1>5. \A p : Placed(NoBundle, p) /\ After(p, NoBundle) = p
  BY DEF Placed, After
<1>6. StoresIn(NoBundle) = {}
  BY DEF StoresIn
<1>7. QED
  BY <1>1, <1>2, <1>3, <1>4, <1>5, <1>6

(* What Execute does to each field. *)
LEMMA ExecuteFields ==
  ASSUME NEW b \in [Slots -> Instructions]
  PROVE  LET e == Execute(b) IN
         /\ e \in [Slots -> Instructions]
         /\ e[1].valid = b[1].valid /\ e[1].pc = b[1].pc
         /\ e[1].mem = (IF Misaligned(b, 1) THEN "none" ELSE b[1].mem)
         /\ e[1].regwrite = b[1].regwrite /\ e[1].ctype = ExecuteType(b, 1)
         /\ e[1].etype = b[1].etype /\ e[1].is_slot = b[1].is_slot
         /\ e[1].branch_taken = b[1].branch_taken
         /\ e[0].valid <=> (b[0].valid /\ b[1].etype # "overflow")
         /\ e[0].pc = b[0].pc
         /\ e[0].mem = YoungerMem(b)
         /\ e[0].regwrite = b[0].regwrite /\ e[0].ctype = ExecuteType(b, 0)
         /\ e[0].etype = b[0].etype /\ e[0].is_slot = b[0].is_slot
         /\ e[0].branch_taken = b[0].branch_taken
<1> DEFINE x == [b[1] EXCEPT !.mem = IF Misaligned(b, 1) THEN "none" ELSE @,
                             !.ctype = ExecuteType(b, 1)]
           y == [b[0] EXCEPT !.mem = YoungerMem(b),
                             !.valid = @ /\ b[1].etype # "overflow",
                             !.ctype = ExecuteType(b, 0)]
<1>1. b[1] \in Instructions /\ b[0] \in Instructions
  BY SlotsAre
<1>2. \A i \in Slots : ExecuteType(b, i) \in {"NO_EXC", "EXCEPTION", "ERET"}
  BY FieldTypes DEF ExecuteType
<1>3. YoungerMem(b) \in {"none", "load", "store"}
  BY FieldTypes, SlotsAre DEF YoungerMem
<1>4. /\ x \in Instructions
      /\ x.valid = b[1].valid /\ x.pc = b[1].pc
      /\ x.mem = (IF Misaligned(b, 1) THEN "none" ELSE b[1].mem)
      /\ x.regwrite = b[1].regwrite /\ x.ctype = ExecuteType(b, 1)
      /\ x.etype = b[1].etype /\ x.is_slot = b[1].is_slot
      /\ x.branch_taken = b[1].branch_taken
  <2> HIDE DEF ExecuteType, Misaligned
  <2>1. QED
    BY <1>1, <1>2, SlotsAre DEF Instructions
<1>5. /\ y \in Instructions
      /\ y.valid <=> (b[0].valid /\ b[1].etype # "overflow")
      /\ y.pc = b[0].pc /\ y.mem = YoungerMem(b)
      /\ y.regwrite = b[0].regwrite /\ y.ctype = ExecuteType(b, 0)
      /\ y.etype = b[0].etype /\ y.is_slot = b[0].is_slot
      /\ y.branch_taken = b[0].branch_taken
  BY <1>1, <1>2, <1>3, SlotsAre DEF Instructions
<1>6. Execute(b) = Bundle(x, y)
  BY DEF Execute
<1> HIDE DEF x, y
<1>7. Execute(b) \in [Slots -> Instructions] /\ Execute(b)[1] = x /\ Execute(b)[0] = y
  BY <1>4, <1>5, <1>6, BundleFacts
<1>8. QED
  BY <1>4, <1>5, <1>7

(* Execute decides what an instruction does, and whether the program goes  *)
(* on behind its bundle.                                                   *)
LEMMA ExecuteShape ==
  ASSUME NEW b, IssuedShape(b)
  PROVE  /\ ExecutedShape(Execute(b))
         /\ Stops(Execute(b)) <=> WillStop(b)
         /\ Execute(b)[1].branch_taken = b[1].branch_taken
         /\ b = NoBundle => Execute(b) = NoBundle
         /\ \A p : /\ Placed(b, p) => Placed(Execute(b), p)
                   /\ ~WillStop(b) => After(p, Execute(b)) = After(p, b)
<1> DEFINE e == Execute(b)
<1>1. b \in [Slots -> Instructions]
  BY DEF IssuedShape
<1>2. /\ b[1].pc \in Pcs /\ b[0].pc \in Pcs
      /\ b[1].valid \in BOOLEAN /\ b[0].valid \in BOOLEAN
      /\ b[1].etype \in EType \union {None} /\ b[0].etype \in EType \union {None}
      /\ b[1].is_slot \in BOOLEAN /\ b[0].is_slot \in BOOLEAN
      /\ b[1].branch_taken \in BOOLEAN
  BY <1>1, FieldTypes, SlotsAre
<1>3. /\ ~b[1].valid => b[1] = Empty /\ b[0] = Empty
      /\ ~b[0].valid => b[0] = Empty
  BY SlotsAre, <1>2 DEF IssuedShape
<1>4. /\ b[1].valid => /\ b[1].etype \in Raises(b[1].pc)
                       /\ b[1].mem = MemOf(b[1].pc, None)
                       /\ b[1].ctype = TypeOf(b[1].pc, IF b[1].etype = "syscall"
                                                 THEN "syscall" ELSE None)
      /\ b[0].valid => /\ b[0].etype \in Raises(b[0].pc)
                       /\ b[0].mem = MemOf(b[0].pc, None)
                       /\ b[0].ctype = TypeOf(b[0].pc, IF b[0].etype = "syscall"
                                                 THEN "syscall" ELSE None)
  BY SlotsAre DEF IssuedShape
<1>5. /\ ~b[1].is_slot
      /\ b[1].valid /\ Kind(b[1].pc) = "branch" => b[0].valid
      /\ b[0].valid =>
           /\ b[1].valid /\ b[1].ctype = "NO_EXC" /\ b[0].pc = Succ(b[1].pc)
           /\ Kind(b[0].pc) # "branch"
           /\ b[0].is_slot <=> Kind(b[1].pc) = "branch"
      /\ b[1].branch_taken => Kind(b[1].pc) = "branch"
  BY DEF IssuedShape
<1>6. /\ e \in [Slots -> Instructions]
      /\ e[1].valid = b[1].valid /\ e[1].pc = b[1].pc
      /\ e[1].mem = (IF Misaligned(b, 1) THEN "none" ELSE b[1].mem)
      /\ e[1].regwrite = b[1].regwrite /\ e[1].ctype = ExecuteType(b, 1)
      /\ e[1].etype = b[1].etype /\ e[1].is_slot = b[1].is_slot
      /\ e[1].branch_taken = b[1].branch_taken
      /\ e[0].valid <=> (b[0].valid /\ b[1].etype # "overflow")
      /\ e[0].pc = b[0].pc /\ e[0].mem = YoungerMem(b)
      /\ e[0].regwrite = b[0].regwrite /\ e[0].ctype = ExecuteType(b, 0)
      /\ e[0].etype = b[0].etype /\ e[0].is_slot = b[0].is_slot
      /\ e[0].branch_taken = b[0].branch_taken
  BY <1>1, ExecuteFields
<1> HIDE DEF e
<1>7. e[0] \in Instructions /\ e[1] \in Instructions
  BY <1>6, SlotsAre
<1>a. /\ None \notin EType
      /\ b[1].etype \in {"overflow", "trap", "syscall", "misalign", None}
      /\ b[0].etype \in {"overflow", "trap", "syscall", "misalign", None}
      /\ None \notin {"overflow", "trap", "syscall", "misalign"}
  BY <1>2, NoneAssumption DEF EType
<1>b. ASSUME NEW p \in Pcs, NEW x \in Raises(p)
      PROVE  /\ Kind(p) = "eret" => x = None
             /\ x = "misalign" => Kind(p) \in {"load", "store"}
             /\ Kind(p) = "store" => x \in {"misalign", None}
  BY FaultsAssumption, KindFacts, Constants, NoneAssumption DEF Raises, Kinds,
     EType
<1>8. ASSUME b[1].valid
      PROVE  /\ e[1].mem = MemOf(b[1].pc, b[1].etype)
             /\ e[1].ctype = TypeOf(b[1].pc, b[1].etype)
  <2>1. e[1].mem = MemOf(b[1].pc, b[1].etype)
    BY <1>8, <1>4, <1>6, <1>a DEF MemOf, Misaligned
  <2>2. e[1].ctype = TypeOf(b[1].pc, b[1].etype)
    BY <1>8, <1>4, <1>6, <1>a, <1>b, <1>2
       DEF TypeOf, ExecuteType, Found, Misaligned
  <2>3. QED
    BY <2>1, <2>2
<1>9. ~b[1].valid => e = NoBundle
  <2>1. SUFFICES ASSUME ~b[1].valid PROVE e = NoBundle
    OBVIOUS
  <2>2. b[1] = Empty /\ b[0] = Empty
    BY <2>1, <1>3
  <2>3. ~Misaligned(b, 1) /\ ~Misaligned(b, 0) /\ ~Found(b, 1) /\ ~Found(b, 0)
    BY <2>2, EmptyFacts, <1>a DEF Misaligned, Found
  <2>4. e[1].mem = "none" /\ e[1].ctype = "NO_EXC" /\ e[0].mem = "none"
        /\ e[0].ctype = "NO_EXC" /\ ~e[0].valid /\ ~e[1].valid
    BY <2>2, <2>3, <1>6, EmptyFacts DEF ExecuteType, YoungerMem
  <2>5. e[1] = Empty
    BY <2>2, <2>4, <1>6, <1>7, EmptyFacts DEF Instructions
  <2>6. e[0] = Empty
    BY <2>2, <2>4, <1>6, <1>7, EmptyFacts DEF Instructions
  <2>7. QED
    BY <2>5, <2>6, <1>6, EmptyFacts DEF Slots
<1>10. ASSUME e[1].ctype = "NO_EXC", b[1].valid
       PROVE  b[1].etype = None /\ Kind(b[1].pc) # "eret"
  BY <1>8, <1>10, <1>2, <1>4, <1>b DEF TypeOf
<1>11. ASSUME e[1].ctype = "NO_EXC", b[1].valid, ~b[0].valid
       PROVE  e[0] = Empty /\ Kind(b[1].pc) # "branch"
  <2>2. b[0] = Empty
    BY <1>11, <1>3
  <2>3. ~Misaligned(b, 1) /\ ~Misaligned(b, 0) /\ ~Found(b, 0)
    BY <1>10, <1>11, <2>2, EmptyFacts, <1>a DEF Misaligned, Found
  <2>4. e[0].mem = "none" /\ e[0].ctype = "NO_EXC" /\ ~e[0].valid
    BY <2>2, <2>3, <1>6, EmptyFacts DEF ExecuteType, YoungerMem
  <2>5. e[0] = Empty
    BY <2>2, <2>4, <1>6, <1>7, EmptyFacts DEF Instructions
  <2>6. QED
    BY <1>5, <1>11, <2>5
<1>12. ASSUME e[1].ctype = "NO_EXC", b[0].valid
       PROVE  /\ e[0].valid /\ e[0].mem = MemOf(b[0].pc, b[0].etype)
              /\ e[0].ctype = TypeOf(b[0].pc, b[0].etype)
  <2>1. b[1].valid /\ b[1].etype = None /\ b[1].ctype = "NO_EXC"
    BY <1>12, <1>10, <1>5
  <2>2. e[0].valid
    BY <1>12, <2>1, <1>6, <1>a
  <2>3. ~Misaligned(b, 1)
    BY <2>1, <1>a DEF Misaligned
  <2>4. e[0].mem = MemOf(b[0].pc, b[0].etype)
    BY <1>12, <1>4, <1>6, <1>a, <2>1, <2>3 DEF MemOf, Misaligned, YoungerMem
  <2>5. e[0].ctype = TypeOf(b[0].pc, b[0].etype)
    BY <1>12, <1>4, <1>6, <1>a, <1>b, <1>2, <2>1, <2>3
       DEF TypeOf, ExecuteType, Found, Misaligned
  <2>6. QED
    BY <2>2, <2>4, <2>5
<1>13. ASSUME e[1].ctype # "NO_EXC"
       PROVE  /\ b[1].valid
              /\ e[0].ctype # "ERET"
              /\ b[1].etype # "trap" => e[0].mem # "store"
  <2>1. b[1].valid
    BY <1>13, <1>9, EmptyFacts
  <2>2. CASE b[0].valid
    <3>1. b[1].ctype = "NO_EXC" /\ Kind(b[1].pc) # "eret" /\ b[1].etype # "syscall"
          /\ b[1].etype # None
      BY <2>1, <2>2, <1>13, <1>8, <1>5, <1>4, <1>a DEF TypeOf
    <3>2. b[1].pc \in User
      BY <3>1, <1>4, <2>1, <1>2, KindFacts
    <3>3. b[0].pc \in User
      BY <3>2, <1>5, <2>2, <1>2, SuccFacts
    <3>4. Kind(b[0].pc) # "eret"
      BY <3>3, KindFacts, <1>2, Constants
    <3>5. e[0].ctype # "ERET"
      BY <3>4, <1>4, <1>6, <2>2, <1>a DEF TypeOf, ExecuteType
    <3>6. b[1].etype # "trap" => e[0].mem # "store"
      BY <3>1, <1>a, <1>6 DEF YoungerMem, Misaligned
    <3>7. QED
      BY <2>1, <3>5, <3>6
  <2>3. CASE ~b[0].valid
    <3>1. b[0] = Empty
      BY <2>3, <1>3
    <3>2. e[0].mem = "none"
      BY <3>1, <1>6, EmptyFacts DEF YoungerMem
    <3>3. e[0].ctype # "ERET"
      BY <3>1, <1>6, EmptyFacts DEF ExecuteType
    <3>4. QED
      BY <2>1, <3>2, <3>3
  <2>4. QED
    BY <2>2, <2>3, <1>2
<1>14. ASSUME e[0].mem = "store"
       PROVE  e[0].valid /\ Kind(e[0].pc) = "store"
  <2>1. b[0].mem = "store"
    BY <1>14, <1>6 DEF YoungerMem
  <2>2. b[0].valid
    BY <2>1, <1>3, EmptyFacts
  <2>3. b[1].etype # "overflow"
    BY <1>14, <1>6, <2>1, <1>a DEF YoungerMem, Misaligned
  <2>4. Kind(b[0].pc) = "store"
    BY <2>1, <2>2, <1>4 DEF MemOf
  <2>5. QED
    BY <2>2, <2>3, <2>4, <1>6
<1>15. ExecutedShape(e)
  <2>1. ~e[1].valid => e = NoBundle
    BY <1>9, <1>6
  <2>2. e[1].valid =>
          /\ e[1].etype \in Raises(e[1].pc)
          /\ e[1].mem = MemOf(e[1].pc, e[1].etype)
          /\ e[1].ctype = TypeOf(e[1].pc, e[1].etype)
    BY <1>8, <1>6, <1>4
  <2>3. e[0].valid =>
          /\ e[0].pc = Succ(e[1].pc)
          /\ Kind(e[0].pc) # "branch"
          /\ e[0].is_slot <=> Kind(e[1].pc) = "branch"
    BY <1>5, <1>6
  <2>4. e[1].ctype = "NO_EXC" =>
          /\ ~e[0].valid => e[0] = Empty /\ (e[1].valid => Kind(e[1].pc) # "branch")
          /\ e[0].valid => /\ e[0].etype \in Raises(e[0].pc)
                           /\ e[0].mem = MemOf(e[0].pc, e[0].etype)
                           /\ e[0].ctype = TypeOf(e[0].pc, e[0].etype)
    <3>1. CASE ~b[1].valid
      BY <3>1, <1>9, <1>6, EmptyFacts
    <3>2. CASE b[1].valid /\ b[0].valid
      BY <3>2, <1>12, <1>4, <1>6
    <3>3. CASE b[1].valid /\ ~b[0].valid
      BY <3>3, <1>11, <1>6
    <3>4. QED
      BY <3>1, <3>2, <3>3
  <2>5. ~e[1].is_slot /\ (e[1].branch_taken => Kind(e[1].pc) = "branch")
    BY <1>5, <1>6
  <2>6. QED
    BY <2>1, <2>2, <2>3, <2>4, <2>5, <1>13, <1>14, <1>6 DEF ExecutedShape
<1>16. Stops(e) <=> WillStop(b)
  <2>1. CASE ~b[1].valid
    BY <2>1, <1>9, <1>3, NoBundleShapes, EmptyFacts, SlotsAre DEF WillStop,
       Stops
  <2>2. CASE b[1].valid /\ e[1].ctype # "NO_EXC"
    BY <2>2, <1>8, SlotsAre DEF WillStop, Stops, TypeOf
  <2>3. CASE b[1].valid /\ e[1].ctype = "NO_EXC" /\ b[0].valid
    BY <2>3, <1>10, <1>12, SlotsAre DEF WillStop, Stops, TypeOf
  <2>4. CASE b[1].valid /\ e[1].ctype = "NO_EXC" /\ ~b[0].valid
    BY <2>4, <1>10, <1>11, SlotsAre, EmptyFacts DEF WillStop, Stops, TypeOf
  <2>5. QED
    BY <2>1, <2>2, <2>3, <2>4, <1>2
<1>17. ASSUME NEW p
       PROVE  /\ Placed(b, p) => Placed(e, p)
              /\ ~WillStop(b) => After(p, e) = After(p, b)
  <2>1. Placed(b, p) => Placed(e, p)
    BY <1>6 DEF Placed
  <2>2. ASSUME ~WillStop(b) PROVE After(p, e) = After(p, b)
    <3>1. b[1].valid => b[1].etype = None
      BY <2>2, SlotsAre DEF WillStop
    <3>2. e[0].valid <=> b[0].valid
      BY <3>1, <1>3, <1>5, <1>6, <1>a, EmptyFacts
    <3>3. QED
      BY <3>2, <1>6 DEF After
  <2>3. QED
    BY <2>1, <2>2
<1>18. b = NoBundle => e = NoBundle
  BY <1>9, EmptyFacts
<1>19. QED
  BY <1>15, <1>16, <1>17, <1>18, <1>6 DEF e

LEMMA MemoryShape ==
  ASSUME NEW b, ExecutedShape(b)
  PROVE  /\ PassedShape(Memory(b))
         /\ Stops(Memory(b)) <=> Stops(b)
         /\ StoresIn(Memory(b)) = StoresIn(b)
         /\ \A p : /\ Placed(b, p) => Placed(Memory(b), p)
                   /\ After(p, Memory(b)) = After(p, b)
         /\ b = NoBundle => Memory(b) = NoBundle
<1> DEFINE m == Memory(b)
           y == [b[0] EXCEPT !.regwrite = @ /\ b[1].ctype = "NO_EXC"]
<1>1. b \in [Slots -> Instructions] /\ b[0] \in Instructions /\ b[1] \in Instructions
  BY SlotsAre DEF ExecutedShape
<1>2. /\ y \in Instructions /\ y.valid = b[0].valid /\ y.pc = b[0].pc
      /\ y.mem = b[0].mem /\ y.ctype = b[0].ctype /\ y.etype = b[0].etype
      /\ y.is_slot = b[0].is_slot /\ y.branch_taken = b[0].branch_taken
      /\ y.regwrite <=> (b[0].regwrite /\ b[1].ctype = "NO_EXC")
  BY <1>1 DEF Instructions
<1>3. m = Bundle(b[1], y)
  BY DEF Memory
<1> HIDE DEF y, m
<1>4. m \in [Slots -> Instructions] /\ m[1] = b[1] /\ m[0] = y
  BY <1>1, <1>2, <1>3, BundleFacts
<1>5. b = NoBundle => m = NoBundle
  <2>1. b = NoBundle => y = Empty
    BY <1>1, <1>2, EmptyFacts DEF Instructions
  <2>2. QED
    BY <2>1, <1>4, EmptyFacts DEF Slots
<1>6. b[0] = Empty => y = Empty
    BY <1>1, <1>2, EmptyFacts DEF Instructions
<1>7. ExecutedShape(m)
  BY <1>2, <1>4, <1>5, <1>6 DEF ExecutedShape
<1>8. PassedShape(m)
  BY <1>7, <1>4, <1>2 DEF PassedShape
<1>9. Stops(m) <=> Stops(b)
  BY <1>4, <1>2, SlotsAre DEF Stops
<1>10. StoresIn(m) = StoresIn(b)
  <2>1. \A i \in Slots : m[i].mem = b[i].mem /\ m[i].pc = b[i].pc
    BY <1>4, <1>2, SlotsAre
  <2>2. QED
    BY <2>1 DEF StoresIn
<1>11. \A p : (Placed(b, p) => Placed(m, p)) /\ After(p, m) = After(p, b)
  BY <1>4, <1>2 DEF Placed, After
<1>12. QED
  BY <1>5, <1>8, <1>9, <1>10, <1>11 DEF m

(* What the front end issues at p. *)
LEMMA DecodedFacts ==
  ASSUME NEW p \in Pcs, NEW f \in Raises(p), NEW m \in BOOLEAN
  PROVE  LET d == Decoded(p, f, m) IN
         /\ d \in Instructions /\ d.valid /\ d.pc = p
         /\ d.mem = MemOf(p, None)
         /\ d.ctype = TypeOf(p, IF f = "syscall" THEN "syscall" ELSE None)
         /\ d.etype = f /\ ~d.is_slot /\ d.branch_taken = m
<1> DEFINE d == Decoded(p, f, m)
<1>1. /\ f \in EType \union {None} /\ None # "syscall" /\ None # "misalign"
      /\ Kind(p) = "eret" => f = None
  BY KindFacts, Constants, NoneAssumption DEF EType
<1> DEFINE mem == IF Kind(p) \in {"load", "store"} THEN Kind(p) ELSE "none"
           ctype == CASE f = "syscall" -> "EXCEPTION"
                      [] Kind(p) = "eret" -> "ERET"
                      [] OTHER -> "NO_EXC"
           reg == Kind(p) \in {"alu", "mul", "load"}
<1>2. mem \in {"none", "load", "store"} /\ mem = MemOf(p, None)
  BY <1>1 DEF MemOf
<1>3. /\ ctype \in {"NO_EXC", "EXCEPTION", "ERET"}
      /\ ctype = TypeOf(p, IF f = "syscall" THEN "syscall" ELSE None)
  BY <1>1 DEF TypeOf
<1>4. d = [Empty EXCEPT !.valid = TRUE, !.pc = p, !.mem = mem, !.regwrite = reg,
                        !.ctype = ctype, !.etype = f, !.branch_taken = m]
  BY DEF Decoded
<1>5. reg \in BOOLEAN
  OBVIOUS
<1> HIDE DEF mem, ctype, d, reg
<1>6. d = [valid |-> TRUE, pc |-> p, mem |-> mem, regwrite |-> reg,
           ctype |-> ctype, etype |-> f, is_slot |-> FALSE, branch_taken |-> m]
  BY <1>4 DEF Empty
<1>7. d \in Instructions
  BY <1>1, <1>2, <1>3, <1>5, <1>6 DEF Instructions
<1>8. QED
  BY <1>2, <1>3, <1>6, <1>7 DEF d

LEMMA IssuesShape ==
  ASSUME NEW p \in Pcs, NEW issued \in Issues(p)
  PROVE  /\ IssuedShape(issued.bundle) /\ issued.next \in Pcs
         /\ Placed(issued.bundle, p)
         /\ ~WillStop(issued.bundle) /\ ~issued.bundle[1].branch_taken =>
              issued.next = After(p, issued.bundle)
<1>1. CASE issued = [bundle |-> NoBundle, next |-> p]
  BY <1>1, NoBundleShapes
<1>2. ASSUME NEW f \in Raises(p), Kind(p) # "branch",
             issued = [bundle |-> Bundle(Decoded(p, f, FALSE), Empty),
                       next |-> Succ(p)]
      PROVE  /\ IssuedShape(issued.bundle) /\ issued.next \in Pcs
             /\ Placed(issued.bundle, p)
             /\ issued.next = After(p, issued.bundle)
  <2> DEFINE d == Decoded(p, f, FALSE)
             b == Bundle(d, Empty)
  <2>1. /\ d \in Instructions /\ d.valid /\ d.pc = p
        /\ d.mem = MemOf(p, None)
        /\ d.ctype = TypeOf(p, IF f = "syscall" THEN "syscall" ELSE None)
        /\ d.etype = f /\ ~d.is_slot /\ ~d.branch_taken
    BY DecodedFacts
  <2>2. b \in [Slots -> Instructions] /\ b[1] = d /\ b[0] = Empty
    BY <2>1, EmptyFacts, BundleFacts
  <2>3. issued.bundle = b /\ issued.next = Succ(p)
    BY <1>2
  <2> HIDE DEF d, b
  <2>4. IssuedShape(b)
    BY <1>2, <2>1, <2>2, EmptyFacts, SlotsAre DEF IssuedShape
  <2>5. Placed(b, p) /\ After(p, b) = Succ(p)
    BY <2>1, <2>2, EmptyFacts DEF Placed, After
  <2>6. QED
    BY <2>3, <2>4, <2>5, SuccFacts
<1>3. ASSUME NEW f \in Raises(p) \ {"syscall"}, NEW g \in Raises(Succ(p)),
             NEW m \in Mispredicts(p),
             Kind(p) # "eret", Kind(Succ(p)) # "branch", issued = Pair(p, f, g, m)
      PROVE  /\ IssuedShape(issued.bundle) /\ issued.next \in Pcs
             /\ Placed(issued.bundle, p)
             /\ ~issued.bundle[1].branch_taken =>
                  issued.next = After(p, issued.bundle)
  <2> DEFINE d == Decoded(p, f, m)
             c == Decoded(Succ(p), g, FALSE)
             y == [c EXCEPT !.is_slot = Kind(p) = "branch"]
             b == Bundle(d, y)
  <2>1. m \in BOOLEAN /\ (m => Kind(p) = "branch")
    BY DEF Mispredicts
  <2>2. /\ d \in Instructions /\ d.valid /\ d.pc = p
        /\ d.mem = MemOf(p, None)
        /\ d.ctype = TypeOf(p, IF f = "syscall" THEN "syscall" ELSE None)
        /\ d.etype = f /\ ~d.is_slot /\ d.branch_taken = m
    BY <2>1, DecodedFacts
  <2>3. Succ(p) \in Pcs /\ Succ(Succ(p)) \in Pcs /\ Succ(Succ(Succ(p))) \in Pcs
    BY SuccFacts
  <2>4. /\ c \in Instructions /\ c.valid /\ c.pc = Succ(p)
        /\ c.mem = MemOf(Succ(p), None)
        /\ c.ctype = TypeOf(Succ(p), IF g = "syscall" THEN "syscall" ELSE None)
        /\ c.etype = g
    BY <2>3, DecodedFacts
  <2> HIDE DEF d, c
  <2>5. /\ y \in Instructions /\ y.valid /\ y.pc = Succ(p)
        /\ y.mem = MemOf(Succ(p), None)
        /\ y.ctype = TypeOf(Succ(p), IF g = "syscall" THEN "syscall" ELSE None)
        /\ y.etype = g /\ (y.is_slot <=> Kind(p) = "branch")
    BY <2>4 DEF Instructions
  <2> HIDE DEF y
  <2>6. b \in [Slots -> Instructions] /\ b[1] = d /\ b[0] = y
    BY <2>2, <2>5, BundleFacts
  <2>7. issued.bundle = b /\ issued.next = IF m THEN Succ(Succ(Succ(p))) ELSE Succ(Succ(p))
    BY <1>3 DEF Pair, d, y, c
  <2> HIDE DEF b
  <2>8. d.ctype = "NO_EXC"
    BY <1>3, <2>2 DEF TypeOf
  <2>9. IssuedShape(b)
    BY <1>3, <2>1, <2>2, <2>5, <2>6, <2>8, SlotsAre DEF IssuedShape
  <2>10. Placed(b, p) /\ After(p, b) = Succ(Succ(p)) /\ b[1].branch_taken = m
    BY <2>2, <2>5, <2>6 DEF Placed, After
  <2>11. QED
    BY <2>1, <2>3, <2>7, <2>9, <2>10
<1>4. \/ issued = [bundle |-> NoBundle, next |-> p]
      \/ Kind(p) # "branch" /\ issued \in Alone(p)
      \/ Kind(p) # "eret" /\ Kind(Succ(p)) # "branch" /\ issued \in Pairs(p)
  BY DEF Issues
<1>5. CASE Kind(p) # "branch" /\ issued \in Alone(p)
  <2>1. PICK f \in Raises(p) :
          issued = [bundle |-> Bundle(Decoded(p, f, FALSE), Empty), next |-> Succ(p)]
    BY <1>5, Zenon DEF Alone
  <2>2. QED
    BY <2>1, <1>2, <1>5, Zenon
<1>6. CASE Kind(p) # "eret" /\ Kind(Succ(p)) # "branch" /\ issued \in Pairs(p)
  <2>1. PICK f \in Raises(p) \ {"syscall"}, g \in Raises(Succ(p)),
             m \in Mispredicts(p) : issued = Pair(p, f, g, m)
    BY <1>6 DEF Pairs
  <2>2. QED
    BY <2>1, <1>3, <1>6
<1>7. QED
  BY <1>1, <1>4, <1>5, <1>6

(* The pc behind a bundle at which the program does not stop. *)
LEMMA AfterFacts ==
  ASSUME NEW b, PassedShape(b), NEW p \in Pcs, Placed(b, p)
  PROVE  /\ After(p, b) \in Pcs
         /\ ~Stops(b) => /\ p \in User <=> After(p, b) \in User
                         /\ NotSlot(p) => NotSlot(After(p, b))
<1>0. Succ(p) \in Pcs /\ Succ(Succ(p)) \in Pcs
  BY SuccFacts
<1>1. /\ b \in [Slots -> Instructions]
      /\ b[1].valid \in BOOLEAN /\ b[0].valid \in BOOLEAN
      /\ b[1].pc \in Pcs /\ b[0].pc \in Pcs
  BY FieldTypes, SlotsAre DEF PassedShape, ExecutedShape
<1>2. After(p, b) \in Pcs
  BY <1>0 DEF After
<1>3. ASSUME ~Stops(b), b[1].valid PROVE p # Handler + 1
  <2>1. b[1].pc = p /\ b[1].ctype = "NO_EXC" /\ b[1].ctype = TypeOf(p, b[1].etype)
    BY <1>3, SlotsAre DEF Placed, Stops, PassedShape, ExecutedShape
  <2>2. Kind(p) # "eret"
    BY <2>1 DEF TypeOf
  <2>3. QED
    BY <2>2, KindFacts
<1>4. ASSUME ~Stops(b), b[0].valid
      PROVE  /\ b[1].valid /\ Succ(p) # Handler + 1 /\ Kind(Succ(p)) # "branch"
  <2>0. b[1].valid
    BY <1>4, EmptyFacts DEF PassedShape, ExecutedShape
  <2>1. /\ b[0].pc = Succ(p) /\ b[0].ctype = "NO_EXC"
        /\ b[0].ctype = TypeOf(Succ(p), b[0].etype) /\ Kind(Succ(p)) # "branch"
    BY <1>4, <2>0, SlotsAre DEF Placed, Stops, PassedShape, ExecutedShape
  <2>2. Kind(Succ(p)) # "eret"
    BY <2>1 DEF TypeOf
  <2>3. QED
    BY <2>0, <2>1, <2>2, KindFacts, <1>0
<1>5. ASSUME ~Stops(b), b[1].valid, ~b[0].valid PROVE Kind(p) # "branch"
  BY <1>5, SlotsAre DEF Placed, Stops, PassedShape, ExecutedShape
<1>6. ASSUME ~Stops(b) PROVE p \in User <=> After(p, b) \in User
  <2>1. CASE b[0].valid
    <3>1. p # Handler + 1 /\ p # Handler
      BY <2>1, <1>3, <1>4, <1>6, SuccFacts
    <3>2. p \in User
      BY <3>1, KindFacts
    <3>3. Succ(Succ(p)) \in User
      BY <3>2, SuccFacts, <1>0
    <3>4. QED
      BY <2>1, <3>2, <3>3 DEF After
  <2>2. CASE ~b[0].valid /\ b[1].valid
    <3>1. p # Handler + 1
      BY <2>2, <1>3, <1>6
    <3>2. p \in User <=> Succ(p) \in User
      BY <3>1, SuccFacts, KindFacts, Constants
    <3>3. QED
      BY <2>2, <3>2 DEF After
  <2>3. CASE ~b[0].valid /\ ~b[1].valid
    BY <2>3 DEF After
  <2>4. QED
    BY <2>1, <2>2, <2>3, <1>1
<1>7. ASSUME ~Stops(b), NotSlot(p) PROVE NotSlot(After(p, b))
  <2>1. CASE b[0].valid
    BY <2>1, <1>4, <1>7, <1>0, SlotFacts DEF After
  <2>2. CASE ~b[0].valid /\ b[1].valid
    BY <2>2, <1>5, <1>7, SlotFacts DEF After
  <2>3. CASE ~b[0].valid /\ ~b[1].valid
    BY <2>3, <1>7 DEF After
  <2>4. QED
    BY <2>1, <2>2, <2>3, <1>1
<1>8. QED
  BY <1>2, <1>6, <1>7

-----------------------------------------------------------------------------
(* What a cycle does.                                                      *)

(* Everything is flushed. *)
Enters(i_wait) ==
  /\ ExcpW(i_wait)
  /\ dataI' = NoBundle /\ dataE' = NoBundle /\ dataM1' = NoBundle
  /\ dataM2' = NoBundle /\ dataM3' = NoBundle
  /\ next' = (IF IsEret THEN epc ELSE Handler) /\ front' = "fetch"

Opens(i_wait) ==
  front' = IF front = "fetch" /\ ~i_wait THEN "open" ELSE front

(* The data cache makes the stages in front of it wait. *)
Holds(i_wait) ==
  /\ dataI' = dataI /\ dataE' = dataE /\ dataM1' = dataM1
  /\ dataM2' = NoBundle /\ dataM3' = dataM2
  /\ next' = next /\ Opens(i_wait)

Moves == dataM1' = Memory(dataE) /\ dataM2' = dataM1 /\ dataM3' = dataM2

(* What is behind an exception or a mispredicted branch is flushed. *)
Redirected ==
  /\ Stops(dataE) \/ dataE[1].branch_taken
  /\ Moves /\ dataE' = NoBundle /\ dataI' = NoBundle
  /\ next' = (IF dataE[1].branch_taken THEN Succ(Succ(dataE[1].pc)) ELSE next)
  /\ front' = IF Stops(dataE) THEN "shut" ELSE "fetch"

(* A multiplication waits. *)
Multiplies(i_wait) ==
  /\ ~Stops(dataE) /\ ~dataE[1].branch_taken
  /\ Moves /\ dataE' = NoBundle /\ dataI' = dataI
  /\ next' = next /\ Opens(i_wait)

Advances(i_wait) ==
  /\ ~Stops(dataE) /\ ~dataE[1].branch_taken
  /\ Moves /\ dataE' = Execute(dataI) /\ Opens(i_wait)
  /\ \/ dataI' = NoBundle /\ next' = next
     \/ /\ front = "open"
        /\ \E issued \in Issues(next) : dataI' = issued.bundle /\ next' = issued.next

LEMMA HazardSignals ==
  ASSUME NEW in \in SUBSET Conditions
  PROVE  LET out == Signals(in, FALSE) IN
         /\ "excpW" \in in =>
              {"flushE", "flushM", "flushM2", "flushM3", "flushW"} \subseteq out
         /\ "excpW" \notin in /\ "d_wait" \in in =>
              /\ {"stallE", "stallM", "stallM2", "flushM3"} \subseteq out
              /\ {"flushE", "flushM", "flushM2", "flushW"} \intersect out = {}
         /\ (/\ "excpW" \notin in /\ "d_wait" \notin in
             /\ "excpM" \in in \/ "branchM" \in in) =>
              /\ "flushE" \in out /\ "flushM" \in out
              /\ {"flushM2", "flushM3", "flushW", "stallM2"} \intersect out = {}
         /\ (/\ "excpW" \notin in /\ "d_wait" \notin in
             /\ "excpM" \notin in /\ "branchM" \notin in /\ "e_wait" \in in) =>
              /\ "stallE" \in out /\ "flushM" \in out
              /\ {"flushE", "flushM2", "flushM3", "flushW", "stallM2"}
                   \intersect out = {}
         /\ (/\ "excpW" \notin in /\ "d_wait" \notin in
             /\ "excpM" \notin in /\ "branchM" \notin in /\ "e_wait" \notin in) =>
              {"flushE", "flushM", "flushM2", "flushM3", "flushW",
               "stallE", "stallM", "stallM2"} \intersect out = {}
<1>1. Signals(in, FALSE) = Chain(in)
  BY DEF Signals
<1>2. ASSUME "excpW" \in in
      PROVE  Chain(in) = FrontFlush \union {"flushM3", "flushM2", "flushW"}
                           \union HoldFetch(in)
  BY <1>2 DEF Chain, Redirects
<1>3. ASSUME "excpW" \notin in, "d_wait" \in in
      PROVE  Chain(in) = {"stallF", "stallF2", "stallD", "stallI", "stallI_de",
                          "stallE", "stallM", "stallM2", "flushM3"}
  BY <1>3 DEF Chain, Redirects
<1>4. ASSUME "excpW" \notin in, "d_wait" \notin in, "excpM" \in in \/ "branchM" \in in
      PROVE  Chain(in) = FrontFlush \union HoldFetch(in)
  <2>1. Redirects(in)
    BY <1>4 DEF Redirects
  <2>2. QED
    BY <1>4, <2>1 DEF Chain
<1>5. ASSUME "excpW" \notin in, "d_wait" \notin in, "excpM" \notin in,
             "branchM" \notin in, "e_wait" \in in
      PROVE  Chain(in) = {"stallF", "stallF2", "stallD", "stallI", "stallI_de",
                          "stallE", "flushM"}
  <2>1. ~Redirects(in)
    BY <1>5 DEF Redirects
  <2>2. QED
    BY <1>5, <2>1 DEF Chain
<1>6. ASSUME "excpW" \notin in, "d_wait" \notin in, "excpM" \notin in,
             "branchM" \notin in, "e_wait" \notin in
      PROVE  Chain(in) \subseteq {"stallF", "stallF2", "stallI", "stallD", "flushF2"}
  <2>1. ~Redirects(in)
    BY <1>6 DEF Redirects
  <2>2. QED
    BY <1>6, <2>1 DEF Chain
<1>7. HoldFetch(in) \subseteq {"stallF"}
  BY DEF HoldFetch
<1>8. CASE "excpW" \in in
  <2>1. Chain(in) = FrontFlush \union {"flushM3", "flushM2", "flushW"}
                      \union HoldFetch(in)
    BY <1>2, <1>8
  <2>2. {"flushE", "flushM", "flushM2", "flushM3", "flushW"} \subseteq Chain(in)
    BY <2>1 DEF FrontFlush
  <2>3. QED
    BY <1>8, <1>1, <2>2
<1>9. CASE "excpW" \notin in /\ "d_wait" \in in
  <2>1. Chain(in) = {"stallF", "stallF2", "stallD", "stallI", "stallI_de",
                     "stallE", "stallM", "stallM2", "flushM3"}
    BY <1>3, <1>9
  <2>2. /\ {"stallE", "stallM", "stallM2", "flushM3"} \subseteq Chain(in)
        /\ {"flushE", "flushM", "flushM2", "flushW"} \intersect Chain(in) = {}
    BY <2>1
  <2>3. QED
    BY <1>9, <1>1, <2>2
<1>10. CASE /\ "excpW" \notin in /\ "d_wait" \notin in
            /\ "excpM" \in in \/ "branchM" \in in
  BY <1>10, <1>1, <1>4, <1>7 DEF FrontFlush
<1>11. CASE /\ "excpW" \notin in /\ "d_wait" \notin in
            /\ "excpM" \notin in /\ "branchM" \notin in /\ "e_wait" \in in
  BY <1>11, <1>1, <1>5
<1>12. CASE /\ "excpW" \notin in /\ "d_wait" \notin in
            /\ "excpM" \notin in /\ "branchM" \notin in /\ "e_wait" \notin in
  BY <1>12, <1>1, <1>6
<1>13. QED
  BY <1>8, <1>9, <1>10, <1>11, <1>12

LEMMA CycleCases ==
  ASSUME TypeOK, NEW i_wait \in BOOLEAN, NEW d_wait \in BOOLEAN,
         NEW e_wait \in BOOLEAN, Clock(i_wait, d_wait, e_wait)
  PROVE  \/ Enters(i_wait)
         \/ /\ ~ExcpW(i_wait)
            /\ \/ d_wait /\ Holds(i_wait)
               \/ ~d_wait /\ (Redirected \/ Multiplies(i_wait) \/ Advances(i_wait))
<1> DEFINE in  == Conds(i_wait, d_wait, e_wait)
           out == Signals(in, FALSE)
<1>1. PICK issued \in Offered(out) :
        PipelineClock(out, issued) /\ FrontClock(out, in, issued)
  BY DEF Clock
<1>2. /\ in \in SUBSET Conditions
      /\ "excpW" \in in <=> ExcpW(i_wait)
      /\ "excpM" \in in <=> ExcpM
      /\ "branchM" \in in <=> dataE[1].branch_taken
      /\ "i_wait" \in in <=> i_wait
      /\ "d_wait" \in in <=> d_wait
      /\ "e_wait" \in in <=> e_wait
  BY DEF Conds, Conditions
<1>3. ExcpM <=> Stops(dataE)
  BY DEF ExcpM, Stops
<1>4. dataE[1].branch_taken \in BOOLEAN
  BY FieldTypes, SlotsAre DEF TypeOK
<1> HIDE DEF in, out
<1> DEFINE S == Signals(in, FALSE)
<1>5. out = S
  BY DEF out
<1>6. /\ "excpW" \in in =>
           {"flushE", "flushM", "flushM2", "flushM3", "flushW"} \subseteq out
      /\ "excpW" \notin in /\ "d_wait" \in in =>
           /\ {"stallE", "stallM", "stallM2", "flushM3"} \subseteq out
           /\ {"flushE", "flushM", "flushM2", "flushW"} \intersect out = {}
      /\ (/\ "excpW" \notin in /\ "d_wait" \notin in
          /\ "excpM" \in in \/ "branchM" \in in) =>
           /\ "flushE" \in out /\ "flushM" \in out
           /\ {"flushM2", "flushM3", "flushW", "stallM2"} \intersect out = {}
      /\ (/\ "excpW" \notin in /\ "d_wait" \notin in
          /\ "excpM" \notin in /\ "branchM" \notin in /\ "e_wait" \in in) =>
           /\ "stallE" \in out /\ "flushM" \in out
           /\ {"flushE", "flushM2", "flushM3", "flushW", "stallM2"}
                \intersect out = {}
      /\ (/\ "excpW" \notin in /\ "d_wait" \notin in
          /\ "excpM" \notin in /\ "branchM" \notin in /\ "e_wait" \notin in) =>
           {"flushE", "flushM", "flushM2", "flushM3", "flushW",
            "stallE", "stallM", "stallM2"} \intersect out = {}
  BY <1>2, <1>5, HazardSignals
<1>7. CASE ExcpW(i_wait)
  <2>1. dataI' = NoBundle /\ dataE' = NoBundle /\ dataM1' = NoBundle
        /\ dataM2' = NoBundle /\ dataM3' = NoBundle
    BY <1>1, <1>2, <1>6, <1>7 DEF PipelineClock, Register
  <2>2. next' = (IF IsEret THEN epc ELSE Handler) /\ front' = "fetch"
    BY <1>1, <1>2, <1>6, <1>7 DEF FrontClock
  <2>3. QED
    BY <1>7, <2>1, <2>2 DEF Enters
<1>8. CASE ~ExcpW(i_wait) /\ d_wait
  <2>1. dataI' = dataI /\ dataE' = dataE /\ dataM1' = dataM1
        /\ dataM2' = NoBundle /\ dataM3' = dataM2
    BY <1>1, <1>2, <1>6, <1>8 DEF PipelineClock, Register
  <2>2. ~IsEret
    BY <1>8 DEF ExcpW
  <2>3. next' = next /\ Opens(i_wait)
    BY <1>1, <1>2, <1>6, <1>8, <2>2 DEF FrontClock, Opens
  <2>4. QED
    BY <1>8, <2>1, <2>3 DEF Holds
<1>9. CASE ~ExcpW(i_wait) /\ ~d_wait /\ (ExcpM \/ dataE[1].branch_taken)
  <2>1. dataI' = NoBundle /\ dataE' = NoBundle /\ Moves
    BY <1>1, <1>2, <1>6, <1>9 DEF PipelineClock, Register, Moves
  <2>2. ~IsEret
    BY <1>9 DEF ExcpW
  <2>3. next' = (IF dataE[1].branch_taken THEN Succ(Succ(dataE[1].pc)) ELSE next)
    BY <1>1, <1>2, <1>4, <1>6, <1>9, <2>2 DEF FrontClock
  <2>4. front' = IF ExcpM THEN "shut" ELSE "fetch"
    BY <1>1, <1>2, <1>4, <1>6, <1>9, <2>2 DEF FrontClock
  <2>5. QED
    BY <1>3, <1>9, <2>1, <2>3, <2>4 DEF Redirected
<1>10. CASE ~ExcpW(i_wait) /\ ~d_wait /\ ~ExcpM /\ ~dataE[1].branch_taken /\ e_wait
  <2>1. dataI' = dataI /\ dataE' = NoBundle /\ Moves
    BY <1>1, <1>2, <1>6, <1>10 DEF PipelineClock, Register, Moves
  <2>2. ~IsEret
    BY <1>10 DEF ExcpW
  <2>3. next' = next /\ Opens(i_wait)
    BY <1>1, <1>2, <1>6, <1>10, <2>2 DEF FrontClock, Opens
  <2>4. QED
    BY <1>3, <1>10, <2>1, <2>3 DEF Multiplies
<1>11. CASE ~ExcpW(i_wait) /\ ~d_wait /\ ~ExcpM /\ ~dataE[1].branch_taken /\ ~e_wait
  <2>1. dataI' = issued.bundle /\ dataE' = Execute(dataI) /\ Moves
    BY <1>1, <1>2, <1>6, <1>11 DEF PipelineClock, Register, Moves
  <2>2. ~IsEret
    BY <1>11 DEF ExcpW
  <2>3. next' = issued.next /\ Opens(i_wait)
    BY <1>1, <1>2, <1>6, <1>11, <2>2 DEF FrontClock, Opens
  <2>4. \/ issued = [bundle |-> NoBundle, next |-> next]
        \/ front = "open" /\ issued \in Issues(next)
    BY <1>1, Zenon DEF Offered
  <2>5. issued = [bundle |-> NoBundle, next |-> next] =>
          issued.bundle = NoBundle /\ issued.next = next
    OBVIOUS
  <2>6. QED
    BY <1>3, <1>11, <2>1, <2>3, <2>4, <2>5 DEF Advances
<1>12. QED
  BY <1>7, <1>8, <1>9, <1>10, <1>11

(* The last stage: how far the program gets. *)
LEMMA LastStage ==
  ASSUME PassedShape(dataM3)
  PROVE  /\ dataM3[1].valid \in BOOLEAN /\ dataM3[0].valid \in BOOLEAN
         /\ dataM3[1].pc \in Pcs /\ dataM3[0].pc \in Pcs
         /\ dataM3[0].valid => dataM3[1].valid /\ dataM3[0].pc = Succ(dataM3[1].pc)
         /\ Stops(dataM3) <=> IsEret \/ IsEXC
         /\ ~Stops(dataM3) =>
              /\ Passed = After(arch, dataM3)
              /\ Completed = {i \in Slots : dataM3[i].valid}
         /\ dataM3[1].ctype # "NO_EXC" =>
              /\ Stops(dataM3) /\ dataM3[1].valid
              /\ ValidN = 1 /\ Completed = {} /\ Passed = arch
         /\ Stops(dataM3) /\ dataM3[1].ctype = "NO_EXC" =>
              /\ dataM3[1].valid /\ dataM3[0].valid
              /\ ValidN = 0 /\ Completed = {1} /\ Passed = Succ(arch)
<1> DEFINE b == dataM3
<1>1. /\ b \in [Slots -> Instructions]
      /\ b[1].valid \in BOOLEAN /\ b[0].valid \in BOOLEAN
      /\ b[1].pc \in Pcs /\ b[0].pc \in Pcs
      /\ b[1].ctype \in {"NO_EXC", "EXCEPTION", "ERET"}
      /\ b[0].ctype \in {"NO_EXC", "EXCEPTION", "ERET"}
  BY FieldTypes, SlotsAre DEF PassedShape, ExecutedShape
<1>2. ~b[1].valid => b[1].ctype = "NO_EXC" /\ ~b[0].valid /\ b[0].ctype = "NO_EXC"
  BY EmptyFacts DEF PassedShape, ExecutedShape
<1>3. b[0].valid => b[1].valid /\ b[0].pc = Succ(b[1].pc)
  BY <1>1, <1>2 DEF PassedShape, ExecutedShape
<1>4. b[1].ctype = "NO_EXC" /\ ~b[0].valid => b[0].ctype = "NO_EXC"
  BY EmptyFacts DEF PassedShape, ExecutedShape
<1>5. b[1].ctype # "NO_EXC" => b[0].ctype # "ERET"
  BY DEF PassedShape, ExecutedShape
<1>6. Stops(b) <=> IsEret \/ IsEXC
  BY <1>1, SlotsAre DEF Stops, IsEret, IsEXC, ValidN
<1>7. ASSUME ~Stops(b)
      PROVE  Passed = After(arch, b) /\ Completed = {i \in Slots : b[i].valid}
  <2>1. b[0].ctype = "NO_EXC" /\ b[1].ctype = "NO_EXC"
    BY <1>7, SlotsAre DEF Stops
  <2>2. Completed = {i \in Slots : b[i].valid}
    BY <2>1, SlotsAre DEF Completed, Completes
  <2>3. 0 \in Completed <=> b[0].valid
    BY <2>2, SlotsAre
  <2>4. 1 \in Completed <=> b[1].valid
    BY <2>2, SlotsAre
  <2>5. Completed \subseteq Slots
    BY <2>2
  <2>6. CASE b[0].valid
    <3>1. Completed # {} /\ Completed # {1}
      BY <2>6, <2>3
    <3>2. Passed = Succ(Succ(arch))
      BY <3>1 DEF Passed
    <3>3. QED
      BY <2>6, <2>2, <3>2 DEF After
  <2>7. CASE ~b[0].valid /\ b[1].valid
    <3>1. Completed = {1}
      BY <2>7, <2>3, <2>4, <2>5 DEF Slots
    <3>2. Passed = Succ(arch)
      BY <3>1 DEF Passed
    <3>3. QED
      BY <2>7, <2>2, <3>2, <1>1 DEF After
  <2>8. CASE ~b[0].valid /\ ~b[1].valid
    <3>1. Completed = {}
      BY <2>8, <2>3, <2>4, <2>5 DEF Slots
    <3>2. Passed = arch
      BY <3>1 DEF Passed
    <3>3. QED
      BY <2>8, <2>2, <3>2, <1>1 DEF After
  <2>9. QED
    BY <1>1, <2>2, <2>6, <2>7, <2>8
<1>8. ASSUME b[1].ctype # "NO_EXC"
      PROVE  /\ Stops(b) /\ b[1].valid
             /\ ValidN = 1 /\ Completed = {} /\ Passed = arch
  <2>1. Completed = {}
    BY <1>8, SlotsAre DEF Completed, Completes
  <2>2. QED
    BY <1>8, <1>2, <2>1, <1>1, SlotsAre DEF Stops, ValidN, Passed
<1>9. ASSUME Stops(b), b[1].ctype = "NO_EXC"
      PROVE  /\ b[1].valid /\ b[0].valid
             /\ ValidN = 0 /\ Completed = {1} /\ Passed = Succ(arch)
  <2>1. b[0].ctype # "NO_EXC"
    BY <1>9, SlotsAre DEF Stops
  <2>2. b[0].valid /\ b[1].valid
    BY <2>1, <1>3, <1>4, <1>9, <1>1
  <2>3. \A i \in Slots : Completes(i) <=> i = 1
    BY <2>1, <2>2, <1>9, SlotsAre DEF Completes
  <2>4. Completed = {1}
    BY <2>3, SlotsAre DEF Completed
  <2>5. QED
    BY <2>2, <2>4, <1>9 DEF ValidN, Passed
<1>10. QED
  BY <1>1, <1>3, <1>6, <1>7, <1>8, <1>9

-----------------------------------------------------------------------------
(* The pipeline registers.                                                 *)

(* A cycle in which nothing enters the handler or returns. *)
LEMMA QuietCycle ==
  ASSUME BackInv, NEW i_wait \in BOOLEAN, NEW d_wait \in BOOLEAN,
         NEW e_wait \in BOOLEAN, Clock(i_wait, d_wait, e_wait), ~ExcpW(i_wait)
  PROVE  /\ ~IsEret /\ ~IsEXC /\ ~IntEntry(i_wait) /\ ~Stops(dataM3)
         /\ arch' = Pc2 /\ exl' = exl /\ epc' = epc /\ bd' = bd
         /\ resume' = resume /\ entered' = entered
         /\ \/ d_wait /\ Holds(i_wait)
            \/ ~d_wait /\ (Redirected \/ Multiplies(i_wait) \/ Advances(i_wait))
<1>1. ~IsEret /\ ~IsEXC /\ ~IntEntry(i_wait)
  BY DEF ExcpW
<1>2. PassedShape(dataM3) /\ TypeOK
  BY DEF BackInv, Shapes
<1>3. ~Stops(dataM3) /\ Passed = Pc2
  BY <1>1, <1>2, LastStage DEF Pc2
<1>4. HistoryClock(i_wait, d_wait) /\ Cp0Clock(i_wait)
  BY DEF Clock
<1>5. arch' = Pc2 /\ resume' = resume /\ entered' = entered
  BY <1>1, <1>3, <1>4 DEF HistoryClock
<1>6. exl' = exl /\ epc' = epc /\ bd' = bd
  BY <1>1, <1>2, <1>4 DEF Cp0Clock, TypeOK
<1>7. Enters(i_wait) => ExcpW(i_wait)
  BY DEF Enters
<1>8. QED
  BY <1>1, <1>2, <1>3, <1>5, <1>6, <1>7, CycleCases

(* The pcs between the stages move with the instructions. *)
LEMMA PcsMove ==
  ASSUME BackInv, arch' = Pc2
  PROVE  /\ Moves => Pc2' = Pc1 /\ Pc1' = PcE /\ PcE' = PcI
         /\ \A i_wait : Holds(i_wait) =>
              Pc2' = Pc1 /\ Pc1' = Pc1 /\ PcE' = PcE /\ PcI' = PcI /\ PcN' = PcN
<1>1. ASSUME Moves
      PROVE  Pc2' = Pc1 /\ Pc1' = PcE /\ PcE' = PcI
  <2>1. Pc2' = Pc1
    BY <1>1 DEF Moves, Pc2, Pc1
  <2>2. Pc1' = PcE
    BY <1>1, <2>1 DEF Moves, Pc1, PcE
  <2>3. PcE' = After(PcE, Memory(dataE))
    BY <1>1, <2>2 DEF Moves, PcE
  <2>4. PcE' = PcI
    BY <2>3, MemoryShape DEF PcI, BackInv, Shapes
  <2>5. QED
    BY <2>1, <2>2, <2>4
<1>2. ASSUME NEW i_wait, Holds(i_wait)
      PROVE  Pc2' = Pc1 /\ Pc1' = Pc1 /\ PcE' = PcE /\ PcI' = PcI /\ PcN' = PcN
  <2>1. Pc2' = Pc1
    BY <1>2 DEF Holds, Pc2, Pc1
  <2>2. Pc1' = After(Pc1, NoBundle)
    BY <1>2, <2>1 DEF Holds, Pc1
  <2>3. Pc1' = Pc1
    BY <2>2, NoBundleShapes
  <2>4. PcE' = PcE
    BY <1>2, <2>3 DEF Holds, PcE
  <2>5. PcI' = PcI
    BY <1>2, <2>4 DEF Holds, PcI
  <2>6. PcN' = PcN
    BY <1>2, <2>5 DEF Holds, PcN
  <2>7. QED
    BY <2>1, <2>3, <2>4, <2>5, <2>6
<1>3. QED
  BY <1>1, <1>2

LEMMA ShapesNext ==
  ASSUME BackInv, NEW i_wait \in BOOLEAN, NEW d_wait \in BOOLEAN,
         NEW e_wait \in BOOLEAN, Clock(i_wait, d_wait, e_wait)
  PROVE  Shapes' /\ next' \in Pcs /\ front' \in {"open", "fetch", "shut"}
<1>1. /\ IssuedShape(dataI) /\ ExecutedShape(dataE) /\ PassedShape(dataM1)
      /\ PassedShape(dataM2) /\ PassedShape(dataM3)
      /\ next \in Pcs /\ front \in {"open", "fetch", "shut"} /\ epc \in Pcs /\ TypeOK
  BY DEF BackInv, Shapes, TypeOK
<1>2. IssuedShape(NoBundle) /\ PassedShape(NoBundle) /\ ExecutedShape(NoBundle)
  BY NoBundleShapes
<1>3. CASE Enters(i_wait)
  <2>1. Shapes'
    BY <1>2, <1>3 DEF Enters, Shapes
  <2>2. Handler \in Pcs
    BY Constants DEF Pcs
  <2>3. QED
    BY <1>1, <1>3, <2>1, <2>2 DEF Enters
<1>4. CASE Holds(i_wait)
  <2>1. Shapes'
    BY <1>1, <1>2, <1>4 DEF Holds, Shapes
  <2>2. QED
    BY <1>1, <1>4, <2>1 DEF Holds, Opens
<1>5. PassedShape(Memory(dataE)) /\ ExecutedShape(Execute(dataI))
  BY <1>1, MemoryShape, ExecuteShape
<1>6. CASE Redirected
  <2>1. Shapes'
    BY <1>1, <1>2, <1>5, <1>6 DEF Redirected, Moves, Shapes
  <2>2. dataE[1].pc \in Pcs
    BY <1>1, FieldTypes, SlotsAre DEF ExecutedShape
  <2>3. Succ(Succ(dataE[1].pc)) \in Pcs
    BY <2>2, SuccFacts
  <2>4. QED
    BY <1>1, <1>6, <2>1, <2>3 DEF Redirected
<1>7. CASE Multiplies(i_wait)
  <2>1. Shapes'
    BY <1>1, <1>2, <1>5, <1>7 DEF Multiplies, Moves, Shapes
  <2>2. QED
    BY <1>1, <1>7, <2>1 DEF Multiplies, Opens
<1>8. CASE Advances(i_wait)
  <2>1. IssuedShape(dataI') /\ next' \in Pcs
    BY <1>1, <1>2, <1>8, IssuesShape DEF Advances
  <2>2. Shapes'
    BY <1>1, <1>5, <1>8, <2>1 DEF Advances, Moves, Shapes
  <2>3. QED
    BY <1>1, <1>8, <2>1, <2>2 DEF Advances, Opens
<1>9. QED
  BY <1>1, <1>3, <1>4, <1>6, <1>7, <1>8, CycleCases

LEMMA NothingBehindNext ==
  ASSUME BackInv, NEW i_wait \in BOOLEAN, NEW d_wait \in BOOLEAN,
         NEW e_wait \in BOOLEAN, Clock(i_wait, d_wait, e_wait)
  PROVE  NothingBehind'
<1>1. /\ Stops(dataM2) => dataM1 = NoBundle
      /\ front = "shut" <=> Stops(dataM1) \/ Stops(dataM2) \/ Stops(dataM3)
      /\ front # "open" => dataE = NoBundle /\ dataI = NoBundle
      /\ IssuedShape(dataI) /\ ExecutedShape(dataE) /\ TypeOK
      /\ front \in {"open", "fetch", "shut"}
  BY DEF BackInv, NothingBehind, Shapes, TypeOK
<1>2. ~Stops(NoBundle) /\ ~NoBundle[1].branch_taken
  BY NoBundleShapes
<1>3. /\ Stops(Memory(dataE)) <=> Stops(dataE)
      /\ dataE = NoBundle => Memory(dataE) = NoBundle
      /\ dataI = NoBundle => Execute(dataI) = NoBundle
  BY <1>1, MemoryShape, ExecuteShape
<1>4. CASE Enters(i_wait)
  BY <1>2, <1>4 DEF Enters, NothingBehind
<1>5. CASE ~ExcpW(i_wait)
  <2>1. ~Stops(dataM3)
    BY <1>5, QuietCycle
  <2>2. CASE Holds(i_wait)
    BY <1>1, <1>2, <2>1, <2>2 DEF Holds, Opens, NothingBehind
  <2>3. CASE Redirected
    BY <1>1, <1>2, <1>3, <2>1, <2>3 DEF Redirected, Moves, NothingBehind
  <2>4. CASE Multiplies(i_wait)
    BY <1>1, <1>2, <1>3, <2>1, <2>4 DEF Multiplies, Moves, Opens, NothingBehind
  <2>5. CASE Advances(i_wait)
    BY <1>1, <1>2, <1>3, <2>1, <2>5 DEF Advances, Moves, Opens, NothingBehind
  <2>6. QED
    BY <1>5, <2>2, <2>3, <2>4, <2>5, QuietCycle
<1>6. QED
  BY <1>1, <1>4, <1>5, CycleCases

LEMMA InProgramNext ==
  ASSUME BackInv, NEW i_wait \in BOOLEAN, NEW d_wait \in BOOLEAN,
         NEW e_wait \in BOOLEAN, Clock(i_wait, d_wait, e_wait)
  PROVE  InProgram'
<1>1. /\ IssuedShape(dataI) /\ ExecutedShape(dataE) /\ TypeOK /\ NothingBehind
      /\ front \in {"open", "fetch", "shut"} /\ next \in Pcs
  BY DEF BackInv, Shapes, TypeOK
<1>2. /\ ~Stops(NoBundle) /\ ~NoBundle[1].branch_taken /\ ~WillStop(NoBundle)
      /\ \A p : Placed(NoBundle, p) /\ After(p, NoBundle) = p
  BY NoBundleShapes
<1>3. CASE Enters(i_wait)
  <2>1. HistoryClock(i_wait, d_wait) /\ ExcpW(i_wait)
    BY <1>3 DEF Clock, Enters
  <2>2. arch' = IF IsEret THEN epc ELSE Handler
    BY <2>1 DEF HistoryClock
  <2>3. Pc2' = arch' /\ Pc1' = arch' /\ PcE' = arch' /\ PcI' = arch' /\ PcN' = arch'
    BY <1>2, <1>3 DEF Enters, Pc2, Pc1, PcE, PcI, PcN
  <2>4. next' = PcN'
    BY <1>3, <2>2, <2>3 DEF Enters
  <2>5. /\ Placed(dataM3', arch') /\ Placed(dataM2', Pc2') /\ Placed(dataM1', Pc1')
        /\ Placed(dataE', PcE') /\ Placed(dataI', PcI')
    BY <1>2, <1>3 DEF Enters
  <2>6. QED
    BY <2>4, <2>5 DEF InProgram
<1>4. CASE ~ExcpW(i_wait)
  <2>1. ~Stops(dataM3) /\ arch' = Pc2
    BY <1>4, QuietCycle
  <2>2. /\ Placed(dataM2, Pc2)
        /\ ~Stops(dataM2) => Placed(dataM1, Pc1)
        /\ front # "shut" =>
             /\ Placed(dataE, PcE)
             /\ ~Stops(dataE) /\ ~dataE[1].branch_taken =>
                  /\ Placed(dataI, PcI)
                  /\ ~WillStop(dataI) /\ ~dataI[1].branch_taken => next = PcN
    BY <2>1 DEF BackInv, InProgram
  <2>3. /\ front = "shut" <=> Stops(dataM1) \/ Stops(dataM2)
        /\ front # "open" => dataE = NoBundle
    BY <2>1, <1>1 DEF NothingBehind
  <2>4. CASE Holds(i_wait)
    <3>1. Pc2' = Pc1 /\ Pc1' = Pc1 /\ PcE' = PcE /\ PcI' = PcI /\ PcN' = PcN
      BY <2>1, <2>4, PcsMove
    <3>2. /\ dataI' = dataI /\ dataE' = dataE /\ dataM1' = dataM1
          /\ dataM2' = NoBundle /\ dataM3' = dataM2 /\ next' = next
          /\ front' # "shut" => front # "shut"
      BY <2>4 DEF Holds, Opens
    <3>3. QED
      BY <1>2, <2>1, <2>2, <3>1, <3>2 DEF InProgram
  <2>5. ASSUME Moves
        PROVE  /\ Placed(dataM3', arch')
               /\ ~Stops(dataM3') => Placed(dataM2', Pc2')
               /\ ~Stops(dataM3') /\ ~Stops(dataM2') => Placed(dataM1', Pc1')
               /\ Pc2' = Pc1 /\ Pc1' = PcE /\ PcE' = PcI
    <3>1. Pc2' = Pc1 /\ Pc1' = PcE /\ PcE' = PcI
      BY <2>1, <2>5, PcsMove
    <3>2. dataM1' = Memory(dataE) /\ dataM2' = dataM1 /\ dataM3' = dataM2
      BY <2>5 DEF Moves
    <3>3. Placed(dataE, PcE) => Placed(Memory(dataE), PcE)
      BY <1>1, MemoryShape
    <3>4. QED
      BY <2>1, <2>2, <2>3, <3>1, <3>2, <3>3
  <2>6. CASE Redirected
    <3>1. /\ dataE' = NoBundle /\ dataI' = NoBundle /\ Moves
          /\ next' = (IF dataE[1].branch_taken THEN Succ(Succ(dataE[1].pc)) ELSE next)
          /\ front' = IF Stops(dataE) THEN "shut" ELSE "fetch"
      BY <2>6 DEF Redirected
    <3>2. PcI' = PcI /\ PcN' = PcI
      BY <2>5, <3>1, <1>2 DEF PcI, PcN
    <3>3. ASSUME ~Stops(dataE)
          PROVE  next' = PcI
      <4>1. dataE[1].branch_taken
        BY <2>6, <3>3 DEF Redirected
      <4>2. front # "shut"
        BY <2>3, <4>1, <1>2
      <4>3. dataE[1].valid /\ dataE[1].ctype = "NO_EXC"
        BY <1>1, <1>2, <4>1, <3>3, SlotsAre DEF ExecutedShape, Stops
      <4>4. dataE[0].valid
        BY <1>1, <4>1, <4>3 DEF ExecutedShape
      <4>5. dataE[1].pc = PcE
        BY <2>2, <4>2, <4>3 DEF Placed
      <4>6. QED
        BY <3>1, <4>1, <4>4, <4>5 DEF PcI, After
    <3>4. QED
      BY <2>5, <3>1, <3>2, <3>3, <1>2 DEF InProgram
  <2>7. CASE Multiplies(i_wait)
    <3>1. /\ dataE' = NoBundle /\ dataI' = dataI /\ Moves /\ next' = next
          /\ ~Stops(dataE) /\ ~dataE[1].branch_taken
          /\ front' # "shut" => front # "shut"
      BY <2>7 DEF Multiplies, Opens
    <3>2. PcI' = PcI
      BY <2>5, <3>1, <1>2 DEF PcI
    <3>3. PcN' = PcN
      BY <3>1, <3>2 DEF PcN
    <3>4. QED
      BY <2>2, <2>5, <3>1, <3>2, <3>3, <1>2 DEF InProgram
  <2>8. CASE Advances(i_wait)
    <3>1. /\ dataE' = Execute(dataI) /\ Moves
          /\ ~Stops(dataE) /\ ~dataE[1].branch_taken
          /\ front' # "shut" => front # "shut"
      BY <2>8 DEF Advances, Opens
    <3>2. /\ Placed(dataI, PcI) => Placed(dataE', PcI)
          /\ Stops(dataE') <=> WillStop(dataI)
          /\ dataE'[1].branch_taken = dataI[1].branch_taken
      BY <1>1, <3>1, ExecuteShape
    <3>3. ~WillStop(dataI) => PcI' = PcN
      <4>1. PcI' = After(PcI, Execute(dataI))
        BY <2>5, <3>1 DEF PcI
      <4>2. QED
        BY <4>1, <1>1, ExecuteShape DEF PcN
    <3>4. /\ Placed(dataI', next)
          /\ ~WillStop(dataI') /\ ~dataI'[1].branch_taken => next' = After(next, dataI')
      BY <1>1, <1>2, <2>8, IssuesShape DEF Advances
    <3>5. PcN' = After(PcI', dataI')
      BY DEF PcN
    <3>6. ASSUME front' # "shut", ~Stops(dataE'), ~dataE'[1].branch_taken
          PROVE  /\ Placed(dataI', PcI')
                 /\ ~WillStop(dataI') /\ ~dataI'[1].branch_taken => next' = PcN'
      <4>1. next = PcN /\ PcI' = next
        BY <2>2, <3>1, <3>2, <3>3, <3>6
      <4>2. QED
        BY <3>4, <3>5, <4>1
    <3>7. QED
      BY <2>2, <2>5, <3>1, <3>2, <3>6 DEF InProgram
  <2>9. QED
    BY <1>4, <2>4, <2>6, <2>7, <2>8, QuietCycle
<1>5. QED
  BY <1>1, <1>3, <1>4, CycleCases

-----------------------------------------------------------------------------
(* CP0.                                                                    *)

(* The pcs that the last stage gets to in the interrupted program. *)
LEMMA LastStageUser ==
  ASSUME BackInv
  PROVE  /\ Passed \in Pcs
         /\ arch \in User => Passed \in User
         /\ Passed = arch \/ Passed = Succ(arch) \/ Passed = Succ(Succ(arch))
<1>1. arch \in Pcs
  BY DEF BackInv, TypeOK
<1>2. Succ(arch) \in Pcs /\ Succ(Succ(arch)) \in Pcs
  BY <1>1, SuccFacts
<1>3. Passed = arch \/ Passed = Succ(arch) \/ Passed = Succ(Succ(arch))
  BY DEF Passed
<1>4. QED
  BY <1>1, <1>2, <1>3, SuccFacts

(* The instruction that raises an exception is the next one of the         *)
(* program, and EPC, with BD, names it.                                    *)
LEMMA ExceptionPc ==
  ASSUME BackInv, Stops(dataM3)
  PROVE  LET b == dataM3[ValidN]
             back == IF b.is_slot THEN b.pc - 1 ELSE b.pc
         IN  /\ b.is_slot \in BOOLEAN
             /\ Passed = (IF b.is_slot THEN back + 1 ELSE back)
             /\ arch \in User => back \in User /\ NotSlot(back)
<1> DEFINE b == dataM3[ValidN]
           back == IF b.is_slot THEN b.pc - 1 ELSE b.pc
<1>1. /\ PassedShape(dataM3) /\ arch \in Pcs /\ NotSlot(arch) /\ Placed(dataM3, arch)
      /\ dataM3 \in [Slots -> Instructions]
  BY DEF BackInv, Shapes, TypeOK, Levels, InProgram
<1>2. CASE dataM3[1].ctype # "NO_EXC"
  <2>1. ValidN = 1 /\ Passed = arch /\ dataM3[1].pc = arch
    BY <1>1, <1>2, LastStage DEF Placed
  <2>2. ~b.is_slot /\ b.pc = arch
    BY <1>1, <2>1 DEF PassedShape, ExecutedShape
  <2>3. b.is_slot \in BOOLEAN
    BY <1>1, <2>1, FieldTypes, SlotsAre
  <2> HIDE DEF b
  <2>4. back = arch
    BY <2>2
  <2>5. QED
    BY <1>1, <2>1, <2>2, <2>3, <2>4 DEF b
<1>3. CASE dataM3[1].ctype = "NO_EXC"
  <2>1. /\ ValidN = 0 /\ Passed = Succ(arch) /\ dataM3[0].pc = Succ(arch)
        /\ dataM3[1].pc = arch /\ dataM3[0].valid
    BY <1>1, <1>3, LastStage DEF Placed
  <2>2. b.pc = Succ(arch) /\ (b.is_slot <=> Kind(arch) = "branch")
    BY <1>1, <2>1 DEF PassedShape, ExecutedShape
  <2>3. b.is_slot \in BOOLEAN
    BY <1>1, <2>1, FieldTypes, SlotsAre
  <2> HIDE DEF b
  <2>4. CASE b.is_slot
    <3>1. arch \in User /\ Succ(arch) = arch + 1 /\ arch \in Int
      BY <1>1, <2>2, <2>4, SlotFacts DEF Pcs
    <3>2. back = arch
      BY <2>2, <2>4, <3>1
    <3>3. QED
      BY <1>1, <2>1, <2>3, <2>4, <3>1, <3>2 DEF b
  <2>5. CASE ~b.is_slot
    <3>1. back = Succ(arch) /\ NotSlot(Succ(arch))
      BY <1>1, <2>2, <2>5, SlotFacts
    <3>2. arch \in User => Succ(arch) \in User
      BY <1>1, SuccFacts
    <3>3. QED
      BY <2>1, <2>3, <2>5, <3>1, <3>2 DEF b
  <2>6. QED
    BY <2>3, <2>4, <2>5
<1>4. QED
  BY <1>2, <1>3

(* ERET comes from the handler, and no interrupt is waiting then. *)
LEMMA EretInHandler ==
  ASSUME BackInv, IsEret
  PROVE  exl /\ ~IsInt
<1>1. /\ PassedShape(dataM3) /\ arch \in Pcs /\ Placed(dataM3, arch)
      /\ dataM3 \in [Slots -> Instructions] /\ exl \in BOOLEAN
      /\ (exl <=> arch \notin User) /\ (exl /\ int_saved => dataM3 = NoBundle)
  BY DEF BackInv, Shapes, TypeOK, Levels, InProgram, IntInv
<1>2. Stops(dataM3)
  BY <1>1, LastStage
<1>3. arch \notin User
  <2>1. CASE dataM3[1].ctype # "NO_EXC"
    <3>1. dataM3[1].ctype = "ERET" /\ dataM3[1].valid
      BY <1>1, <2>1, LastStage, SlotsAre DEF IsEret, PassedShape, ExecutedShape
    <3>2. Kind(arch) = "eret"
      BY <1>1, <3>1 DEF PassedShape, ExecutedShape, TypeOf, Placed
    <3>3. QED
      BY <3>2, <1>1, KindFacts, Constants
  <2>2. CASE dataM3[1].ctype = "NO_EXC"
    <3>1. /\ dataM3[0].valid /\ dataM3[1].valid /\ dataM3[0].ctype = "ERET"
          /\ dataM3[0].pc = Succ(arch)
      BY <1>1, <1>2, <2>2, LastStage, SlotsAre DEF IsEret, Placed
    <3>2. Kind(Succ(arch)) = "eret"
      BY <1>1, <2>2, <3>1 DEF PassedShape, ExecutedShape, TypeOf
    <3>3. QED
      BY <3>2, <1>1, SuccFacts, KindFacts, Constants
  <2>3. QED
    BY <2>1, <2>2
<1>4. ~int_saved
  BY <1>1, <1>2, <1>3, NoBundleShapes
<1>5. QED
  BY <1>1, <1>3, <1>4 DEF IsInt, Interrupt

LEMMA LevelsNext ==
  ASSUME BackInv, NEW i_wait \in BOOLEAN, NEW d_wait \in BOOLEAN,
         NEW e_wait \in BOOLEAN, Clock(i_wait, d_wait, e_wait)
  PROVE  Levels'
<1>1. /\ TypeOK /\ arch \in Pcs /\ exl \in BOOLEAN /\ (exl <=> arch \notin User)
      /\ NotSlot(arch) /\ epc \in User /\ NotSlot(epc)
      /\ PassedShape(dataM3) /\ Placed(dataM3, arch)
      /\ int_pc_saved \in BOOLEAN
  BY DEF BackInv, Levels, TypeOK, Shapes, InProgram
<1>2. Cp0Clock(i_wait) /\ HistoryClock(i_wait, d_wait)
  BY DEF Clock
<1>3. CASE ~ExcpW(i_wait)
  <2>1. exl' = exl /\ epc' = epc /\ arch' = After(arch, dataM3) /\ ~Stops(dataM3)
    BY <1>3, QuietCycle DEF Pc2
  <2>2. /\ arch \in User <=> After(arch, dataM3) \in User
        /\ NotSlot(After(arch, dataM3))
    BY <1>1, <2>1, AfterFacts
  <2>3. QED
    BY <1>1, <2>1, <2>2 DEF Levels
<1>4. CASE IsEret
  <2>1. exl /\ ~IsInt
    BY <1>4, EretInHandler
  <2>2. ~exl' /\ epc' = epc
    BY <1>1, <1>2, <1>4, <2>1 DEF Cp0Clock
  <2>3. arch' = epc
    BY <1>2, <1>4 DEF HistoryClock
  <2>4. QED
    BY <1>1, <2>2, <2>3 DEF Levels
<1>5. CASE ExcpW(i_wait) /\ ~IsEret
  <2>1. exl' /\ arch' = Handler
    BY <1>2, <1>5 DEF Cp0Clock, HistoryClock, ExcpW
  <2>2. Handler \notin User
    BY Constants
  <2>3. epc' \in User /\ NotSlot(epc')
    <3>1. CASE exl
      BY <1>1, <1>2, <3>1 DEF Cp0Clock
    <3>2. CASE ~exl /\ IntEntry(i_wait)
      <4>1. epc' = SavedPc
        BY <1>2, <3>2 DEF Cp0Clock, SavedPc
      <4>2. int_pc_saved
        BY <3>2 DEF IntEntry, InterValid
      <4>3. QED
        BY <3>2, <4>1, <4>2 DEF BackInv, IntInv
    <3>3. CASE ~exl /\ ~IntEntry(i_wait)
      <4>1. IsEXC
        BY <1>5, <3>3 DEF ExcpW
      <4>2. Stops(dataM3)
        BY <1>1, <4>1, LastStage
      <4>3. epc' = IF dataM3[ValidN].is_slot THEN dataM3[ValidN].pc - 1
                   ELSE dataM3[ValidN].pc
        BY <1>2, <3>3, <4>1 DEF Cp0Clock
      <4>4. QED
        BY <1>1, <3>3, <4>2, <4>3, ExceptionPc
    <3>4. QED
      BY <1>1, <3>1, <3>2, <3>3
  <2>4. NotSlot(Handler)
    BY <2>2 DEF NotSlot
  <2>5. QED
    BY <2>1, <2>2, <2>3, <2>4 DEF Levels
<1>6. QED
  BY <1>3, <1>4, <1>5

(* The pc saved for an interrupt. *)
LEMMA IntPcSaved ==
  ASSUME BackInv, IntPcClock
  PROVE  /\ int_pc_save' \in Pcs /\ int_pc_saved' \in BOOLEAN /\ int_slot' \in BOOLEAN
         /\ ~IsInt => ~int_pc_saved'
         /\ IsInt /\ dataM3[1].valid => int_pc_saved'
         /\ IsInt /\ ~dataM3[1].valid => UNCHANGED <<int_pc_save, int_pc_saved, int_slot>>
         /\ IsInt /\ dataM3[1].valid =>
              /\ dataM3[0].valid => /\ int_pc_save' = dataM3[0].pc
                                    /\ int_slot' = dataM3[0].is_slot
              /\ ~dataM3[0].valid => int_pc_save' = dataM3[1].pc /\ ~int_slot'
<1>1. /\ PassedShape(dataM3) /\ dataM3 \in [Slots -> Instructions]
      /\ int_pc_save \in Pcs /\ int_pc_saved \in BOOLEAN /\ int_slot \in BOOLEAN
      /\ ext_int \in BOOLEAN /\ int_saved \in BOOLEAN /\ exl \in BOOLEAN
  BY DEF BackInv, Shapes, TypeOK
<1>2. /\ dataM3[1].valid \in BOOLEAN /\ dataM3[0].valid \in BOOLEAN
      /\ dataM3[1].pc \in Pcs /\ dataM3[0].pc \in Pcs
      /\ dataM3[0].valid => dataM3[1].valid
      /\ dataM3[0].is_slot \in BOOLEAN
  BY <1>1, LastStage, FieldTypes, SlotsAre
<1>3. 0 \in Pcs /\ IsInt \in BOOLEAN
  BY Constants, <1>1 DEF Pcs, IsInt, Interrupt
<1>4. CASE ~IsInt
  <2>1. int_pc_save' = 0 /\ int_pc_saved' = FALSE /\ int_slot' = FALSE
    BY <1>4 DEF IntPcClock
  <2>2. QED
    BY <1>3, <1>4, <2>1
<1>5. CASE IsInt /\ dataM3[0].valid
  <2>1. /\ int_pc_save' = dataM3[0].pc /\ int_pc_saved' = TRUE
        /\ int_slot' = dataM3[0].is_slot
    BY <1>2, <1>5 DEF IntPcClock
  <2>2. QED
    BY <1>2, <1>5, <2>1
<1>6. CASE IsInt /\ ~dataM3[0].valid /\ dataM3[1].valid
  <2>1. int_pc_save' = dataM3[1].pc /\ int_pc_saved' = TRUE /\ int_slot' = FALSE
    BY <1>2, <1>6 DEF IntPcClock
  <2>2. QED
    BY <1>2, <1>6, <2>1
<1>7. CASE IsInt /\ ~dataM3[0].valid /\ ~dataM3[1].valid
  <2>1. UNCHANGED <<int_pc_save, int_pc_saved, int_slot>>
    BY <1>7 DEF IntPcClock
  <2>2. QED
    BY <1>1, <1>7, <2>1
<1>8. QED
  BY <1>2, <1>3, <1>4, <1>5, <1>6, <1>7

LEMMA IntInvNext ==
  ASSUME BackInv, NEW i_wait \in BOOLEAN, NEW d_wait \in BOOLEAN,
         NEW e_wait \in BOOLEAN, Clock(i_wait, d_wait, e_wait)
  PROVE  IntInv'
<1>1. /\ TypeOK /\ arch \in Pcs /\ exl \in BOOLEAN /\ (exl <=> arch \notin User)
      /\ NotSlot(arch) /\ PassedShape(dataM3) /\ Placed(dataM3, arch)
      /\ int_pc_saved \in BOOLEAN /\ int_saved \in BOOLEAN
      /\ dataM3 \in [Slots -> Instructions] /\ IntInv
  BY DEF BackInv, Levels, TypeOK, Shapes, InProgram
<1>2. Cp0Clock(i_wait) /\ HistoryClock(i_wait, d_wait) /\ IntPcClock
      /\ IntSavedClock(i_wait)
  BY DEF Clock
<1>3. /\ ~IsInt => ~int_pc_saved'
      /\ IsInt /\ dataM3[1].valid => int_pc_saved'
      /\ IsInt /\ ~dataM3[1].valid => UNCHANGED <<int_pc_save, int_pc_saved, int_slot>>
      /\ IsInt /\ dataM3[1].valid =>
           /\ dataM3[0].valid => /\ int_pc_save' = dataM3[0].pc
                                 /\ int_slot' = dataM3[0].is_slot
           /\ ~dataM3[0].valid => int_pc_save' = dataM3[1].pc /\ ~int_slot'
  BY <1>2, IntPcSaved
<1>4. CASE ~ExcpW(i_wait)
  <2>1. exl' = exl /\ arch' = After(arch, dataM3) /\ ~Stops(dataM3) /\ ~IntEntry(i_wait)
    BY <1>4, QuietCycle DEF Pc2
  <2>2. ASSUME int_pc_saved', ~exl
        PROVE  /\ int_pc_save' \in User /\ arch' = Succ(int_pc_save')
               /\ SavedPc' \in User /\ NotSlot(SavedPc')
    <3>1. IsInt /\ arch \in User
      BY <1>1, <1>3, <2>2
    <3>2. CASE ~dataM3[1].valid
      <4>1. int_pc_save' = int_pc_save /\ int_pc_saved' = int_pc_saved
            /\ int_slot' = int_slot
        BY <1>3, <3>1, <3>2
      <4>2. arch' = arch /\ SavedPc' = SavedPc
        BY <1>1, <2>1, <3>2, <4>1, LastStage DEF After, SavedPc
      <4>3. QED
        BY <1>1, <2>2, <4>1, <4>2 DEF IntInv
    <3>3. CASE dataM3[1].valid /\ ~dataM3[0].valid
      <4>1. int_pc_save' = arch /\ ~int_slot'
        BY <1>1, <1>3, <3>1, <3>3 DEF Placed
      <4>2. arch' = Succ(arch)
        BY <2>1, <3>3 DEF After
      <4>3. SavedPc' = arch
        BY <4>1 DEF SavedPc
      <4>4. QED
        BY <1>1, <3>1, <4>1, <4>2, <4>3
    <3>4. CASE dataM3[1].valid /\ dataM3[0].valid
      <4>1. /\ dataM3[1].pc = arch /\ dataM3[0].pc = Succ(arch)
            /\ dataM3[0].is_slot <=> Kind(arch) = "branch"
        BY <1>1, <3>4 DEF Placed, PassedShape, ExecutedShape
      <4>2. int_pc_save' = Succ(arch) /\ int_slot' = dataM3[0].is_slot
        BY <1>3, <3>1, <3>4, <4>1
      <4>3. arch' = Succ(Succ(arch)) /\ Succ(arch) \in User
        BY <1>1, <2>1, <3>1, <3>4, SuccFacts DEF After
      <4>4. SavedPc' \in User /\ NotSlot(SavedPc')
        <5>1. CASE Kind(arch) = "branch"
          <6>1. Succ(arch) = arch + 1 /\ arch \in Int
            BY <1>1, <5>1, SlotFacts DEF Pcs
          <6>2. SavedPc' = arch
            BY <4>1, <4>2, <5>1, <6>1 DEF SavedPc
          <6>3. QED
            BY <1>1, <3>1, <6>2
        <5>2. CASE Kind(arch) # "branch"
          <6>1. SavedPc' = Succ(arch)
            BY <4>1, <4>2, <5>2 DEF SavedPc
          <6>2. QED
            BY <1>1, <4>3, <5>2, <6>1, SlotFacts
        <5>3. QED
          BY <5>1, <5>2
      <4>5. QED
        BY <4>2, <4>3, <4>4
    <3>5. QED
      BY <1>1, <3>2, <3>3, <3>4, LastStage
  <2>3. ASSUME exl, int_saved'
        PROVE  /\ int_pc_saved' /\ front' = "fetch"
               /\ dataM1' = NoBundle /\ dataM2' = NoBundle /\ dataM3' = NoBundle
    <3>1. int_saved /\ ~InterValid(i_wait)
      BY <1>1, <1>2, <2>3 DEF IntSavedClock, Interrupt
    <3>2. /\ int_pc_saved /\ front = "fetch"
          /\ dataM1 = NoBundle /\ dataM2 = NoBundle /\ dataM3 = NoBundle
      BY <1>1, <2>3, <3>1 DEF IntInv
    <3>3. i_wait
      BY <3>1, <3>2 DEF InterValid
    <3>4. int_pc_saved'
      BY <1>3, <3>1, <3>2, EmptyFacts DEF IsInt
    <3>5. dataE = NoBundle /\ Memory(dataE) = NoBundle /\ ~Stops(dataE)
          /\ ~dataE[1].branch_taken
      BY <3>2, MemoryShape, NoBundleShapes DEF BackInv, NothingBehind, Shapes
    <3>6. Holds(i_wait) \/ Redirected \/ Multiplies(i_wait) \/ Advances(i_wait)
      BY <1>4, QuietCycle
    <3>7. QED
      BY <3>2, <3>3, <3>4, <3>5, <3>6
         DEF Holds, Redirected, Multiplies, Advances, Moves, Opens
  <2>4. QED
    BY <2>1, <2>2, <2>3 DEF IntInv
<1>5. CASE IsEret
  <2>1. exl /\ ~IsInt
    BY <1>5, EretInHandler
  <2>2. ~exl' /\ ~int_pc_saved'
    BY <1>2, <1>3, <1>5, <2>1 DEF Cp0Clock
  <2>3. QED
    BY <2>2 DEF IntInv
<1>6. CASE ExcpW(i_wait) /\ ~IsEret
  <2>1. exl'
    BY <1>2, <1>6 DEF Cp0Clock, ExcpW
  <2>2. /\ front' = "fetch"
        /\ dataM1' = NoBundle /\ dataM2' = NoBundle /\ dataM3' = NoBundle
    BY <1>1, <1>6, CycleCases DEF Enters
  <2>3. ASSUME int_saved' PROVE int_pc_saved'
    <3>1. IsInt /\ ~InterValid(i_wait)
      BY <1>1, <1>2, <2>3 DEF IntSavedClock, IsInt
    <3>2. IsEXC
      BY <1>6, <3>1 DEF ExcpW, IntEntry
    <3>3. dataM3[1].valid
      BY <1>1, <3>2, LastStage
    <3>4. QED
      BY <1>3, <3>1, <3>3
  <2>4. QED
    BY <2>1, <2>2, <2>3 DEF IntInv
<1>7. QED
  BY <1>4, <1>5, <1>6

(* How far pc q is behind pc p in the program. *)
Dist(p, q) == (q + Handler - p) % Handler

LEMMA DistIs ==
  ASSUME NEW p \in User, NEW q \in User
  PROVE  Dist(p, q) = IF q >= p THEN q - p ELSE q + Handler - p
<1>1. Handler \in Nat \ {0} /\ p \in 0..(Handler - 1) /\ q \in 0..(Handler - 1)
  BY Constants
<1> DEFINE H == Handler
<1> HIDE DEF H
<1>2. H \in Nat \ {0} /\ p \in 0..(H - 1) /\ q \in 0..(H - 1)
  BY <1>1 DEF H
<1>3. (q + H - p) % H = IF q >= p THEN q - p ELSE q + H - p
  <2>1. CASE q >= p
    <3>1. q - p \in 0..(H - 1) /\ q + H - p = H * 1 + (q - p)
      BY <1>2, <2>1
    <3>2. (H * 1 + (q - p)) % H = q - p
      BY <1>2, <3>1
    <3>3. QED
      BY <2>1, <3>1, <3>2
  <2>2. CASE q < p
    <3>1. q + H - p \in 0..(H - 1)
      BY <1>2, <2>2
    <3>2. (q + H - p) % H = q + H - p
      BY <1>2, <3>1
    <3>3. QED
      BY <1>2, <2>2, <3>2
  <2>3. QED
    BY <1>2, <2>1, <2>2
<1>4. QED
  BY <1>3 DEF Dist, H

LEMMA DistSucc ==
  ASSUME NEW p \in User, NEW q \in User
  PROVE  /\ Succ(q) \in User /\ Dist(p, q) \in Nat
         /\ Dist(p, Succ(q)) <= Dist(p, q) + 1 /\ Dist(p, p) = 0
<1>1. Handler \in Nat \ {0} /\ User = 0..(Handler - 1)
  BY Constants
<1>2. Succ(q) = (IF q = Handler - 1 THEN 0 ELSE q + 1) /\ Succ(q) \in User
  BY <1>1 DEF Succ
<1>3. /\ Dist(p, q) = (IF q >= p THEN q - p ELSE q + Handler - p)
      /\ Dist(p, Succ(q)) = (IF Succ(q) >= p THEN Succ(q) - p
                             ELSE Succ(q) + Handler - p)
      /\ Dist(p, p) = IF p >= p THEN p - p ELSE p + Handler - p
  BY <1>2, DistIs
<1>4. QED
  BY <1>1, <1>2, <1>3

LEMMA ReturnsNext ==
  ASSUME BackInv, NEW i_wait \in BOOLEAN, NEW d_wait \in BOOLEAN,
         NEW e_wait \in BOOLEAN, Clock(i_wait, d_wait, e_wait)
  PROVE  Returns'
<1>1. /\ TypeOK /\ arch \in Pcs /\ exl \in BOOLEAN /\ (exl <=> arch \notin User)
      /\ PassedShape(dataM3) /\ int_pc_saved \in BOOLEAN /\ IntInv /\ Returns
      /\ int_slot \in BOOLEAN /\ bd \in BOOLEAN
  BY DEF BackInv, Levels, TypeOK, Shapes
<1>2. Cp0Clock(i_wait) /\ HistoryClock(i_wait, d_wait)
  BY DEF Clock
<1>3. CASE ~ExcpW(i_wait)
  <2>1. exl' = exl /\ epc' = epc /\ bd' = bd /\ resume' = resume /\ entered' = entered
    BY <1>3, QuietCycle
  <2>2. QED
    BY <1>1, <2>1 DEF Returns, ReturnsToFault
<1>4. CASE IsEret
  <2>1. ~exl'
    BY <1>2, <1>4 DEF Cp0Clock
  <2>2. QED
    BY <2>1 DEF Returns, ReturnsToFault
<1>5. CASE ExcpW(i_wait) /\ ~IsEret /\ exl
  <2>1. epc' = epc /\ bd' = bd /\ resume' = resume /\ entered' = entered
    BY <1>2, <1>5 DEF Cp0Clock, HistoryClock
  <2>2. QED
    BY <1>1, <1>5, <2>1 DEF Returns, ReturnsToFault
<1>6. CASE ~IsEret /\ ~exl /\ IntEntry(i_wait)
  <2>1. resume' = Passed /\ entered' = "INT"
    BY <1>2, <1>6 DEF HistoryClock
  <2>2. epc' = SavedPc
    BY <1>2, <1>6 DEF Cp0Clock, SavedPc
  <2>3. /\ int_pc_save \in User /\ arch = Succ(int_pc_save)
        /\ SavedPc \in User /\ NotSlot(SavedPc) /\ arch \in User
    BY <1>1, <1>6 DEF IntEntry, InterValid, IntInv
  <2>4. SavedPc = int_pc_save \/ Succ(SavedPc) = int_pc_save
    <3>1. int_slot => SavedPc + 1 = int_pc_save /\ SavedPc \in 0..(Handler - 1)
          /\ int_pc_save \in 0..(Handler - 1)
      BY <2>3, Constants DEF SavedPc
    <3>2. int_slot => Succ(SavedPc) = int_pc_save
      BY <3>1, Constants DEF Succ
    <3>3. QED
      BY <3>2 DEF SavedPc
  <2>5. Dist(SavedPc, int_pc_save) <= 1 /\ Dist(SavedPc, int_pc_save) \in Nat
    BY <2>3, <2>4, DistSucc
  <2>6. Dist(SavedPc, arch) <= 2 /\ Dist(SavedPc, arch) \in Nat
    BY <2>3, <2>5, DistSucc
  <2>7. Dist(SavedPc, Succ(arch)) <= 3 /\ Dist(SavedPc, Succ(arch)) \in Nat
        /\ Succ(arch) \in User
    BY <2>3, <2>6, DistSucc
  <2>8. Dist(SavedPc, Succ(Succ(arch))) <= 4
        /\ Dist(SavedPc, Succ(Succ(arch))) \in Nat /\ Succ(Succ(arch)) \in User
    BY <2>3, <2>7, DistSucc
  <2>9. Passed \in User /\ Dist(SavedPc, Passed) <= 4
    BY <2>3, <2>6, <2>7, <2>8, LastStageUser
  <2>10. "INT" # "EXC"
    OBVIOUS
  <2>11. QED
    BY <2>1, <2>2, <2>9, <2>10 DEF Returns, ReturnsToFault, Dist
<1>7. CASE ExcpW(i_wait) /\ ~IsEret /\ ~exl /\ ~IntEntry(i_wait)
  <2>1. IsEXC /\ Stops(dataM3)
    BY <1>1, <1>7, LastStage DEF ExcpW
  <2>2. resume' = Passed /\ entered' = "EXC"
    BY <1>2, <1>7, <2>1 DEF HistoryClock
  <2>3. /\ epc' = (IF dataM3[ValidN].is_slot THEN dataM3[ValidN].pc - 1
                   ELSE dataM3[ValidN].pc)
        /\ bd' = dataM3[ValidN].is_slot
    BY <1>2, <1>7, <2>1 DEF Cp0Clock
  <2>4. resume' = IF bd' THEN epc' + 1 ELSE epc'
    BY <2>1, <2>2, <2>3, ExceptionPc
  <2>5. QED
    BY <2>2, <2>4 DEF Returns, ReturnsToFault
<1>8. QED
  BY <1>1, <1>3, <1>4, <1>5, <1>6, <1>7

LEMMA TypeNext ==
  ASSUME BackInv, NEW i_wait \in BOOLEAN, NEW d_wait \in BOOLEAN,
         NEW e_wait \in BOOLEAN, Clock(i_wait, d_wait, e_wait)
  PROVE  TypeOK'
<1>1. TypeOK /\ PassedShape(dataM3)
  BY DEF BackInv, Shapes
<1>2. Shapes' /\ next' \in Pcs /\ front' \in {"open", "fetch", "shut"}
  BY ShapesNext
<1>3. {dataI, dataE, dataM1, dataM2, dataM3}' \subseteq [Slots -> Instructions]
  BY <1>2 DEF Shapes, IssuedShape, PassedShape, ExecutedShape
<1>4. /\ Cp0Clock(i_wait) /\ HistoryClock(i_wait, d_wait) /\ IntPcClock
      /\ IntSavedClock(i_wait) /\ dbusy' \in BOOLEAN /\ ext_int' \in BOOLEAN
      /\ delivered' \in BOOLEAN
  BY DEF Clock
<1>5. int_pc_save' \in Pcs /\ int_pc_saved' \in BOOLEAN /\ int_slot' \in BOOLEAN
  BY <1>4, IntPcSaved
<1>6. int_saved' \in BOOLEAN
  BY <1>1, <1>4 DEF IntSavedClock, TypeOK
<1>7. Levels' /\ exl' \in BOOLEAN
  BY <1>4, LevelsNext DEF Cp0Clock
<1>8. epc' \in Pcs
  BY <1>7, Constants DEF Levels, Pcs
<1>9. Passed \in Pcs /\ Handler \in Pcs /\ 0 \in Pcs
  BY LastStageUser, Constants DEF Pcs
<1>10. arch' \in Pcs /\ resume' \in Pcs
  BY <1>1, <1>4, <1>9 DEF HistoryClock, TypeOK
<1>11. entered' \in {None, "INT", "EXC"}
  BY <1>1, <1>4 DEF HistoryClock, TypeOK
<1>12. bd' \in BOOLEAN
  <2>1. CASE (IntEntry(i_wait) \/ IsEXC) /\ ~exl
    <3>1. dataM3[ValidN].is_slot \in BOOLEAN
      BY <1>1, FieldTypes, SlotsAre DEF ValidN, TypeOK
    <3>2. QED
      BY <1>1, <1>4, <2>1, <3>1 DEF Cp0Clock, TypeOK
  <2>2. CASE ~((IntEntry(i_wait) \/ IsEXC) /\ ~exl)
    BY <1>1, <1>4, <2>2 DEF Cp0Clock, TypeOK
  <2>3. QED
    BY <2>1, <2>2
<1>13. sent' \subseteq Pcs
  <2>1. \A i \in Slots : dataE[i].pc \in Pcs
    BY <1>1, FieldTypes DEF TypeOK
  <2>2. {dataE[i].pc : i \in {j \in Dreqs : ~d_wait /\ dataE[j].mem = "store"}}
          \subseteq Pcs
    BY <2>1 DEF Dreqs
  <2>3. QED
    BY <1>1, <1>4, <2>2 DEF HistoryClock, TypeOK
<1>14. QED
  BY <1>2, <1>3, <1>4, <1>5, <1>6, <1>7, <1>8, <1>10, <1>11, <1>12, <1>13 DEF
     TypeOK

-----------------------------------------------------------------------------
(* The theorems.                                                           *)

LEMMA BackInit == Init => BackInv
<1> SUFFICES ASSUME Init PROVE BackInv
  OBVIOUS
<1>2. 0 \in Pcs /\ 0 \in User /\ Handler \in Nat \ {0}
  BY Constants DEF Pcs
<1>3. NotSlot(0)
  BY DEF NotSlot
<1>4. TypeOK
  <2>1. {dataI, dataE, dataM1, dataM2, dataM3} \subseteq [Slots -> Instructions]
    BY EmptyFacts DEF Init
  <2>2. QED
    BY <1>2, <2>1 DEF Init, TypeOK
<1>5. Shapes
  BY NoBundleShapes DEF Init, Shapes
<1>6. NothingBehind
  BY NoBundleShapes DEF Init, NothingBehind
<1>7. Pc2 = 0 /\ Pc1 = 0 /\ PcE = 0 /\ PcI = 0 /\ PcN = 0
  BY NoBundleShapes DEF Init, Pc2, Pc1, PcE, PcI, PcN
<1>8. InProgram
  BY <1>7, NoBundleShapes DEF Init, InProgram
<1>9. Levels
  BY <1>2, <1>3 DEF Init, Levels
<1>10. IntInv
  BY DEF Init, IntInv
<1>11. Returns
  BY DEF Init, Returns, ReturnsToFault
<1>12. QED
  BY <1>4, <1>5, <1>6, <1>8, <1>9, <1>10, <1>11 DEF BackInv

LEMMA BackStep == BackInv /\ [Next]_vars => BackInv'
<1>1. ASSUME BackInv, UNCHANGED vars PROVE BackInv'
  BY <1>1 DEF vars, pipeline, BackInv, TypeOK, Shapes, NothingBehind,
     InProgram, Levels,
     IntInv, Returns, ReturnsToFault, SavedPc, Pc2, Pc1, PcE, PcI, PcN
<1>2. ASSUME BackInv, NEW i_wait \in BOOLEAN, NEW d_wait \in BOOLEAN,
             NEW e_wait \in BOOLEAN, Clock(i_wait, d_wait, e_wait)
      PROVE  BackInv'
  BY <1>2, TypeNext, ShapesNext, NothingBehindNext, InProgramNext, LevelsNext,
     IntInvNext, ReturnsNext DEF BackInv
<1>3. QED
  BY <1>1, <1>2 DEF Next

THEOREM BackInvariant == Spec => []BackInv
BY BackInit, BackStep, PTL DEF Spec

(* Only the instruction that is next in the program writes its register,   *)
(* for every program and all exceptions of its instructions: nothing on a  *)
(* wrong path, behind an exception or flushed by an interrupt does         *)
(* (memory.sv:88, writeback.sv:40).                                        *)
THEOREM RegistersInOrder == Spec => []WritesInOrder
<1>1. ASSUME BackInv PROVE WritesInOrder
  <2>1. TypeOK /\ PassedShape(dataM3) /\ Placed(dataM3, arch)
    BY <1>1 DEF BackInv, Shapes, InProgram
  <2>2. /\ dataM3[1].valid \in BOOLEAN /\ dataM3[0].valid \in BOOLEAN
        /\ dataM3[0].valid => dataM3[1].valid /\ dataM3[0].pc = Succ(dataM3[1].pc)
    BY <2>1, LastStage
  <2>3. Writes(1) => dataM3[1].pc = arch
    BY <2>1 DEF Writes, Placed
  <2>4. ASSUME Writes(0)
        PROVE  dataM3[0].pc = Succ(arch) /\ Completes(1)
    <3>1. dataM3[0].valid /\ dataM3[0].regwrite
      BY <2>4 DEF Writes
    <3>2. dataM3[1].ctype = "NO_EXC"
      BY <2>1, <3>1 DEF PassedShape
    <3>3. QED
      BY <2>1, <2>2, <3>1, <3>2 DEF Completes, Placed
  <2>5. QED
    BY <2>1, <2>3, <2>4 DEF WritesInOrder
<1>2. QED
  BY <1>1, BackInvariant, PTL

(* After an exception EPC, with BD, names the instruction that raised it   *)
(* (cp0.sv:257-265), for every program.                                    *)
THEOREM FaultReturns == Spec => []ReturnsToFault
<1>1. BackInv => ReturnsToFault
  BY DEF BackInv, Returns
<1>2. QED
  BY <1>1, BackInvariant, PTL

(* An interrupt skips no instruction of any program, and goes back over at *)
(* most two bundles (MyCore.sv:716).                                       *)
THEOREM InterruptsSkipNothing == Spec => []InterruptSkipsNothing
<1>1. BackInv => InterruptSkipsNothing
  BY DEF BackInv, Returns, InterruptSkipsNothing
<1>2. QED
  BY <1>1, BackInvariant, PTL

(* EPC never names a delay slot of any program. *)
THEOREM BranchRepeated == Spec => []ResumesAtBranch
<1>1. BackInv => ResumesAtBranch
  BY DEF BackInv, Levels, NotSlot, ResumesAtBranch
<1>2. QED
  BY <1>1, BackInvariant, PTL

-----------------------------------------------------------------------------
(* Stores, for a program of at least six instructions: a pc then names at  *)
(* most one instruction of the three stages behind memory.                 *)

LEMMA DistExact ==
  ASSUME NEW p \in User, NEW q \in User, Dist(p, q) + 1 < Handler
  PROVE  Dist(p, Succ(q)) = Dist(p, q) + 1
<1>1. Handler \in Nat \ {0} /\ User = 0..(Handler - 1)
  BY Constants
<1>2. Succ(q) = (IF q = Handler - 1 THEN 0 ELSE q + 1) /\ Succ(q) \in User
  BY <1>1 DEF Succ
<1>3. /\ Dist(p, q) = (IF q >= p THEN q - p ELSE q + Handler - p)
      /\ Dist(p, Succ(q)) = (IF Succ(q) >= p THEN Succ(q) - p
                             ELSE Succ(q) + Handler - p)
  BY <1>2, DistIs
<1>4. QED
  BY <1>1, <1>2, <1>3

(* The number of instructions in a bundle. *)
Count(b) == IF b[0].valid THEN 2 ELSE IF b[1].valid THEN 1 ELSE 0

LEMMA DistAfter ==
  ASSUME NEW a \in User, NEW p \in User, NEW b \in [Slots -> Instructions],
         Dist(a, p) + 2 < Handler
  PROVE  /\ Dist(a, p) \in Nat /\ After(p, b) \in User
         /\ Dist(a, After(p, b)) = Dist(a, p) + Count(b)
         /\ Dist(a, Succ(p)) = Dist(a, p) + 1
<1>1. /\ Dist(a, p) \in Nat /\ Succ(p) \in User /\ Succ(Succ(p)) \in User
      /\ Handler \in Nat
  BY DistSucc, Constants
<1>2. Dist(a, Succ(p)) = Dist(a, p) + 1
  BY <1>1, DistExact
<1>3. Dist(a, Succ(Succ(p))) = Dist(a, p) + 2
  BY <1>1, <1>2, DistExact
<1>4. b[0].valid \in BOOLEAN /\ b[1].valid \in BOOLEAN
  BY FieldTypes, SlotsAre
<1>5. QED
  BY <1>1, <1>2, <1>3, <1>4 DEF After, Count

(* The stores of a bundle at p. *)
LEMMA StorePcs ==
  ASSUME NEW b, PassedShape(b), NEW p, Placed(b, p), NEW q \in StoresIn(b)
  PROVE  /\ q = p \/ (b[0].valid /\ q = Succ(p))
         /\ q \in User /\ b[1].valid
<1>1. PICK i \in Slots : b[i].mem = "store" /\ q = b[i].pc
  BY DEF StoresIn
<1>2. b \in [Slots -> Instructions] /\ b[0].pc \in Pcs /\ b[1].pc \in Pcs
  BY FieldTypes, SlotsAre DEF PassedShape, ExecutedShape
<1>3. b[1].valid
  BY <1>1, SlotsAre, EmptyFacts DEF PassedShape, ExecutedShape
<1>4. Kind(q) = "store"
  BY <1>1, <1>3, SlotsAre DEF PassedShape, ExecutedShape, MemOf
<1>5. i = 0 => b[0].valid /\ b[0].pc = Succ(p)
  BY <1>1, <1>3 DEF PassedShape, ExecutedShape, Placed
<1>6. q = p \/ (b[0].valid /\ q = Succ(p))
  BY <1>1, <1>3, <1>5, SlotsAre DEF Placed
<1>7. q \in User
  BY <1>1, <1>2, <1>4, SlotsAre, KindFacts
<1>8. QED
  BY <1>3, <1>6, <1>7

CompletedPcs == {dataM3[i].pc : i \in Completed}

(* No store behind the last stage has the pc of an instruction in it. *)
LEMMA StoresApart ==
  ASSUME Handler >= 6, BackInv, ~Stops(dataM3),
         NEW q \in StoresIn(dataM1) \union StoresIn(dataM2)
  PROVE  q \notin CompletedPcs
<1>1. /\ PassedShape(dataM1) /\ PassedShape(dataM2) /\ PassedShape(dataM3)
      /\ dataM1 \in [Slots -> Instructions] /\ dataM2 \in [Slots -> Instructions]
      /\ dataM3 \in [Slots -> Instructions] /\ arch \in Pcs
      /\ Placed(dataM3, arch) /\ Placed(dataM2, Pc2)
      /\ ~Stops(dataM2) => Placed(dataM1, Pc1)
      /\ Stops(dataM2) => dataM1 = NoBundle
  BY DEF BackInv, Shapes, TypeOK, InProgram, NothingBehind
<1>2. /\ dataM3[0].valid \in BOOLEAN /\ dataM3[1].valid \in BOOLEAN
      /\ dataM3[0].valid => dataM3[1].valid /\ dataM3[0].pc = Succ(dataM3[1].pc)
      /\ Completed = {i \in Slots : dataM3[i].valid}
  BY <1>1, LastStage
<1>3. SUFFICES ASSUME q \in CompletedPcs PROVE FALSE
  OBVIOUS
<1>4. PICK i \in Slots : dataM3[i].valid /\ q = dataM3[i].pc
  BY <1>2, <1>3 DEF CompletedPcs
<1>5. dataM3[1].valid /\ (q = arch \/ (dataM3[0].valid /\ q = Succ(arch)))
  BY <1>1, <1>2, <1>4, SlotsAre DEF Placed
<1>6. q \in User
  BY <1>1, StorePcs, NoBundleShapes
<1>7. arch \in User
  <2>1. CASE dataM3[0].valid
    <3>1. /\ dataM3[0].ctype = "NO_EXC" /\ dataM3[1].ctype = "NO_EXC"
          /\ dataM3[1].pc = arch /\ dataM3[0].pc = Succ(arch)
      BY <1>1, <1>2, <2>1, SlotsAre DEF Placed, Stops
    <3>2. Kind(Succ(arch)) # "eret" /\ Kind(arch) # "eret"
      BY <1>1, <1>2, <2>1, <3>1 DEF PassedShape, ExecutedShape, TypeOf
    <3>3. QED
      BY <1>1, <3>2, KindFacts, SuccFacts
  <2>2. CASE ~dataM3[0].valid
    BY <1>5, <1>6, <2>2
  <2>3. QED
    BY <1>2, <2>1, <2>2
<1>8. Dist(arch, arch) = 0 /\ Handler \in Nat
  BY <1>7, DistSucc, Constants
<1>9. Count(dataM3) \in 0..2 /\ Count(dataM2) \in 0..2
  BY DEF Count
<1>10. /\ Pc2 \in User /\ Dist(arch, Pc2) = Count(dataM3)
      /\ Dist(arch, Succ(arch)) = 1
  BY <1>1, <1>7, <1>8, <1>9, DistAfter DEF Pc2
<1>11. /\ Pc1 \in User /\ Dist(arch, Pc1) = Count(dataM3) + Count(dataM2)
       /\ Dist(arch, Succ(Pc2)) = Count(dataM3) + 1
  BY <1>1, <1>7, <1>8, <1>9, <1>10, DistAfter DEF Pc1
<1>12. Dist(arch, Succ(Pc1)) = Count(dataM3) + Count(dataM2) + 1
  BY <1>7, <1>8, <1>9, <1>11, DistExact
<1>13. Dist(arch, q) < Count(dataM3)
  BY <1>2, <1>5, <1>8, <1>10 DEF Count
<1>14. q \in StoresIn(dataM2) => q = Pc2 \/ q = Succ(Pc2)
  BY <1>1, StorePcs
<1>15. q \in StoresIn(dataM1) => q = Pc1 \/ q = Succ(Pc1)
  BY <1>1, StorePcs, NoBundleShapes
<1>16. Dist(arch, q) >= Count(dataM3)
  BY <1>9, <1>10, <1>11, <1>12, <1>14, <1>15
<1>17. QED
  BY <1>6, <1>7, <1>9, <1>13, <1>16, DistSucc

LEMMA SentNext ==
  ASSUME Handler >= 6, BackInv, SentInv, NEW i_wait \in BOOLEAN,
         NEW d_wait \in BOOLEAN, NEW e_wait \in BOOLEAN,
         Clock(i_wait, d_wait, e_wait)
  PROVE  SentInv'
<1>1. TypeOK /\ ExecutedShape(dataE) /\ PassedShape(dataM3) /\ HistoryClock(i_wait, d_wait)
      /\ dataM3 \in [Slots -> Instructions]
  BY DEF BackInv, Shapes, Clock, TypeOK
<1>2. StoresIn(NoBundle) = {}
  BY NoBundleShapes
<1>3. CASE Enters(i_wait)
  <2>1. sent' = {}
    BY <1>1, <1>3 DEF Enters, HistoryClock
  <2>2. QED
    BY <1>2, <1>3, <2>1 DEF Enters, SentInv
<1>4. CASE ~ExcpW(i_wait)
  <2>1. ~Stops(dataM3)
    BY <1>4, QuietCycle
  <2>2. sent' = (sent \ CompletedPcs) \union (IF d_wait THEN {} ELSE StoresIn(dataE))
    <3>1. {dataE[i].pc : i \in {j \in Dreqs : ~d_wait /\ dataE[j].mem = "store"}}
            = IF d_wait THEN {} ELSE StoresIn(dataE)
      BY DEF Dreqs, StoresIn
    <3>2. QED
      BY <1>1, <1>4, <3>1 DEF HistoryClock, CompletedPcs
  <2>3. StoresIn(dataM3) \subseteq CompletedPcs
    <3>1. SUFFICES ASSUME NEW i \in Slots, dataM3[i].mem = "store"
                   PROVE  dataM3[i].valid
      <4>1. Completed = {i \in Slots : dataM3[i].valid}
        BY <1>1, <2>1, LastStage
      <4>2. QED
        BY <4>1 DEF StoresIn, CompletedPcs
    <3>2. QED
      BY <1>1, <3>1, SlotsAre, EmptyFacts DEF PassedShape, ExecutedShape
  <2>4. sent \ CompletedPcs = StoresIn(dataM1) \union StoresIn(dataM2)
    BY <2>1, <2>3, StoresApart DEF SentInv
  <2>5. CASE d_wait /\ Holds(i_wait)
    BY <1>2, <2>2, <2>4, <2>5 DEF Holds, SentInv
  <2>6. CASE ~d_wait /\ Moves
    <3>1. StoresIn(Memory(dataE)) = StoresIn(dataE)
      BY <1>1, MemoryShape
    <3>2. QED
      BY <2>2, <2>4, <2>6, <3>1 DEF Moves, SentInv
  <2>7. QED
    BY <1>4, <2>5, <2>6, QuietCycle DEF Redirected, Multiplies, Advances
<1>5. QED
  BY <1>1, <1>3, <1>4, CycleCases

(* An instruction that raises an exception or is ERET is no store any     *)
(* more, and one that completes still is.                                  *)
LEMMA MemOfStop ==
  ASSUME NEW p \in Pcs, NEW e \in Raises(p)
  PROVE  /\ TypeOf(p, e) # "NO_EXC" => MemOf(p, e) # "store"
         /\ TypeOf(p, e) = "NO_EXC" /\ Kind(p) = "store" => MemOf(p, e) = "store"
<1>1. ASSUME Kind(p) = "store"
      PROVE  e = None \/ e = "misalign"
  <2>1. p \in User /\ Program[p] = "store"
    BY <1>1, KindFacts
  <2>2. QED
    BY <2>1, FaultsAssumption DEF Raises
<1>2. None # "misalign"
  BY NoneAssumption DEF EType
<1>3. QED
  BY <1>1, <1>2 DEF TypeOf, MemOf

(* No store of an instruction that raises an exception, or of one behind   *)
(* it, has been sent to the data cache when the exception is in the last   *)
(* stage, and a store that completes has been sent (execute.sv:345-363,    *)
(* hazard.sv:64), in every program of at least six instructions.           *)
THEOREM StoresAfterExceptions ==
  ASSUME Handler >= 6
  PROVE  Spec => []StoresPrecise
<1>1. Init => SentInv
  BY NoBundleShapes DEF Init, SentInv
<1>2. BackInv /\ SentInv /\ [Next]_vars => SentInv'
  <2>1. ASSUME SentInv, UNCHANGED vars PROVE SentInv'
    BY <2>1 DEF vars, pipeline, SentInv
  <2>2. QED
    BY <2>1, SentNext DEF Next
<1>3. ASSUME BackInv, SentInv PROVE StoresPrecise
  <2> DEFINE b == dataM3
  <2>1. /\ PassedShape(b) /\ b \in [Slots -> Instructions]
        /\ b[1].pc \in Pcs /\ b[0].pc \in Pcs
        /\ sent = StoresIn(dataM1) \union StoresIn(dataM2) \union StoresIn(b)
        /\ Stops(b) => dataM2 = NoBundle /\ dataM1 = NoBundle
    BY <1>3, FieldTypes, SlotsAre DEF BackInv, Shapes, TypeOK, SentInv,
       NothingBehind
  <2>2. ASSUME b[1].valid
        PROVE  /\ b[1].ctype # "NO_EXC" => b[1].mem # "store"
               /\ b[1].ctype = "NO_EXC" /\ Kind(b[1].pc) = "store" => b[1].mem = "store"
    BY <2>1, <2>2, MemOfStop DEF PassedShape, ExecutedShape
  <2>3. ASSUME b[0].valid, b[1].ctype = "NO_EXC"
        PROVE  /\ b[0].ctype # "NO_EXC" => b[0].mem # "store"
               /\ b[0].ctype = "NO_EXC" /\ Kind(b[0].pc) = "store" => b[0].mem = "store"
    BY <2>1, <2>3, MemOfStop DEF PassedShape, ExecutedShape
  <2>4. ASSUME IsEXC \/ IsEret, b[1].etype # "trap"
        PROVE  sent \subseteq {b[i].pc : i \in Completed}
    <3>1. Stops(b)
      BY <2>1, <2>4, LastStage
    <3>2. sent = StoresIn(b)
      BY <2>1, <3>1, NoBundleShapes
    <3>3. CASE b[1].ctype # "NO_EXC"
      <4>1. b[1].mem # "store" /\ b[0].mem # "store"
        BY <2>1, <2>2, <2>4, <3>3, LastStage DEF PassedShape, ExecutedShape
      <4>2. StoresIn(b) = {}
        BY <4>1, SlotsAre DEF StoresIn
      <4>3. QED
        BY <3>2, <4>2
    <3>4. CASE b[1].ctype = "NO_EXC"
      <4>1. b[0].valid /\ b[0].ctype # "NO_EXC" /\ Completed = {1}
        BY <2>1, <3>1, <3>4, LastStage, SlotsAre DEF Stops
      <4>2. b[0].mem # "store"
        BY <2>3, <3>4, <4>1
      <4>3. StoresIn(b) \subseteq {b[1].pc}
        BY <4>2, SlotsAre DEF StoresIn
      <4>4. QED
        BY <3>2, <4>1, <4>3
    <3>5. QED
      BY <3>3, <3>4
  <2>5. ASSUME NEW i \in Completed, Kind(b[i].pc) = "store"
        PROVE  b[i].pc \in sent
    <3>1. i \in Slots /\ b[i].valid /\ b[i].ctype = "NO_EXC"
          /\ (i = 0 => b[1].ctype = "NO_EXC")
      BY DEF Completed, Completes
    <3>2. b[i].mem = "store"
      BY <2>2, <2>3, <2>5, <3>1, SlotsAre
    <3>3. b[i].pc \in StoresIn(b)
      BY <3>1, <3>2 DEF StoresIn
    <3>4. QED
      BY <2>1, <3>3
  <2>6. QED
    BY <2>4, <2>5 DEF StoresPrecise
<1>4. QED
  BY <1>1, <1>2, <1>3, BackInvariant, PTL DEF Spec
=============================================================================
