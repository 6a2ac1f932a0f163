------------------------------ MODULE MCDCache ------------------------------
(* Model checking of the data cache: which accesses the core presents.     *)
EXTENDS DCache

Req(a, strobe) ==
  [valid |-> TRUE, unc |-> FALSE, tag |-> a.tag, index |-> a.index,
   offset |-> a.offset, strobe |-> strobe]

(* The addresses used: every word of set 0, and word 0 of one line of set  *)
(* 1, which is enough for an access pair that touches two sets.            *)
Used == {a \in Addr : a.index = 0 \/ (a.tag = 0 /\ a.offset = 0)}

(* Cached loads and stores of every width. *)
Cached == {Req(a, strobe) : a \in Used, strobe \in SUBSET Lanes}

(* An uncached load; its address is not looked at by the cache. *)
UncachedLoad == [ZeroReq EXCEPT !.valid = TRUE, !.unc = TRUE]
UncachedStore == [UncachedLoad EXCEPT !.strobe = Lanes]

Access(r1, r2) == [inst |-> "D_UNKNOWN", req |-> [p \in Ports |->
                     IF p = 1 THEN r1 ELSE r2]]

IsStore(r) == r.strobe # {}
SameSet(r1, r2) == r1.index = r2.index
OneLine(r1, r2) == r1.tag = r2.tag /\ SameSet(r1, r2)

(* One port at a time: port 1 as in VCacheTop.sv, or port 2 alone. *)
Port1 == {Access(r, ZeroReq) : r \in Cached}
Port2 == {Access(ZeroReq, r) : r \in Cached}

(* Two accesses in a cycle. *)
Pairs == {Access(r1, r2) : r1 \in Cached, r2 \in Cached}

(* The combinations the cache does not handle, see README.md. *)
IsTwoStores(acc) ==
  /\ IsStore(acc.req[1]) /\ IsStore(acc.req[2])
  /\ ~OneLine(acc.req[1], acc.req[2])
IsLoadStore(acc) ==
  /\ ~IsStore(acc.req[1]) /\ IsStore(acc.req[2])
  /\ OneLine(acc.req[1], acc.req[2])
IsSameSet(acc) ==
  SameSet(acc.req[1], acc.req[2]) /\ ~OneLine(acc.req[1], acc.req[2])

(* Both accesses to one line; the accesses to different sets. *)
OneLinePairs ==
  {acc \in Pairs : OneLine(acc.req[1], acc.req[2]) /\ ~IsLoadStore(acc)}
TwoSetPairs ==
  {acc \in Pairs : ~SameSet(acc.req[1], acc.req[2]) /\ ~IsTwoStores(acc)}

(* Cache instructions on port 1. *)
Operations ==
  {[inst |-> i, req |-> [p \in Ports |-> IF p = 1 THEN Req(a, {}) ELSE ZeroReq]] :
     i \in Insts \ {"D_UNKNOWN"}, a \in {b \in Addr : b.offset = 0}}

(* The first word of a line, cached on either port and beside uncached     *)
(* accesses, and cache instructions: between them they go through every    *)
(* state of the FSM.                                                       *)
MCMixed ==
  LET First == {r \in Cached : r.offset = 0}
      Tag0  == {r \in First : r.tag = 0}
  IN  {Access(r, ZeroReq) : r \in {q \in Tag0 : IsStore(q)}}
        \union {Access(ZeroReq, r) : r \in Tag0 \union {q \in First : IsStore(q)}}
        \union {Access(UncachedLoad, r) : r \in Tag0 \union {UncachedStore}}
        \union {Access(r, UncachedLoad) : r \in Tag0}
        \union {acc \in Operations : acc.req[1].tag = 0}

(* Two accesses in a cycle: to one line, with strobes of port 2 that       *)
(* equal, miss and fall inside those of port 1, and to two sets; and on    *)
(* port 2 alone what replaces that line.                                   *)
MCPairs ==
  LET Whole(acc) == \A p \in Ports : acc.req[p].strobe \in {{}, Lanes}
  IN  {acc \in Port2 : acc.req[2].tag # 0 /\ acc.req[2].index = 0 /\ Whole(acc)}
        \union {acc \in OneLinePairs :
                  /\ acc.req[1].tag = 0 /\ acc.req[1].index = 0
                  /\ acc.req[1].strobe # {1} /\ acc.req[2].strobe # Lanes}
        \union {acc \in TwoSetPairs :
                  acc.req[2].index = 0 /\ acc.req[2].tag = 0 /\ Whole(acc)}

(* The runs present accesses of the kind the theorems are about. *)
ASSUME MCSupportedAssumption == AllServed(MCMixed \union MCPairs)

(* Accesses with which the properties fail: two stores to two *)
(* lines, two lines of one set, and a store that raised a TLB exception    *)
(* (see Dreq).                                                             *)
MCTwoStores == Port1 \union {acc \in Pairs : IsTwoStores(acc) /\ ~IsSameSet(acc)}
MCSameSet   == Port1 \union {acc \in Pairs : IsSameSet(acc) /\ ~IsTwoStores(acc)}
MCFaulting  ==
  Port1 \union {Access([acc.req[1] EXCEPT !.valid = FALSE], ZeroReq) :
                  acc \in {a \in Port1 : IsStore(a.req[1])}}
=============================================================================
