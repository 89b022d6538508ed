----------------------------- MODULE RmapsProofs -----------------------------
(***************************************************************************)
(* Proofs about Rmaps, for every set of frames, shadow pages and sptes and *)
(* every size of descriptor, threshold and cache: its invariants, and that *)
(* chains and iterator implement RmapSet.                                  *)
(*                                                                         *)
(* The first half is about one value of a head: what pte_list_add,         *)
(* pte_list_remove and the rmap iterator do to it.                         *)
(***************************************************************************)
EXTENDS Rmaps, FiniteSetTheorems, SequenceTheorems, TLAPS

-----------------------------------------------------------------------------
(* Numbers *)

\* Nat is well-ordered, so Least is what its name says.
LEMMA LeastIs ==
    ASSUME NEW S \in SUBSET Nat, S # {}
    PROVE  Least(S) \in S /\ \A m \in S : Least(S) <= m
<1>1. \E n \in S : \A m \in S : ~(<<m, n>> \in OpToRel(<, Nat))
  BY WFMin, NatLessThanWellFounded, Zenon
<1>2. PICK n \in S : \A m \in S : ~(<<m, n>> \in OpToRel(<, Nat))
  BY <1>1, Zenon
<1>3. \A m \in S : ~(m < n)
  BY <1>2, Zenon DEF OpToRel
<1>4. \A m \in S : n <= m
  BY <1>3
<1> QED BY <1>4, Zenon DEF Least

\* A bounded set has a greatest number.
LEMMA GreatestIs ==
    ASSUME NEW S \in SUBSET Nat, S # {}, NEW n \in Nat, \A m \in S : m <= n
    PROVE  Greatest(S) \in S /\ \A m \in S : m <= Greatest(S)
<1> DEFINE T == {n - m : m \in S}
<1>1. T \in SUBSET Nat /\ T # {}
  <2>1. \A m \in S : n - m \in Nat
    OBVIOUS
  <2>2. T \in SUBSET Nat
    BY <2>1, Zenon
  <2>3. T # {}
    BY Zenon
  <2> QED
    BY <2>2, <2>3, Zenon
<1>2. Least(T) \in T /\ \A t \in T : Least(T) <= t
  BY <1>1, LeastIs, Zenon
<1> HIDE DEF T
<1>3. PICK x \in S : Least(T) = n - x
  BY <1>2, Zenon DEF T
<1>4. \A y \in S : n - y \in T
  BY Zenon DEF T
<1>5. \A y \in S : y <= x
  BY <1>2, <1>3, <1>4
<1> QED BY <1>5, Zenon DEF Greatest

\* The threshold is passed once one descriptor more is full than it fills.
MaxDescs == (RMAP_RECYCLE_THRESHOLD \div PTE_LIST_EXT) + 2

LEMMA ThresholdPassed ==
    /\ MaxDescs \in Nat /\ MaxDescs >= 2
    /\ PTE_LIST_EXT * (MaxDescs - 1) > RMAP_RECYCLE_THRESHOLD
<1> DEFINE E == PTE_LIST_EXT  T == RMAP_RECYCLE_THRESHOLD  q == T \div E
<1>1. E \in Nat /\ E >= 2 /\ T \in Nat
  BY RmapAssumption
<1> HIDE DEF E, T
<1>2. q \in Nat /\ T = E * q + (T % E) /\ T % E < E /\ T % E \in Nat
  BY <1>1
<1> HIDE DEF q
<1>3. E * (q + 1) = E * q + E
  BY <1>1, <1>2
<1>4. E * (q + 1) > T
  BY <1>1, <1>2, <1>3
<1>5. MaxDescs = q + 2
  BY Zenon DEF MaxDescs, q, T, E
<1>6. MaxDescs - 1 = q + 1
  BY <1>5, <1>2
<1> QED BY <1>2, <1>4, <1>5, <1>6 DEF E, T

-----------------------------------------------------------------------------
(* Values of a head *)

\* The pointers of a descriptor are at its front.
Gapless(desc) == \A i, j \in Slots : j < i /\ desc[i] # NULL => desc[j] # NULL

\* No pointer is in two places.
Once(v) ==
    \A k, l \in DOMAIN v : \A i, j \in Slots :
        v[k][i] = v[l][j] /\ v[k][i] # NULL => k = l /\ i = j

Chain(v) ==
    /\ v \in Seq(Descs) /\ v # << >>
    /\ \A k \in DOMAIN v : v[k][1] # NULL /\ Gapless(v[k])
    /\ Once(v)

Good(v) == v = NULL \/ v \in Sptes \/ Chain(v)

\* A chain as long as it may be, with its last descriptor full.
Topped(v) == IsMany(v) /\ Len(v) = MaxDescs /\ Full(v[Len(v)])
Fits(v) == (IsMany(v) => Len(v) <= MaxDescs) /\ ~Topped(v)

LEMMA ExtNat == PTE_LIST_EXT \in Nat /\ PTE_LIST_EXT >= 2
BY RmapAssumption

LEMMA SlotFacts == 1 \in Slots /\ 2 \in Slots /\ PTE_LIST_EXT \in Slots /\ Slots \in SUBSET Nat
                   /\ \A i \in Slots : i >= 1 /\ i <= PTE_LIST_EXT
BY RmapAssumption DEF Slots

LEMMA ChainFacts ==
    ASSUME NEW v, Chain(v)
    PROVE  /\ IsMany(v) /\ ~IsOne(v) /\ v # NULL
           /\ Len(v) \in Nat \ {0} /\ DOMAIN v = 1 .. Len(v)
           /\ v \in [1 .. Len(v) -> Descs]
           /\ \A k \in 1 .. Len(v) : v[k] \in Descs
           /\ \A k \in 1 .. Len(v), i \in Slots : v[k][i] \in Sptes \cup {NULL}
           /\ \A s : s \in Entries(v) <=>
                 s # NULL /\ \E k \in 1 .. Len(v), i \in Slots : v[k][i] = s
<1>1. v \in Seq(Descs) /\ v # << >>
  BY Zenon DEF Chain
<1>2. IsMany(v) /\ ~IsOne(v) /\ v # NULL
  BY <1>1, TagAssumption, Zenon DEF IsMany, IsOne
<1>3. Len(v) \in Nat /\ v \in [1 .. Len(v) -> Descs] /\ DOMAIN v = 1 .. Len(v)
  BY <1>1, LenProperties, Zenon
<1>4. Len(v) # 0
  BY <1>1, EmptySeq, Zenon
<1>5. \A k \in 1 .. Len(v) : v[k] \in Descs
  BY <1>3, Zenon
<1>6. \A k \in 1 .. Len(v), i \in Slots : v[k][i] \in Sptes \cup {NULL}
  BY <1>5, Zenon DEF Descs
<1>7. \A s : s \in Entries(v) <=> s # NULL /\ \E k \in 1 .. Len(v), i \in Slots : v[k][i] = s
  BY <1>2, <1>3 DEF Entries
<1> QED BY <1>2, <1>3, <1>4, <1>5, <1>6, <1>7, Zenon

LEMMA OnceOf ==
    ASSUME NEW v, Chain(v), NEW k \in DOMAIN v, NEW l \in DOMAIN v, NEW i \in Slots,
           NEW j \in Slots, v[k][i] = v[l][j], v[k][i] # NULL
    PROVE  k = l /\ i = j
<1>1. Once(v)
  BY Zenon DEF Chain
<1> QED BY <1>1 DEF Once

\* A function on 1 .. n is a chain of n descriptors.
LEMMA MakeChain ==
    ASSUME NEW n \in Nat \ {0}, NEW v \in [1 .. n -> Descs],
           \A k \in 1 .. n : v[k][1] # NULL /\ Gapless(v[k]),
           \A k, l \in 1 .. n : \A i, j \in Slots :
               v[k][i] = v[l][j] /\ v[k][i] # NULL => k = l /\ i = j
    PROVE  Chain(v) /\ Len(v) = n
<1>1. v \in Seq(Descs)
  BY SeqDef
<1>2. Len(v) \in Nat /\ DOMAIN v = 1 .. Len(v)
  BY <1>1, LenProperties, Zenon
<1>3. DOMAIN v = 1 .. n
  BY Zenon
<1>4. Len(v) = n
  BY <1>2, <1>3
<1>5. v # << >>
  BY <1>4, EmptySeq, Zenon
<1> QED BY <1>1, <1>3, <1>4, <1>5, Zenon DEF Chain, Once

-----------------------------------------------------------------------------
(* pte_list_add *)

LEMMA FreeSlotIs ==
    ASSUME NEW desc \in Descs, Gapless(desc), ~Full(desc)
    PROVE  /\ FreeSlot(desc) \in Slots /\ desc[FreeSlot(desc)] = NULL
           /\ \A i \in Slots : desc[i] # NULL <=> i < FreeSlot(desc)
<1> DEFINE S == {i \in Slots : desc[i] = NULL}
<1>1. S \in SUBSET Nat /\ S # {}
  BY SlotFacts, Zenon DEF Full
<1>2. FreeSlot(desc) \in S /\ \A i \in S : FreeSlot(desc) <= i
  BY <1>1, LeastIs, Zenon DEF FreeSlot
<1>3. FreeSlot(desc) \in Slots /\ desc[FreeSlot(desc)] = NULL
  BY <1>2, Zenon
<1>4. ASSUME NEW i \in Slots, desc[i] # NULL PROVE i < FreeSlot(desc)
  BY <1>3, <1>4, ExtNat DEF Gapless, Slots
<1>5. ASSUME NEW i \in Slots, i < FreeSlot(desc) PROVE desc[i] # NULL
  BY <1>2, <1>5, ExtNat DEF Slots
<1> QED BY <1>3, <1>4, <1>5, Zenon

\* A pointer put into a descriptor with room comes behind the others.
LEMMA PutIs ==
    ASSUME NEW desc \in Descs, Gapless(desc), ~Full(desc), NEW s \in Sptes
    PROVE  /\ Put(desc, s) \in Descs /\ Gapless(Put(desc, s)) /\ Put(desc, s)[1] # NULL
           /\ \A i \in Slots : Put(desc, s)[i] = IF i = FreeSlot(desc) THEN s ELSE desc[i]
<1> DEFINE e == FreeSlot(desc)  w == Put(desc, s)
<1>1. /\ e \in Slots /\ desc[e] = NULL
      /\ \A i \in Slots : desc[i] # NULL <=> i < e
  BY FreeSlotIs, Zenon
<1>2. w = [desc EXCEPT ![e] = s]
  BY Zenon DEF Put
<1>3. s # NULL
  BY RmapAssumption, Zenon
<1> HIDE DEF e, w
<1>4. w \in Descs /\ \A i \in Slots : w[i] = IF i = e THEN s ELSE desc[i]
  BY <1>1, <1>2, Zenon DEF Descs
<1>5. \A i \in Slots : w[i] # NULL <=> i <= e
  BY <1>1, <1>3, <1>4, SlotFacts, SMTT(30)
<1>6. Gapless(w) /\ w[1] # NULL
  BY <1>1, <1>5, SlotFacts DEF Gapless
<1> QED BY <1>4, <1>6, Zenon DEF e, w

LEMMA FreshDescIs ==
    /\ FreshDesc \in Descs /\ Gapless(FreshDesc) /\ ~Full(FreshDesc) /\ FreeSlot(FreshDesc) = 1
    /\ \A i \in Slots : FreshDesc[i] = NULL
<1>1. FreshDesc \in Descs /\ \A i \in Slots : FreshDesc[i] = NULL
  BY Zenon DEF FreshDesc, Descs
<1>2. Gapless(FreshDesc) /\ ~Full(FreshDesc)
  BY <1>1, SlotFacts, Zenon DEF Gapless, Full
<1>3. FreeSlot(FreshDesc) \in Slots /\ ~(1 < FreeSlot(FreshDesc))
  BY <1>1, <1>2, FreeSlotIs, SlotFacts, Zenon
<1> QED BY <1>1, <1>2, <1>3, ExtNat DEF Slots

\* The descriptor pte_list_add stops at is full only when all are.
LEMMA AddDescIs ==
    ASSUME NEW v, Chain(v)
    PROVE  /\ AddDesc(v) \in 1 .. Len(v)
           /\ Full(v[AddDesc(v)]) => AddDesc(v) = Len(v)
           /\ \A k \in 1 .. Len(v) : k < AddDesc(v) => Full(v[k])
<1> DEFINE S == {k \in DOMAIN v : ~Full(v[k])} \cup {Len(v)}
<1>1. S \in SUBSET Nat /\ S # {} /\ S \subseteq 1 .. Len(v)
  BY ChainFacts
<1>2. AddDesc(v) \in S /\ \A k \in S : AddDesc(v) <= k
  BY <1>1, LeastIs, Zenon DEF AddDesc
<1> QED BY <1>1, <1>2, ChainFacts

\* A chain that differs from another in one place, where a new pointer is.
LEMMA OneMore ==
    ASSUME NEW v, Chain(v), NEW s \in Sptes, s \notin Entries(v),
           NEW n \in Nat, n >= Len(v), NEW w \in [1 .. n -> Descs],
           \A k \in 1 .. n : w[k][1] # NULL /\ Gapless(w[k]),
           NEW k0 \in 1 .. n, NEW i0 \in Slots, w[k0][i0] = s,
           k0 \in 1 .. Len(v) => v[k0][i0] = NULL,
           \A k \in 1 .. n, i \in Slots : (k # k0 \/ i # i0) =>
               w[k][i] = IF k <= Len(v) THEN v[k][i] ELSE NULL
    PROVE  Chain(w) /\ Len(w) = n /\ Entries(w) = Entries(v) \cup {s}
<1>1. /\ Len(v) \in Nat \ {0} /\ DOMAIN v = 1 .. Len(v)
      /\ \A k \in 1 .. Len(v), i \in Slots : v[k][i] \in Sptes \cup {NULL}
      /\ \A t : t \in Entries(v) <=>
           t # NULL /\ \E k \in 1 .. Len(v), i \in Slots : v[k][i] = t
  BY ChainFacts, Zenon
<1>2. s # NULL
  BY RmapAssumption, Zenon
<1>3. \A k \in 1 .. Len(v), i \in Slots : v[k][i] # s
  BY <1>1, <1>2, Zenon
<1>4. \A k \in 1 .. n, i \in Slots : w[k][i] = s => k = k0 /\ i = i0
  BY <1>1, <1>2, <1>3
<1>5. ASSUME NEW k \in 1 .. n, NEW l \in 1 .. n, NEW i \in Slots, NEW j \in Slots,
             w[k][i] = w[l][j], w[k][i] # NULL
      PROVE  k = l /\ i = j
  <2>1. CASE w[k][i] = s
    BY <1>4, <1>5, <2>1, Zenon
  <2>2. CASE w[k][i] # s
    <3>1. (k # k0 \/ i # i0) /\ (l # k0 \/ j # i0)
      BY <1>5, <2>2, Zenon
    <3>2. k \in DOMAIN v /\ l \in DOMAIN v /\ w[k][i] = v[k][i] /\ w[l][j] = v[l][j]
      BY <1>1, <1>5, <3>1
    <3>3. v[k][i] = v[l][j] /\ v[k][i] # NULL
      BY <1>5, <3>2, Zenon
    <3> QED BY <3>2, <3>3, OnceOf
  <2> QED BY <2>1, <2>2, Zenon
<1>6. Chain(w) /\ Len(w) = n
  BY <1>1, <1>5, MakeChain, SMTT(30)
<1>7. \A t : t \in Entries(w) <=> t # NULL /\ \E k \in 1 .. n, i \in Slots : w[k][i] = t
  BY <1>6, ChainFacts, SMTT(30), Zenon
<1>8. ASSUME NEW t \in Entries(w) PROVE t \in Entries(v) \cup {s}
  BY <1>1, <1>7
<1>9. ASSUME NEW t \in Entries(v) PROVE t \in Entries(w)
  <2>1. PICK k \in 1 .. Len(v), i \in Slots : v[k][i] = t
    BY <1>1, Zenon
  <2>2. k \in 1 .. n /\ (k # k0 \/ i # i0)
    BY <1>1, <2>1
  <2> QED BY <1>1, <1>7, <2>1, <2>2
<1>10. s \in Entries(w)
  BY <1>2, <1>7, Zenon
<1> QED BY <1>6, <1>8, <1>9, <1>10, Zenon

\* The values pte_list_add makes of nothing, of one pointer and of a chain.
LEMMA AddToOne ==
    ASSUME NEW v \in Sptes, NEW s \in Sptes, s # v
    PROVE  LET w == PteListAdd(s, v) IN
           Chain(w) /\ Len(w) = 1 /\ Entries(w) = {v, s}
<1> DEFINE desc == [i \in Slots |-> IF i = 1 THEN v ELSE IF i = 2 THEN s ELSE NULL]
           w == << desc >>
<1>1. v # NULL /\ s # NULL
  BY RmapAssumption, Zenon
<1>2. PteListAdd(s, v) = w
  BY <1>1, Zenon DEF PteListAdd, IsOne
<1>3. /\ desc \in Descs /\ desc[1] = v /\ desc[2] = s
      /\ \A i \in Slots : i # 1 /\ i # 2 => desc[i] = NULL
  BY SlotFacts DEF Descs
<1> HIDE DEF desc
<1>4. Gapless(desc)
  BY <1>1, <1>3, ExtNat DEF Gapless, Slots
<1>5. w \in [1 .. 1 -> Descs] /\ w[1] = desc
  BY <1>3
<1> HIDE DEF w
<1>6. \A k \in 1 .. 1 : w[k] = desc
  BY <1>5
<1>7. \A k \in 1 .. 1 : w[k][1] # NULL /\ Gapless(w[k])
  BY <1>1, <1>3, <1>4, <1>6, Zenon
<1>8. \A k, l \in 1 .. 1 : \A i, j \in Slots :
          w[k][i] = w[l][j] /\ w[k][i] # NULL => k = l /\ i = j
  BY <1>3, <1>6
<1>9. Chain(w) /\ Len(w) = 1
  <2>1. 1 \in Nat \ {0}
    OBVIOUS
  <2> QED BY <1>5, <1>7, <1>8, <2>1, MakeChain, Zenon
<1>10. Entries(w) = {v, s}
  BY <1>1, <1>3, <1>6, <1>9, ChainFacts, SlotFacts
<1> QED BY <1>2, <1>9, <1>10, Zenon

LEMMA AddAppends ==
    ASSUME NEW v, Chain(v), NEW s \in Sptes, s \notin Entries(v), Full(v[AddDesc(v)])
    PROVE  LET w == PteListAdd(s, v) IN
           /\ Chain(w) /\ Len(w) = Len(v) + 1 /\ Entries(w) = Entries(v) \cup {s}
           /\ ~Full(w[Len(w)])
<1> DEFINE d == Put(FreshDesc, s)  w == Append(v, d)  n == Len(v) + 1
<1>1. /\ IsMany(v) /\ v # NULL /\ Len(v) \in Nat \ {0}
      /\ v \in [1 .. Len(v) -> Descs] /\ DOMAIN v = 1 .. Len(v)
  BY ChainFacts, Zenon
<1>2. PteListAdd(s, v) = w
  BY <1>1, Zenon DEF PteListAdd, IsMany, IsOne
<1>3. /\ d \in Descs /\ Gapless(d) /\ d[1] = s /\ s # NULL
      /\ \A i \in Slots : i # 1 => d[i] = NULL
  BY FreshDescIs, PutIs, SlotFacts, RmapAssumption
<1> HIDE DEF d
<1>4. /\ w \in [1 .. n -> Descs] /\ w[n] = d
      /\ \A k \in 1 .. Len(v) : w[k] = v[k]
  <2>1. v \in Seq(Descs)
    BY Zenon DEF Chain
  <2>2. w \in Seq(Descs) /\ Len(w) = n /\ w[n] = d /\ \A k \in 1 .. Len(v) : w[k] = v[k]
    BY <1>1, <1>3, <2>1, AppendProperties
  <2> QED BY <2>2, LenProperties, Zenon
<1>5. n \in Nat /\ n >= Len(v) /\ n \in 1 .. n
  BY <1>1
<1> HIDE DEF w
<1>6. \A k \in DOMAIN v : v[k][1] # NULL /\ Gapless(v[k])
  BY Zenon DEF Chain
<1>7. \A k \in 1 .. n : w[k][1] # NULL /\ Gapless(w[k])
  BY <1>1, <1>3, <1>4, <1>6
<1>8. \A k \in 1 .. n, i \in Slots : (k # n \/ i # 1) =>
          w[k][i] = IF k <= Len(v) THEN v[k][i] ELSE NULL
  BY <1>1, <1>3, <1>4
<1>9. w[n][1] = s /\ n \notin 1 .. Len(v)
  BY <1>1, <1>3, <1>4
<1>10. Chain(w) /\ Len(w) = n /\ Entries(w) = Entries(v) \cup {s}
  BY <1>4, <1>5, <1>7, <1>8, <1>9, SlotFacts, OneMore, SMTT(30), Zenon
<1>11. ~Full(w[n])
  BY <1>3, <1>4, ExtNat, SlotFacts DEF Full
<1> QED BY <1>2, <1>10, <1>11, Zenon

LEMMA AddPuts ==
    ASSUME NEW v, Chain(v), NEW s \in Sptes, s \notin Entries(v), ~Full(v[AddDesc(v)])
    PROVE  LET w == PteListAdd(s, v) IN
           /\ Chain(w) /\ Len(w) = Len(v) /\ Entries(w) = Entries(v) \cup {s}
           /\ \A k \in 1 .. Len(v) : k # AddDesc(v) => w[k] = v[k]
<1> DEFINE a == AddDesc(v)  d == Put(v[a], s)  w == [v EXCEPT ![a] = d]  n == Len(v)
           e == FreeSlot(v[a])
<1>1. /\ IsMany(v) /\ v # NULL /\ n \in Nat \ {0}
      /\ v \in [1 .. n -> Descs] /\ DOMAIN v = 1 .. n
  BY ChainFacts, Zenon
<1>2. PteListAdd(s, v) = w
  BY <1>1, Zenon DEF PteListAdd, IsMany, IsOne
<1>3. a \in 1 .. n
  BY AddDescIs, Zenon
<1>4. \A k \in DOMAIN v : v[k][1] # NULL /\ Gapless(v[k])
  BY Zenon DEF Chain
<1>5. v[a] \in Descs /\ Gapless(v[a])
  BY <1>1, <1>3, <1>4, Zenon
<1>6. /\ d \in Descs /\ Gapless(d) /\ d[1] # NULL
      /\ \A i \in Slots : d[i] = IF i = e THEN s ELSE v[a][i]
      /\ e \in Slots /\ v[a][e] = NULL
  BY <1>5, PutIs, FreeSlotIs, Zenon
<1> HIDE DEF d, e
<1>7. w \in [1 .. n -> Descs] /\ \A k \in 1 .. n : w[k] = IF k = a THEN d ELSE v[k]
  BY <1>1, <1>3, <1>6, Zenon
<1> HIDE DEF w, a
<1>8. \A k \in 1 .. n : w[k][1] # NULL /\ Gapless(w[k])
  BY <1>1, <1>4, <1>6, <1>7, Zenon
<1>9. \A k \in 1 .. n, i \in Slots : (k # a \/ i # e) =>
          w[k][i] = IF k <= Len(v) THEN v[k][i] ELSE NULL
  BY <1>1, <1>6, <1>7
<1>10. w[a][e] = s
  BY <1>3, <1>6, <1>7, Zenon
<1>11. Chain(w) /\ Len(w) = n /\ Entries(w) = Entries(v) \cup {s}
  BY <1>1, <1>3, <1>6, <1>7, <1>8, <1>9, <1>10, OneMore, SMTT(30), Zenon
<1> QED BY <1>2, <1>7, <1>11, Zenon DEF a

\* pte_list_add adds just s, and a chain can reach its greatest length with a full last
\* descriptor only by an addition whose count exceeds the threshold.
LEMMA AddIs ==
    ASSUME NEW v, Good(v), NEW s \in Sptes, s \notin Entries(v)
    PROVE  LET w == PteListAdd(s, v) IN
           /\ Good(w) /\ w # NULL /\ Entries(w) = Entries(v) \cup {s}
           /\ Fits(v) => (IsMany(w) => Len(w) <= MaxDescs) /\ (Topped(w) => Recycles(v))
<1> DEFINE w == PteListAdd(s, v)
<1>0. s # NULL /\ MaxDescs \in Nat /\ MaxDescs >= 2
  BY RmapAssumption, ThresholdPassed, Zenon
<1>1. CASE v = NULL
  <2>1. w = s
    BY <1>1, Zenon DEF PteListAdd
  <2>2. Entries(v) = {} /\ Entries(w) = {s}
    BY <1>0, <1>1, <2>1 DEF Entries, IsOne
  <2>3. ~IsMany(w) /\ ~Topped(w)
    BY <2>1, Zenon DEF IsMany, Topped
  <2> QED BY <1>0, <2>1, <2>2, <2>3, Zenon DEF Good
<1>2. CASE v \in Sptes
  <2>1. v # NULL
    BY <1>2, RmapAssumption, Zenon
  <2>2. Entries(v) = {v}
    BY <1>2, <2>1 DEF Entries, IsOne
  <2>3. Chain(w) /\ Len(w) = 1 /\ Entries(w) = {v, s}
    BY <1>2, <2>2, AddToOne, Zenon
  <2>4. ~Topped(w) /\ Len(w) <= MaxDescs /\ w # NULL
    BY <1>0, <2>3, ChainFacts DEF Topped
  <2> QED BY <2>2, <2>3, <2>4, Zenon DEF Good
<1>3. CASE Chain(v) /\ Full(v[AddDesc(v)])
  <2>1. /\ Chain(w) /\ Len(w) = Len(v) + 1 /\ Entries(w) = Entries(v) \cup {s}
        /\ ~Full(w[Len(w)])
    BY <1>3, AddAppends, Zenon
  <2>2. Full(v[Len(v)]) /\ IsMany(v) /\ Len(v) \in Nat
    BY <1>3, AddDescIs, ChainFacts, Zenon
  <2>3. ASSUME Fits(v) PROVE Len(w) <= MaxDescs
    BY <1>0, <2>1, <2>2, <2>3 DEF Fits, Topped
  <2> QED BY <2>1, <2>3, ChainFacts, Zenon DEF Good, Topped
<1>4. CASE Chain(v) /\ ~Full(v[AddDesc(v)])
  <2> DEFINE a == AddDesc(v)
  <2>1. /\ Chain(w) /\ Len(w) = Len(v) /\ Entries(w) = Entries(v) \cup {s}
        /\ \A k \in 1 .. Len(v) : k # a => w[k] = v[k]
    BY <1>4, AddPuts, Zenon
  <2>2. IsMany(v) /\ ~IsOne(v) /\ v # NULL /\ Len(v) \in Nat \ {0} /\ a \in 1 .. Len(v)
    BY <1>4, AddDescIs, ChainFacts, Zenon
  <2>3. ASSUME Fits(v), Topped(w) PROVE Recycles(v)
    <3>1. Len(v) = MaxDescs /\ Full(w[Len(v)])
      BY <2>1, <2>3, Zenon DEF Topped
    <3>2. ~Full(v[Len(v)])
      BY <2>2, <2>3, <3>1, Zenon DEF Fits, Topped
    <3>3. a = MaxDescs
      BY <2>1, <2>2, <3>1, <3>2
    <3>4. v[a] \in Descs /\ Gapless(v[a])
      BY <1>4, <2>2, ChainFacts DEF Chain
    <3>5. FreeSlot(v[a]) \in Slots
      BY <1>4, <3>4, FreeSlotIs, Zenon
    <3>6. AddCount(v) = PTE_LIST_EXT * (MaxDescs - 1) + (FreeSlot(v[a]) - 1)
      BY <1>4, <2>2, <3>3, Zenon DEF AddCount
    <3>7. FreeSlot(v[a]) \in Nat /\ FreeSlot(v[a]) >= 1
      BY <3>5, ExtNat DEF Slots
    <3>8. PTE_LIST_EXT * (MaxDescs - 1) \in Int
      BY <1>0, ExtNat
    <3>9. AddCount(v) > RMAP_RECYCLE_THRESHOLD
      BY <3>6, <3>7, <3>8, ThresholdPassed, RmapAssumption
    <3> QED BY <3>9, Zenon DEF Recycles
  <2>4. Fits(v) => Len(w) <= MaxDescs
    BY <2>1, <2>2, Zenon DEF Fits
  <2> QED BY <2>1, <2>3, <2>4, ChainFacts, Zenon DEF Good
<1> QED BY <1>1, <1>2, <1>3, <1>4, Zenon DEF Good

-----------------------------------------------------------------------------
(* pte_list_remove *)

LEMMA FoundInIs ==
    ASSUME NEW desc \in Descs, Gapless(desc), NEW s \in Sptes
    PROVE  FoundIn(s, desc) = {i \in Slots : desc[i] = s}
<1>1. s # NULL
  BY RmapAssumption, Zenon
<1>2. ASSUME NEW i \in Slots, desc[i] = s PROVE Sees(desc, i)
  <2>1. \A j \in 1 .. i : j \in Slots /\ (j = i \/ j < i)
    BY ExtNat DEF Slots
  <2> QED BY <1>1, <1>2, <2>1, Zenon DEF Sees, Gapless
<1> QED BY <1>2, Zenon DEF FoundIn

\* The search of pte_list_remove finds an spte if and only if it is there.
LEMMA FoundIs ==
    ASSUME NEW v, Good(v), NEW s \in Sptes
    PROVE  Found(s, v) <=> s \in Entries(v)
<1>0. s # NULL
  BY RmapAssumption, Zenon
<1>1. CASE v = NULL
  BY <1>0, <1>1 DEF Found, Entries, IsMany
<1>2. CASE v \in Sptes
  BY <1>2, RmapAssumption DEF Found, Entries, IsMany, IsOne
<1>3. CASE Chain(v)
  <2>1. v # s
    BY <1>3, ChainFacts DEF IsOne
  <2>2. \A k \in DOMAIN v : v[k] \in Descs /\ Gapless(v[k])
    BY <1>3, ChainFacts DEF Chain
  <2>3. \A k \in DOMAIN v : FoundIn(s, v[k]) = {i \in Slots : v[k][i] = s}
    BY <2>2, FoundInIs, Zenon
  <2> QED BY <1>0, <1>3, <2>1, <2>3, ChainFacts DEF Found
<1> QED BY <1>1, <1>2, <1>3, Zenon DEF Good

LEMMA LastUsedIs ==
    ASSUME NEW desc \in Descs, Gapless(desc), NEW i \in Slots, desc[i] # NULL
    PROVE  LET u == LastUsed(desc, i) IN
           /\ u \in Slots /\ i <= u
           /\ \A j \in Slots : desc[j] # NULL <=> j <= u
<1> DEFINE S == {i} \cup {j \in Slots : j > i /\ desc[j] # NULL}  u == LastUsed(desc, i)
<1>1. S \in SUBSET Nat /\ S # {} /\ \A j \in S : j <= PTE_LIST_EXT
  BY SlotFacts, Zenon
<1>2. u \in S /\ \A j \in S : j <= u
  BY <1>1, ExtNat, GreatestIs, Zenon DEF LastUsed
<1>3. u \in Slots /\ desc[u] # NULL /\ i <= u
  BY <1>2, ExtNat, Zenon DEF Slots
<1>4. ASSUME NEW j \in Slots, desc[j] # NULL PROVE j <= u
  BY <1>2, <1>3, <1>4, ExtNat DEF Slots
<1>5. ASSUME NEW j \in Slots, j <= u PROVE desc[j] # NULL
  BY <1>3, <1>5, ExtNat DEF Slots, Gapless
<1> QED BY <1>3, <1>4, <1>5, Zenon

\* The last pointer takes the place of the one that goes.
LEMMA WithoutIs ==
    ASSUME NEW desc \in Descs, Gapless(desc), NEW i \in Slots, desc[i] # NULL,
           LastUsed(desc, i) # 1
    PROVE  LET u == LastUsed(desc, i)  d == Without(desc, i) IN
           /\ d \in Descs /\ Gapless(d) /\ d[1] # NULL
           /\ \A j \in Slots : d[j] = IF j = u THEN NULL ELSE IF j = i THEN desc[u] ELSE desc[j]
<1> DEFINE u == LastUsed(desc, i)  d == Without(desc, i)
<1>1. u \in Slots /\ i <= u /\ \A j \in Slots : desc[j] # NULL <=> j <= u
  BY LastUsedIs, Zenon
<1>2. d = [desc EXCEPT ![i] = desc[u], ![u] = NULL]
  BY Zenon DEF Without
<1>3. u # 1
  BY Zenon
<1> HIDE DEF u, d
<1>4. /\ d \in Descs
      /\ \A j \in Slots : d[j] = IF j = u THEN NULL ELSE IF j = i THEN desc[u] ELSE desc[j]
  BY <1>1, <1>2, Zenon DEF Descs
<1>5. \A j \in Slots : d[j] # NULL <=> j < u
  BY <1>1, <1>4, ExtNat DEF Slots
<1>6. Gapless(d) /\ d[1] # NULL
  BY <1>1, <1>3, <1>5, ExtNat DEF Slots, Gapless
<1> QED BY <1>4, <1>6, Zenon DEF u, d

\* pte_list_desc_remove_entry at descriptor k, slot i: the pointer goes, and no other.
LEMMA RemoveShortens ==
    ASSUME NEW v, Chain(v), NEW k \in 1 .. Len(v), NEW i \in Slots, v[k][i] # NULL,
           LastUsed(v[k], i) # 1
    PROVE  LET w == RemoveEntry(v, k, i) IN
           /\ Chain(w) /\ Len(w) = Len(v) /\ Entries(w) = Entries(v) \ {v[k][i]}
           /\ Full(w[Len(w)]) => Full(v[Len(v)])
<1> DEFINE u == LastUsed(v[k], i)  d == Without(v[k], i)  w == [v EXCEPT ![k] = d]
           n == Len(v)  s == v[k][i]
<1>1. /\ n \in Nat \ {0} /\ v \in [1 .. n -> Descs] /\ DOMAIN v = 1 .. n
      /\ \A t : t \in Entries(v) <=> t # NULL /\ \E l \in 1 .. n, j \in Slots : v[l][j] = t
  BY ChainFacts
<1>2. \A l \in 1 .. n : v[l] \in Descs /\ v[l][1] # NULL /\ Gapless(v[l])
  BY <1>1, Zenon DEF Chain
<1>3. u \in Slots /\ i <= u /\ \A j \in Slots : v[k][j] # NULL <=> j <= u
  BY <1>2, LastUsedIs, Zenon
<1>4. /\ d \in Descs /\ Gapless(d) /\ d[1] # NULL
      /\ \A j \in Slots : d[j] = IF j = u THEN NULL ELSE IF j = i THEN v[k][u] ELSE v[k][j]
  BY <1>2, WithoutIs, Zenon
<1>5. RemoveEntry(v, k, i) = w
  BY Zenon DEF RemoveEntry
<1> HIDE DEF u, d
<1>6. w \in [1 .. n -> Descs] /\ \A l \in 1 .. n : w[l] = IF l = k THEN d ELSE v[l]
  BY <1>1, <1>4, Zenon
<1> HIDE DEF w
<1>7. \A l \in 1 .. n : w[l][1] # NULL /\ Gapless(w[l])
  BY <1>2, <1>4, <1>6, Zenon
<1>8. \A l \in 1 .. n : \A j \in Slots : w[l][j] # NULL =>
          \/ w[l][j] = v[l][j] /\ ~(l = k /\ j = i) /\ ~(l = k /\ j = u)
          \/ l = k /\ j = i /\ i # u /\ w[l][j] = v[k][u]
  BY <1>3, <1>4, <1>6, Zenon
<1>9. ASSUME NEW l \in 1 .. n, NEW m \in 1 .. n, NEW j \in Slots, NEW p \in Slots,
             w[l][j] = w[m][p], w[l][j] # NULL
      PROVE  l = m /\ j = p
  <2>1. CASE ~(l = k /\ j = i) /\ ~(m = k /\ p = i)
    <3>1. w[l][j] = v[l][j] /\ w[m][p] = v[m][p]
      BY <1>8, <1>9, <2>1, Zenon
    <3>2. v[l][j] = v[m][p] /\ v[l][j] # NULL /\ l \in DOMAIN v /\ m \in DOMAIN v
      BY <1>1, <1>9, <3>1, Zenon
    <3> QED BY <3>2, OnceOf, ZenonT(60)
  <2>2. CASE (l = k /\ j = i) /\ ~(m = k /\ p = i)
    <3>1. w[l][j] = v[k][u] /\ w[m][p] = v[m][p] /\ ~(m = k /\ p = u)
      BY <1>8, <1>9, <2>2, Zenon
    <3>2. v[k][u] = v[m][p] /\ v[k][u] # NULL /\ k \in DOMAIN v /\ m \in DOMAIN v
      BY <1>1, <1>9, <3>1, Zenon
    <3>3. k = m /\ u = p
      BY <1>3, <3>2, OnceOf
    <3> QED BY <3>1, <3>3, Zenon
  <2>3. CASE (m = k /\ p = i) /\ ~(l = k /\ j = i)
    <3>1. w[m][p] = v[k][u] /\ w[l][j] = v[l][j] /\ ~(l = k /\ j = u)
      BY <1>8, <1>9, <2>3, Zenon
    <3>2. v[k][u] = v[l][j] /\ v[k][u] # NULL /\ k \in DOMAIN v /\ l \in DOMAIN v
      BY <1>1, <1>9, <3>1, Zenon
    <3>3. k = l /\ u = j
      BY <1>3, <3>2, OnceOf, SMTT(30)
    <3> QED BY <3>1, <3>3, Zenon
  <2> QED BY <2>1, <2>2, <2>3, Zenon
<1>10. Chain(w) /\ Len(w) = n
  BY <1>1, <1>6, <1>7, <1>9, MakeChain, SMTT(30), Zenon
<1>11. \A t : t \in Entries(w) <=> t # NULL /\ \E l \in 1 .. n, j \in Slots : w[l][j] = t
  BY <1>10, ChainFacts
<1>12. ASSUME NEW t \in Entries(w) PROVE t \in Entries(v) \ {s}
  <2>1. PICK l \in 1 .. n, j \in Slots : w[l][j] = t
    BY <1>11, Zenon
  <2>2. t # NULL
    BY <1>11, Zenon
  <2>3. CASE t = v[l][j] /\ ~(l = k /\ j = i)
    <3>1. t # s
      BY <1>1, <2>2, <2>3, OnceOf
    <3> QED BY <1>1, <2>2, <2>3, <3>1, ZenonT(60)
  <2>4. CASE t = v[k][u] /\ u # i
    <3>1. t # s
      BY <1>1, <1>3, <2>2, <2>4, OnceOf, SMTT(30)
    <3> QED BY <1>1, <1>3, <2>2, <2>4, <3>1, ZenonT(60)
  <2> QED BY <1>8, <2>1, <2>2, <2>3, <2>4, ZenonT(60)
<1>13. ASSUME NEW t \in Entries(v), t # s PROVE t \in Entries(w)
  <2>1. PICK l \in 1 .. n, j \in Slots : v[l][j] = t
    BY <1>1, Zenon
  <2>2. t # NULL /\ ~(l = k /\ j = i)
    BY <1>1, <1>13, <2>1, Zenon
  <2>3. CASE l = k /\ j = u
    <3>1. w[k][i] = t
      BY <1>4, <1>6, <2>1, <2>2, <2>3, Zenon
    <3> QED BY <1>11, <2>2, <3>1, Zenon
  <2>4. CASE ~(l = k /\ j = u)
    <3>1. w[l][j] = t
      BY <1>4, <1>6, <2>1, <2>2, <2>4, Zenon
    <3> QED BY <1>11, <2>2, <3>1, Zenon
  <2> QED BY <2>3, <2>4, Zenon
<1>14. ASSUME Full(w[n]) PROVE Full(v[n])
  <2>1. n \in 1 .. n /\ PTE_LIST_EXT \in Slots
    BY <1>1, SlotFacts
  <2>2. CASE n = k
    <3>1. v[k][u] # NULL
      BY <1>3, ExtNat DEF Slots
    <3> QED BY <1>4, <1>6, <1>14, <2>1, <2>2, <3>1, ZenonT(60) DEF Full
  <2> QED BY <1>6, <1>14, <2>1, <2>2, Zenon
<1> QED BY <1>5, <1>10, <1>12, <1>13, <1>14, ZenonT(60)

LEMMA RemoveUnlinks ==
    ASSUME NEW v, Chain(v), NEW k \in 1 .. Len(v), NEW i \in Slots, v[k][i] # NULL,
           LastUsed(v[k], i) = 1, Len(v) # 1
    PROVE  LET w == RemoveEntry(v, k, i) IN
           /\ Chain(w) /\ Len(w) = Len(v) - 1 /\ Entries(w) = Entries(v) \ {v[k][i]}
<1> DEFINE w == Unlink(v, k)  n == Len(v) - 1  s == v[k][i]
           from == [l \in 1 .. n |-> IF l < k THEN l ELSE l + 1]
<1>1. /\ Len(v) \in Nat \ {0} /\ v \in [1 .. Len(v) -> Descs] /\ DOMAIN v = 1 .. Len(v)
      /\ \A t : t \in Entries(v) <=>
           t # NULL /\ \E l \in 1 .. Len(v), j \in Slots : v[l][j] = t
  BY ChainFacts, Zenon
<1>2. \A l \in 1 .. Len(v) : v[l] \in Descs /\ v[l][1] # NULL /\ Gapless(v[l])
  BY <1>1, Zenon DEF Chain
<1>3. n \in Nat \ {0}
  BY <1>1
<1>4. i = 1 /\ \A j \in Slots : j # 1 => v[k][j] = NULL
  <2>1. i <= 1 /\ \A j \in Slots : v[k][j] # NULL <=> j <= 1
    BY <1>2, LastUsedIs, Zenon
  <2> QED BY <2>1, ExtNat DEF Slots
<1>5. RemoveEntry(v, k, i) = w
  BY Zenon DEF RemoveEntry
<1>6. /\ \A l \in 1 .. n : from[l] \in 1 .. Len(v) /\ from[l] # k
      /\ \A l, m \in 1 .. n : from[l] = from[m] => l = m
      /\ \A m \in 1 .. Len(v) : m # k => \E l \in 1 .. n : from[l] = m
  <2>1. \A l \in 1 .. n : from[l] \in 1 .. Len(v) /\ from[l] # k
    BY <1>1
  <2>2. \A l, m \in 1 .. n : from[l] = from[m] => l = m
    BY <1>1
  <2>3. ASSUME NEW m \in 1 .. Len(v), m # k PROVE \E l \in 1 .. n : from[l] = m
    <3>1. CASE m < k
      <4>1. m \in 1 .. n /\ from[m] = m
        BY <1>1, <3>1
      <4> QED BY <4>1, Zenon
    <3>2. CASE m > k
      <4>1. m - 1 \in 1 .. n /\ from[m - 1] = m
        BY <1>1, <3>2
      <4> QED BY <4>1, Zenon
    <3> QED BY <2>3, <3>1, <3>2, <1>1
  <2> QED BY <2>1, <2>2, <2>3, Zenon
<1>7. w \in [1 .. n -> Descs] /\ \A l \in 1 .. n : w[l] = v[from[l]]
  BY <1>1, <1>2 DEF Unlink
<1> HIDE DEF w, from
<1>8. ASSUME NEW l \in 1 .. n PROVE w[l][1] # NULL /\ Gapless(w[l])
  <2>1. from[l] \in 1 .. Len(v) /\ w[l] = v[from[l]]
    BY <1>6, <1>7, Zenon
  <2> QED BY <1>2, <2>1, Zenon
<1>9. ASSUME NEW l \in 1 .. n, NEW m \in 1 .. n, NEW j \in Slots, NEW p \in Slots,
             w[l][j] = w[m][p], w[l][j] # NULL
      PROVE  l = m /\ j = p
  <2>1. /\ from[l] \in DOMAIN v /\ from[m] \in DOMAIN v
        /\ w[l] = v[from[l]] /\ w[m] = v[from[m]]
    BY <1>1, <1>6, <1>7, Zenon
  <2>2. v[from[l]][j] = v[from[m]][p] /\ v[from[l]][j] # NULL
    BY <1>9, <2>1, Zenon
  <2>3. from[l] = from[m] /\ j = p
    BY <2>1, <2>2, OnceOf, Zenon
  <2> QED BY <1>6, <2>3, Zenon
<1>10. Chain(w) /\ Len(w) = n
  <2>1. \A l, m \in 1 .. n : \A j, p \in Slots :
            w[l][j] = w[m][p] /\ w[l][j] # NULL => l = m /\ j = p
    BY <1>9
  <2> HIDE DEF n
  <2> QED BY <1>3, <1>7, <1>8, <2>1, MakeChain, ZenonT(60)
<1>11. \A t : t \in Entries(w) <=> t # NULL /\ \E l \in 1 .. n, j \in Slots : w[l][j] = t
  BY <1>10, ChainFacts
<1>12. ASSUME NEW t \in Entries(w) PROVE t \in Entries(v) \ {s}
  <2>1. PICK l \in 1 .. n, j \in Slots : w[l][j] = t
    BY <1>11, Zenon
  <2>2. t # NULL /\ from[l] \in 1 .. Len(v) /\ from[l] # k /\ v[from[l]][j] = t
    BY <1>6, <1>7, <1>11, <2>1, Zenon
  <2>3. t # s
    BY <1>1, <2>2, OnceOf
  <2> QED BY <1>1, <2>2, <2>3, Zenon
<1>13. ASSUME NEW t \in Entries(v), t # s PROVE t \in Entries(w)
  <2>1. PICK m \in 1 .. Len(v), j \in Slots : v[m][j] = t
    BY <1>1, Zenon
  <2>2. t # NULL /\ m # k
    BY <1>1, <1>4, <1>13, <2>1, Zenon
  <2>3. PICK l \in 1 .. n : from[l] = m
    BY <1>6, <2>2, Zenon
  <2> QED BY <1>7, <1>11, <2>1, <2>2, <2>3, Zenon
<1> QED BY <1>5, <1>10, <1>12, <1>13, Zenon

\* pte_list_remove takes just s off its chain, which does not grow by it.
LEMMA RemoveIs ==
    ASSUME NEW v, Good(v), NEW s \in Entries(v)
    PROVE  LET w == PteListRemove(s, v) IN
           /\ Good(w) /\ Entries(w) = Entries(v) \ {s}
           /\ IsMany(w) => IsMany(v) /\ Len(w) <= Len(v)
           /\ Topped(w) => Topped(v) \/ Len(v) > MaxDescs
<1> DEFINE w == PteListRemove(s, v)
<1>1. v # NULL
  BY DEF Entries
<1>2. CASE v \in Sptes
  <2>1. s = v /\ Entries(v) = {v}
    BY <1>1, <1>2 DEF Entries, IsOne
  <2>2. w = NULL
    BY <2>1, Zenon DEF PteListRemove
  <2>3. Good(w) /\ Entries(w) = {} /\ ~IsMany(w) /\ ~Topped(w)
    BY <2>2 DEF Good, Entries, IsMany, Topped
  <2> QED BY <2>1, <2>3, Zenon
<1>3. CASE Chain(v)
  <2>1. /\ IsMany(v) /\ ~IsOne(v) /\ Len(v) \in Nat \ {0} /\ DOMAIN v = 1 .. Len(v)
        /\ s # NULL /\ \E k \in 1 .. Len(v), i \in Slots : v[k][i] = s
        /\ \A k \in 1 .. Len(v), i \in Slots : v[k][i] \in Sptes \cup {NULL}
    BY <1>3, ChainFacts
  <2>2. s \in Sptes /\ v # s
    BY <2>1, Zenon DEF IsOne
  <2>3. \A k \in 1 .. Len(v) : v[k] \in Descs /\ Gapless(v[k])
    BY <1>3, <2>1, ChainFacts, Zenon DEF Chain
  <2>4. \A k \in 1 .. Len(v) : FoundIn(s, v[k]) = {i \in Slots : v[k][i] = s}
    BY <2>2, <2>3, FoundInIs, Zenon
  <2> DEFINE K == {m \in DOMAIN v : FoundIn(s, v[m]) # {}}  k == Least(K)
             i == Least(FoundIn(s, v[k]))
  <2>5. k \in 1 .. Len(v) /\ FoundIn(s, v[k]) # {}
    <3>1. K \in SUBSET Nat /\ K # {}
      <4>1. PICK m \in 1 .. Len(v), j \in Slots : v[m][j] = s
        BY <2>1, Zenon
      <4>2. j \in FoundIn(s, v[m]) /\ m \in DOMAIN v
        BY <2>1, <2>4, <4>1, Zenon
      <4>3. m \in K
        BY <4>2, Zenon
      <4>4. K \subseteq 1 .. Len(v)
        BY <2>1, Zenon
      <4> HIDE DEF K
      <4> QED BY <4>3, <4>4
    <3>2. k \in K
      BY <3>1, LeastIs, Zenon
    <3> QED BY <2>1, <3>2, Zenon
  <2>6. i \in Slots /\ v[k][i] = s
    <3>1. FoundIn(s, v[k]) \in SUBSET Nat
      BY <2>4, <2>5, SlotFacts, Zenon
    <3>2. i \in FoundIn(s, v[k])
      BY <2>5, <3>1, LeastIs, Zenon
    <3> QED BY <2>4, <2>5, <3>2, Zenon
  <2>7. w = RemoveEntry(v, k, i)
    BY <1>3, <2>2, FoundIs, Zenon DEF PteListRemove, Good
  <2> HIDE DEF k, i, w
  <2>8. CASE LastUsed(v[k], i) # 1
    <3>1. /\ Chain(w) /\ Len(w) = Len(v) /\ Entries(w) = Entries(v) \ {s}
          /\ Full(w[Len(w)]) => Full(v[Len(v)])
      BY <1>3, <2>1, <2>5, <2>6, <2>7, <2>8, RemoveShortens, ZenonT(60)
    <3> QED BY <2>1, <3>1 DEF Good, Topped, w
  <2>9. CASE LastUsed(v[k], i) = 1 /\ Len(v) # 1
    <3>1. Chain(w) /\ Len(w) = Len(v) - 1 /\ Entries(w) = Entries(v) \ {s}
      <4>1. v[k][i] # NULL
        BY <2>1, <2>6, Zenon
      <4>2. LET x == RemoveEntry(v, k, i) IN
            Chain(x) /\ Len(x) = Len(v) - 1 /\ Entries(x) = Entries(v) \ {v[k][i]}
        BY <1>3, <2>5, <2>6, <2>9, <4>1, RemoveUnlinks, SMTT(30)
      <4> QED BY <2>6, <2>7, <4>2, Zenon
    <3> QED BY <2>1, <3>1, ThresholdPassed DEF Good, Topped, w
  <2>10. CASE LastUsed(v[k], i) = 1 /\ Len(v) = 1
    <3>1. w = NULL
      BY <2>7, <2>10, Zenon DEF RemoveEntry
    <3>2. k = 1 /\ i = 1 /\ \A j \in Slots : j # 1 => v[1][j] = NULL
      <4>1. i <= 1 /\ \A j \in Slots : v[k][j] # NULL <=> j <= 1
        BY <2>1, <2>3, <2>5, <2>6, <2>10, LastUsedIs, SMTT(30)
      <4>2. k = 1
        BY <2>5, <2>10
      <4> QED BY <2>6, <4>1, <4>2, ExtNat, SMTT(30) DEF Slots
    <3>3. Entries(v) = {s}
      BY <1>3, <2>1, <2>6, <2>10, <3>2, ChainFacts, SMTT(30)
    <3>4. Good(w) /\ Entries(w) = {} /\ ~IsMany(w) /\ ~Topped(w)
      BY <3>1 DEF Good, Entries, IsMany, Topped
    <3> QED BY <3>3, <3>4, Zenon DEF w
  <2> QED BY <2>8, <2>9, <2>10, Zenon
<1> QED BY <1>1, <1>2, <1>3, Zenon DEF Good

\* As no pointer is in two places, counting the pointers counts the entries.
LEMMA PointersCount ==
    ASSUME NEW v, Good(v)
    PROVE  Pointers(v) = Cardinality(Entries(v))
<1>1. CASE v = NULL
  BY <1>1, FS_EmptySet DEF Pointers, Entries
<1>2. CASE v \in Sptes
  <2>1. v # NULL
    BY <1>2, RmapAssumption, Zenon
  <2>2. Pointers(v) = 1 /\ Entries(v) = {v}
    BY <1>2, <2>1 DEF Pointers, Entries, IsOne
  <2> QED BY <2>2, FS_Singleton, Zenon
<1>3. CASE Chain(v)
  <2> DEFINE P == {p \in (DOMAIN v) \X Slots : v[p[1]][p[2]] # NULL}
             f == [p \in P |-> v[p[1]][p[2]]]
  <2>1. /\ DOMAIN v = 1 .. Len(v) /\ Len(v) \in Nat /\ v # NULL /\ ~IsOne(v)
        /\ \A t : t \in Entries(v) <=>
             t # NULL /\ \E k \in 1 .. Len(v), i \in Slots : v[k][i] = t
    BY <1>3, ChainFacts, Zenon
  <2>2. IsFiniteSet(P)
    <3>1. IsFiniteSet(DOMAIN v)
      <4>1. 1 \in Int /\ Len(v) \in Int
        BY <2>1
      <4> QED BY <2>1, <4>1, FS_Interval, Zenon
    <3>2. IsFiniteSet(Slots)
      BY ExtNat, FS_Interval DEF Slots
    <3>3. IsFiniteSet((DOMAIN v) \X Slots)
      BY <3>1, <3>2, FS_Product, Zenon
    <3> QED BY <3>3, FS_Subset, Zenon
  <2>3. \A p \in P : p = <<p[1], p[2]>> /\ p[1] \in DOMAIN v /\ p[2] \in Slots
    OBVIOUS
  <2>4. f \in [P -> Entries(v)]
    BY <2>1, <2>3, Zenon
  <2>5. ASSUME NEW p \in P, NEW q \in P, f[p] = f[q] PROVE p = q
    <3>1. v[p[1]][p[2]] = v[q[1]][q[2]] /\ v[p[1]][p[2]] # NULL
      BY <2>5, Zenon
    <3>2. p[1] = q[1] /\ p[2] = q[2]
      BY <1>3, <2>3, <3>1, OnceOf, ZenonT(60)
    <3> QED BY <2>3, <3>2, Zenon
  <2>6. ASSUME NEW t \in Entries(v) PROVE \E p \in P : f[p] = t
    <3>1. PICK k \in DOMAIN v, i \in Slots : v[k][i] = t
      BY <2>1, Zenon
    <3>2. <<k, i>> \in P /\ f[<<k, i>>] = t
      BY <2>1, <3>1, Zenon
    <3> QED BY <3>2, Zenon
  <2>7. f \in Bijection(P, Entries(v))
    <3>1. f \in Injection(P, Entries(v))
      BY <2>4, <2>5, Zenon DEF Injection, IsInjective
    <3>2. f \in Surjection(P, Entries(v))
      BY <2>4, <2>6, Zenon DEF Surjection
    <3> QED BY <3>1, <3>2, Zenon DEF Bijection
  <2>8. ExistsBijection(P, Entries(v))
    BY <2>7, Zenon DEF ExistsBijection
  <2>9. Cardinality(Entries(v)) = Cardinality(P)
    BY <2>2, <2>8, FS_Bijection, Zenon
  <2> QED BY <2>1, <2>9, Zenon DEF Pointers
<1> QED BY <1>1, <1>2, <1>3, Zenon DEF Good

-----------------------------------------------------------------------------
(* The iterator *)

Iters == [desc : Nat, pos : 0 .. PTE_LIST_EXT]

\* The iterator it stands at the entry p of v.
AtEntry(v, it, p) ==
    \/ v \in Sptes /\ it = NoIter /\ p = v
    \/ /\ Chain(v) /\ it.desc \in 1 .. Len(v) /\ it.pos \in Slots
       /\ p = v[it.desc][it.pos]

\* It stands at an entry, or at the end.
Placed(v, it, p) == it \in Iters /\ IF p = NULL THEN it = NoIter ELSE AtEntry(v, it, p)

\* The entries before it.
Before(v, it, p) ==
    IF p = NULL THEN Entries(v)
    ELSE IF it.desc = 0 THEN {}
    ELSE ({v[k][i] : k \in 1 .. it.desc - 1, i \in Slots}
          \cup {v[it.desc][i] : i \in 1 .. it.pos - 1}) \ {NULL}

\* rmap_get_first: nothing is passed yet.
LEMMA FirstIs ==
    ASSUME NEW v, Good(v)
    PROVE  LET it == GetFirstIter(v)  p == GetFirst(v) IN
           p \in Sptes \cup {NULL} /\ Placed(v, it, p) /\ Before(v, it, p) = {}
<1>0. NoIter \in Iters /\ NoIter.desc = 0
  BY ExtNat, SMTT(30) DEF NoIter, Iters
<1>1. CASE v = NULL
  <2>1. GetFirstIter(v) = NoIter /\ GetFirst(v) = NULL
    BY <1>1, Zenon DEF GetFirstIter, GetFirst, NoIter, IsMany
  <2>2. Entries(v) = {}
    BY <1>1 DEF Entries
  <2> QED BY <1>0, <2>1, <2>2 DEF Placed, Before
<1>2. CASE v \in Sptes
  <2>1. GetFirstIter(v) = NoIter /\ GetFirst(v) = v /\ v # NULL
    BY <1>2, RmapAssumption, Zenon DEF GetFirstIter, GetFirst, NoIter, IsMany
  <2> QED BY <1>0, <1>2, <2>1 DEF Placed, Before, AtEntry
<1>3. CASE Chain(v)
  <2> DEFINE it == GetFirstIter(v)  p == GetFirst(v)
  <2>1. IsMany(v) /\ Len(v) \in Nat \ {0} /\ DOMAIN v = 1 .. Len(v)
        /\ \A k \in 1 .. Len(v), i \in Slots : v[k][i] \in Sptes \cup {NULL}
    BY <1>3, ChainFacts, Zenon
  <2>2. it = [desc |-> 1, pos |-> 1] /\ p = v[1][1]
    BY <2>1, Zenon DEF GetFirstIter, GetFirst
  <2>3. v[1][1] # NULL /\ v[1][1] \in Sptes \cup {NULL}
    BY <1>3, <2>1, SlotFacts DEF Chain
  <2>4. it \in Iters /\ it.desc = 1 /\ it.pos = 1
    BY <2>2, ExtNat DEF Iters
  <2> HIDE DEF it, p
  <2>5. AtEntry(v, it, p)
    BY <1>3, <2>1, <2>2, <2>4, SlotFacts, SMTT(30) DEF AtEntry
  <2>6. Before(v, it, p) = {}
    BY <2>2, <2>3, <2>4 DEF Before
  <2> QED BY <2>2, <2>3, <2>4, <2>5, <2>6, ZenonT(60) DEF Placed, it, p
<1> QED BY <1>1, <1>2, <1>3, Zenon DEF Good

\* An entry the iterator stands at is one of the chain that it has not passed.
LEMMA EntryIs ==
    ASSUME NEW v, Good(v), NEW it, NEW p, Placed(v, it, p), p # NULL
    PROVE  p \in Entries(v) /\ p \notin Before(v, it, p) /\ Before(v, it, p) \subseteq Entries(v)
<1>0. AtEntry(v, it, p) /\ it \in Iters
  BY Zenon DEF Placed
<1>1. CASE v \in Sptes /\ it = NoIter /\ p = v
  <2>1. v # NULL /\ Entries(v) = {v}
    BY <1>1, RmapAssumption DEF Entries, IsOne
  <2>2. Before(v, it, p) = {}
    BY <1>1, <2>1 DEF Before, NoIter
  <2> QED BY <1>1, <2>1, <2>2, Zenon
<1>2. CASE /\ Chain(v) /\ it.desc \in 1 .. Len(v) /\ it.pos \in Slots
           /\ p = v[it.desc][it.pos]
  <2> DEFINE d == it.desc  e == it.pos
  <2>1. /\ Len(v) \in Nat \ {0} /\ DOMAIN v = 1 .. Len(v)
        /\ \A t : t \in Entries(v) <=>
             t # NULL /\ \E k \in 1 .. Len(v), i \in Slots : v[k][i] = t
    BY <1>2, ChainFacts
  <2>2. d \in 1 .. Len(v) /\ e \in Slots /\ p = v[d][e]
    BY <1>2, ZenonT(60)
  <2>3. \A t : t \in Before(v, it, p) <=>
            /\ t # NULL
            /\ \/ \E k \in 1 .. d - 1, i \in Slots : v[k][i] = t
               \/ \E i \in 1 .. e - 1 : v[d][i] = t
    BY <2>1, <2>2 DEF Before
  <2> HIDE DEF d, e
  <2>4. p \in Entries(v)
    BY <2>1, <2>2, Zenon
  <2>5. \A k \in 1 .. d - 1 : k \in 1 .. Len(v) /\ k # d
    BY <2>1, <2>2
  <2>6. \A i \in 1 .. e - 1 : i \in Slots /\ i # e
    BY <2>2, ExtNat, SMTT(30) DEF Slots
  <2>7. \A k \in 1 .. d - 1, i \in Slots : v[k][i] # p
    BY <1>2, <2>1, <2>2, <2>5, OnceOf, SMTT(30)
  <2>8. \A i \in 1 .. e - 1 : v[d][i] # p
    BY <1>2, <2>1, <2>2, <2>6, OnceOf, SMTT(30)
  <2>9. p \notin Before(v, it, p)
    BY <2>3, <2>7, <2>8, Zenon
  <2>10. Before(v, it, p) \subseteq Entries(v)
    BY <2>1, <2>2, <2>3, <2>5, <2>6, Zenon
  <2> QED BY <2>4, <2>9, <2>10, Zenon
<1> QED BY <1>0, <1>1, <1>2, Zenon DEF AtEntry

\* rmap_get_next: the entry that was visited is passed, and no other.
LEMMA NextIs ==
    ASSUME NEW v, Good(v), NEW it, NEW p, Placed(v, it, p), p # NULL
    PROVE  LET it2 == GetNextIter(v, it)  p2 == IterSpte(v, it2) IN
           /\ p2 \in Sptes \cup {NULL} /\ Placed(v, it2, p2)
           /\ Before(v, it2, p2) = Before(v, it, p) \cup {p}
<1> DEFINE it2 == GetNextIter(v, it)  p2 == IterSpte(v, it2)
<1>0. AtEntry(v, it, p) /\ it \in Iters /\ NoIter \in Iters /\ NoIter.desc = 0
  BY ExtNat DEF Placed, NoIter, Iters
<1>1. CASE v \in Sptes /\ it = NoIter /\ p = v
  <2>1. v # NULL /\ Entries(v) = {v}
    BY <1>1, RmapAssumption DEF Entries, IsOne
  <2>2. it2 = NoIter /\ p2 = NULL
    BY <1>0, <1>1, Zenon DEF GetNextIter, MoreInDesc, MoreDescs, IterSpte
  <2>3. Before(v, it, p) = {} /\ Before(v, it2, p2) = {v}
    BY <1>0, <1>1, <2>1, <2>2, SMTT(30) DEF Before
  <2> QED BY <1>0, <1>1, <2>2, <2>3, ZenonT(60) DEF Placed
<1>2. CASE /\ Chain(v) /\ it.desc \in 1 .. Len(v) /\ it.pos \in Slots
           /\ p = v[it.desc][it.pos]
  <2> DEFINE d == it.desc  e == it.pos
  <2>1. /\ Len(v) \in Nat \ {0} /\ DOMAIN v = 1 .. Len(v)
        /\ \A k \in 1 .. Len(v), i \in Slots : v[k][i] \in Sptes \cup {NULL}
        /\ \A t : t \in Entries(v) <=>
             t # NULL /\ \E k \in 1 .. Len(v), i \in Slots : v[k][i] = t
    BY <1>2, ChainFacts
  <2>2. /\ d \in 1 .. Len(v) /\ e \in Slots /\ p = v[d][e]
        /\ d # 0 /\ e \in Nat /\ e >= 1 /\ e <= PTE_LIST_EXT
    BY <1>2, ExtNat, SMTT(30) DEF Slots
  <2>3. \A t : t \in Before(v, it, p) <=>
            /\ t # NULL
            /\ \/ \E k \in 1 .. d - 1, i \in Slots : v[k][i] = t
               \/ \E i \in 1 .. e - 1 : v[d][i] = t
    BY <2>1, <2>2 DEF Before
  <2>4. it = [desc |-> d, pos |-> e]
    BY <1>0, Zenon DEF Iters
  <2>5. \A k \in 1 .. Len(v) : v[k][1] # NULL /\ Gapless(v[k])
    BY <1>2, <2>1, ZenonT(60) DEF Chain
  <2>6. CASE MoreInDesc(v, it)
    <3>1. it2 = [desc |-> d, pos |-> e + 1] /\ e + 1 \in Slots /\ v[d][e + 1] # NULL
      BY <2>2, <2>4, <2>6, ExtNat, SMTT(30), Zenon DEF GetNextIter, MoreInDesc, Slots
    <3>2. it2.desc = d /\ it2.pos = e + 1 /\ p2 = v[d][e + 1]
      BY <2>2, <3>1, SMTT(30) DEF IterSpte
    <3>3. it2 \in Iters
      BY <2>1, <2>2, <3>1, ExtNat, SMTT(30) DEF Iters, Slots
    <3> HIDE DEF it2, p2, d, e
    <3>4. \A t : t \in Before(v, it2, p2) <=>
              /\ t # NULL
              /\ \/ \E k \in 1 .. d - 1, i \in Slots : v[k][i] = t
                 \/ \E i \in 1 .. e : v[d][i] = t
      <4>1. 1 .. (e + 1) - 1 = 1 .. e
        BY <2>2
      <4> QED BY <2>2, <3>1, <3>2, <4>1, SMTT(30) DEF Before
    <3>5. \A i : i \in 1 .. e <=> i \in 1 .. e - 1 \/ i = e
      BY <2>2, SMTT(30)
    <3>6. Before(v, it2, p2) = Before(v, it, p) \cup {p}
      BY <2>2, <2>3, <3>4, <3>5, Zenon
    <3>7. Placed(v, it2, p2)
      BY <1>2, <2>2, <3>1, <3>2, <3>3, ZenonT(60) DEF Placed, AtEntry
    <3> QED BY <2>1, <2>2, <3>1, <3>2, <3>6, <3>7, SMTT(30) DEF it2, p2
  <2>7. CASE ~MoreInDesc(v, it)
    <3>1. \A i \in Slots : v[d][i] # NULL => i <= e
      <4>1. ASSUME NEW i \in Slots, v[d][i] # NULL, i > e PROVE FALSE
        <5>1. e < PTE_LIST_EXT /\ e + 1 \in Slots /\ e + 1 <= i
          BY <2>2, <4>1, ExtNat, SMTT(30) DEF Slots
        <5>2. v[d][e + 1] = NULL
          BY <2>2, <2>7, <5>1, ZenonT(60) DEF MoreInDesc
        <5> QED BY <2>2, <2>5, <4>1, <5>1, <5>2, ExtNat, SMTT(30) DEF Gapless, Slots
      <4> QED BY <2>2, <4>1, ExtNat, SMTT(30) DEF Slots
    <3>2. ASSUME NEW t
          PROVE  t \in Before(v, it, p) \cup {p} <=>
                     t # NULL /\ \E k \in 1 .. d, i \in Slots : v[k][i] = t
      <4>1. \A k : k \in 1 .. d <=> k \in 1 .. d - 1 \/ k = d
        BY <2>1, <2>2, SMTT(30)
      <4>2. ASSUME t # NULL PROVE (\E i \in Slots : v[d][i] = t) <=>
                                  (t = p \/ \E i \in 1 .. e - 1 : v[d][i] = t)
        <5>1. \A i \in 1 .. e - 1 : i \in Slots
          BY <2>2, ExtNat, SMTT(30) DEF Slots
        <5>2. ASSUME NEW i \in Slots, v[d][i] = t PROVE i = e \/ i \in 1 .. e - 1
          BY <2>2, <3>1, <4>2, <5>2, ExtNat, SMTT(30) DEF Slots
        <5> QED BY <2>2, <5>1, <5>2, ZenonT(60)
      <4> HIDE DEF d, e
      <4> QED BY <2>3, <4>1, <4>2, ZenonT(60)
    <3>3. CASE MoreDescs(v, it)
      <4>1. it2 = [desc |-> d + 1, pos |-> 1] /\ d + 1 \in 1 .. Len(v)
        BY <2>1, <2>2, <2>4, <2>7, <3>3, SMTT(30), Zenon DEF GetNextIter, MoreDescs
      <4>2. it2.desc = d + 1 /\ it2.pos = 1 /\ p2 = v[d + 1][1] /\ p2 # NULL
        BY <2>1, <2>2, <2>5, <4>1, SMTT(30) DEF IterSpte
      <4>3. it2 \in Iters
        BY <2>1, <2>2, <4>1, ExtNat, SMTT(30) DEF Iters
      <4> HIDE DEF it2, p2, d, e
      <4>4. \A t : t \in Before(v, it2, p2) <=>
                t # NULL /\ \E k \in 1 .. d, i \in Slots : v[k][i] = t
        <5>1. it2.desc # 0 /\ it2.desc - 1 = d /\ it2.pos - 1 = 0
          BY <2>1, <2>2, <4>2, SMTT(30)
        <5>2. \A t : t \in Before(v, it2, p2) <=>
                  /\ t # NULL
                  /\ \/ \E k \in 1 .. d, i \in Slots : v[k][i] = t
                     \/ \E i \in 1 .. 0 : v[it2.desc][i] = t
          BY <4>2, <5>1 DEF Before
        <5> QED BY <5>2
      <4>5. Before(v, it2, p2) = Before(v, it, p) \cup {p}
        BY <3>2, <4>4, Zenon
      <4>6. Placed(v, it2, p2)
        BY <1>2, <4>1, <4>2, <4>3, SlotFacts, ZenonT(60) DEF Placed, AtEntry
      <4>7. p2 \in Sptes \cup {NULL}
        BY <2>1, <4>1, <4>2, SlotFacts, ZenonT(60)
      <4> QED BY <4>5, <4>6, <4>7, Zenon DEF it2, p2
    <3>4. CASE ~MoreDescs(v, it)
      <4>1. it2 = NoIter /\ p2 = NULL
        BY <1>0, <2>7, <3>4, ZenonT(60) DEF GetNextIter, IterSpte
      <4>2. d = Len(v)
        BY <2>1, <2>2, <3>4, SMTT(30) DEF MoreDescs
      <4> HIDE DEF it2, p2, d, e
      <4>3. Before(v, it2, p2) = Entries(v)
        BY <4>1 DEF Before
      <4>4. Before(v, it2, p2) = Before(v, it, p) \cup {p}
        BY <2>1, <3>2, <4>2, <4>3, ZenonT(60)
      <4> QED BY <1>0, <4>1, <4>4, Zenon DEF Placed, it2, p2
    <3> QED BY <3>3, <3>4, Zenon
  <2> QED BY <2>6, <2>7, Zenon
<1> QED BY <1>0, <1>1, <1>2, Zenon DEF AtEntry

-----------------------------------------------------------------------------
(* The inductive invariant *)

\* Every head is well-formed and holds the sptes that point to it.
Exact ==
    /\ head = [h \in Heads |-> head[h]]
    /\ \A h \in Heads : Good(head[h]) /\ Entries(head[h]) = {s \in Sptes : target[s] = h}

\* The cache has a descriptor for every entry the fault may still add.
Stocked ==
    /\ target \in [Sptes -> Heads \cup {NoHead}]
    /\ nobjs \in 0 .. CacheSize /\ left \in 0 .. FaultAdds
    /\ left <= nobjs
    /\ bug = "none"

\* A loop stands at an entry of its head or at its end, and has passed no entry that it
\* is to drop.
Looping ==
    /\ at \in Heads \cup {NoHead} /\ doomed \in SUBSET Sptes /\ sptep \in Sptes \cup {NULL}
    /\ at = NoHead => sptep = NULL /\ iter = NoIter /\ doomed = {}
    /\ at # NoHead => Placed(head[at], iter, sptep) /\ Passed \cap doomed = {}

\* A chain of a frame is full to the last slot only in a loop that drops all of it.
Short ==
    \A f \in Frames :
        /\ IsMany(head[f]) => Len(head[f]) <= MaxDescs
        /\ Topped(head[f]) => at = f /\ Entries(head[f]) \subseteq doomed

RmapInv == Exact /\ Stocked /\ Looping /\ Short

\* The heads as a whole: what the three clauses about head say of any such function.
Fine(heads, tgt) ==
    /\ heads = [h \in Heads |-> heads[h]]
    /\ \A h \in Heads : Good(heads[h]) /\ Entries(heads[h]) = {s \in Sptes : tgt[s] = h}

LEMMA PassedIs ==
    ASSUME at # NoHead
    PROVE  Passed = Before(head[at], iter, sptep)
BY DEF Passed, Before

LEMMA HeadFacts == /\ NoHead \notin Heads /\ Frames \subseteq Heads /\ Pages \subseteq Heads
                   /\ NULL \notin Sptes /\ Frames \cap Pages = {}
BY RmapAssumption, Zenon DEF Heads

\* The invariant gives the properties that TLC checks.
LEMMA InvGives == RmapInv => TypeOK /\ NoBug /\ RmapsExact /\ ChainsPacked /\ ChainBounded
<1> SUFFICES ASSUME RmapInv PROVE TypeOK /\ NoBug /\ RmapsExact /\ ChainsPacked /\ ChainBounded
  BY Zenon
<1>1. \A h \in Heads : Good(head[h]) /\ Entries(head[h]) = {s \in Sptes : target[s] = h}
  BY Zenon DEF RmapInv, Exact
<1>2. TypeOK
  <2>1. \A h \in Heads : head[h] \in {NULL} \cup Sptes \/ head[h] \in Seq(Descs)
    BY <1>1, Zenon DEF Good, Chain
  <2>2. iter \in Iters
    <3>1. CASE at = NoHead
      BY <3>1, ExtNat DEF RmapInv, Looping, NoIter, Iters
    <3>2. CASE at # NoHead
      BY <3>2, Zenon DEF RmapInv, Looping, Placed
    <3> QED BY <3>1, <3>2, Zenon
  <2> QED BY <2>1, <2>2, Zenon DEF TypeOK, RmapInv, Stocked, Looping, Iters
<1>3. NoBug
  <2>1. ASSUME at # NoHead, sptep # NULL PROVE Present(sptep)
    <3>1. at \in Heads /\ Placed(head[at], iter, sptep)
      BY <2>1, Zenon DEF RmapInv, Looping
    <3>2. sptep \in Entries(head[at])
      BY <1>1, <2>1, <3>1, EntryIs, Zenon
    <3> QED BY <1>1, <2>1, <3>1, <3>2, Zenon DEF Present
  <2> QED BY <2>1, Zenon DEF NoBug, IteratorBug, RmapInv, Stocked
<1>4. RmapsExact
  BY <1>1, PointersCount, Zenon DEF RmapsExact
<1>5. ChainsPacked
  <2>1. ASSUME NEW h \in Heads, IsMany(head[h])
        PROVE  /\ head[h] # << >>
               /\ \A k \in DOMAIN head[h] :
                    /\ head[h][k][1] # NULL
                    /\ \A i \in Slots \ {1} : head[h][k][i] # NULL => head[h][k][i - 1] # NULL
    <3>1. Chain(head[h])
      BY <1>1, <2>1, Zenon DEF Good, IsMany
    <3>2. \A i \in Slots \ {1} : i - 1 \in Slots /\ i - 1 < i
      BY ExtNat DEF Slots
    <3> QED BY <3>1, <3>2, Zenon DEF Chain, Gapless
  <2> QED BY <2>1, Zenon DEF ChainsPacked
<1>6. ChainBounded
  BY Zenon DEF RmapInv, Short, ChainBounded, MaxDescs
<1> QED BY <1>2, <1>3, <1>4, <1>5, <1>6, Zenon

-----------------------------------------------------------------------------
(* What the parts of the actions do *)

\* drop_spte: s leaves the head it is at, which is found without a BUG.
LEMMA HeadsWithoutIs ==
    ASSUME RmapInv, NEW s \in Sptes
    PROVE  LET hs == HeadsWithout(s)  tg == [target EXCEPT ![s] = NoHead] IN
           /\ ~DropBug(s)
           /\ Fine(hs, tg)
           /\ \A h \in Heads : Entries(hs[h]) = Entries(head[h]) \ {s}
           /\ \A h \in Heads : h # target[s] => hs[h] = head[h]
           /\ \A f \in Frames : /\ IsMany(hs[f]) => Len(hs[f]) <= MaxDescs
                                /\ Topped(hs[f]) => Topped(head[f])
<1> DEFINE hs == HeadsWithout(s)  tg == [target EXCEPT ![s] = NoHead]
<1>1. /\ head = [h \in Heads |-> head[h]]
      /\ \A h \in Heads : Good(head[h]) /\ Entries(head[h]) = {x \in Sptes : target[x] = h}
      /\ target \in [Sptes -> Heads \cup {NoHead}]
      /\ \A f \in Frames : IsMany(head[f]) => Len(head[f]) <= MaxDescs
  BY Zenon DEF RmapInv, Exact, Stocked, Short
<1>2. /\ tg \in [Sptes -> Heads \cup {NoHead}] /\ tg[s] = NoHead
      /\ \A x \in Sptes : x # s => tg[x] = target[x]
  BY <1>1, Zenon
<1> HIDE DEF tg
<1>3. CASE ~Present(s)
  <2>1. hs = head /\ ~DropBug(s) /\ target[s] = NoHead
    BY <1>3, Zenon DEF HeadsWithout, DropBug, Present
  <2>2. \A h \in Heads : s \notin Entries(head[h])
    BY <1>1, <2>1, HeadFacts, Zenon
  <2>3. \A h \in Heads : {x \in Sptes : tg[x] = h} = {x \in Sptes : target[x] = h}
    BY <1>2, <2>1, HeadFacts, Zenon
  <2>4. \A h \in Heads : Entries(head[h]) = Entries(head[h]) \ {s}
    BY <2>2, Zenon
  <2> QED BY <1>1, <2>1, <2>3, <2>4, HeadFacts, ZenonT(60) DEF Fine, tg
<1>4. CASE Present(s)
  <2> DEFINE g == target[s]  w == PteListRemove(s, head[g])
  <2>1. g \in Heads /\ s \in Entries(head[g])
    BY <1>1, <1>4, Zenon DEF Present
  <2>2. /\ Good(w) /\ Entries(w) = Entries(head[g]) \ {s}
        /\ IsMany(w) => IsMany(head[g]) /\ Len(w) <= Len(head[g])
        /\ Topped(w) => Topped(head[g]) \/ Len(head[g]) > MaxDescs
    BY <1>1, <2>1, RemoveIs, Zenon
  <2>3. ~DropBug(s)
    BY <1>1, <2>1, FoundIs, Zenon DEF DropBug
  <2>4. hs = [head EXCEPT ![g] = w]
    BY <1>4, Zenon DEF HeadsWithout
  <2> HIDE DEF w, hs
  <2>5. hs = [h \in Heads |-> hs[h]] /\ \A h \in Heads : hs[h] = IF h = g THEN w ELSE head[h]
    BY <1>1, <2>1, <2>4, Zenon
  <2>6. \A h \in Heads : h # g => s \notin Entries(head[h])
    BY <1>1, Zenon
  <2>7. \A h \in Heads : Good(hs[h]) /\ Entries(hs[h]) = Entries(head[h]) \ {s}
    BY <1>1, <2>2, <2>5, <2>6, ZenonT(60)
  <2>8. \A h \in Heads : Entries(head[h]) \ {s} = {x \in Sptes : tg[x] = h}
    BY <1>1, <1>2, HeadFacts, SMTT(30)
  <2>9. ASSUME NEW f \in Frames
        PROVE  /\ IsMany(hs[f]) => Len(hs[f]) <= MaxDescs
               /\ Topped(hs[f]) => Topped(head[f])
    <3>1. CASE f # g
      BY <1>1, <2>5, <3>1, HeadFacts, ZenonT(60)
    <3>2. CASE f = g
      <4>1. hs[f] = w /\ MaxDescs \in Nat
        BY <2>1, <2>5, <3>2, ThresholdPassed, Zenon
      <4>2. IsMany(w) => /\ Len(w) \in Nat /\ Len(head[f]) \in Nat
                         /\ Len(w) <= Len(head[f]) /\ Len(head[f]) <= MaxDescs
        <5>1. ASSUME IsMany(w) PROVE Chain(w) /\ Chain(head[f])
          BY <1>1, <2>1, <2>2, <3>2, <5>1, ZenonT(60) DEF Good, IsMany
        <5> QED BY <1>1, <2>2, <3>2, <5>1, ChainFacts, ZenonT(60)
      <4>3. Topped(w) => Topped(head[f])
        BY <2>2, <3>2, <4>1, <4>2 DEF Topped
      <4> QED BY <4>1, <4>2, <4>3, SMTT(30)
    <3> QED BY <3>1, <3>2, Zenon
  <2> QED BY <2>3, <2>5, <2>7, <2>8, <2>9, ZenonT(60) DEF Fine, tg, hs
<1> QED BY <1>3, <1>4, Zenon

\* The spte becomes an entry of h and of no other head; with a descriptor to spare there
\* is no BUG; and only an addition that recycles fills the last descriptor there may be.
LEMMA InsertIs ==
    ASSUME RmapInv, at = NoHead, NEW s \in Sptes, NEW h \in Heads, NEW n \in 1 .. CacheSize,
           Insert(s, h, HeadsWithout(s), n)
    PROVE  /\ Exact' /\ target' \in [Sptes -> Heads \cup {NoHead}]
           /\ nobjs' \in 0 .. CacheSize /\ nobjs' >= n - 1 /\ bug' = "none"
           /\ \A g \in Heads : Entries(head'[g]) = IF g = h THEN Entries(head[g]) \cup {s}
                                                    ELSE Entries(head[g]) \ {s}
           /\ \A f \in Frames :
                 /\ IsMany(head'[f]) => Len(head'[f]) <= MaxDescs
                 /\ Topped(head'[f]) => f = h /\ Recycles(HeadsWithout(s)[h])
<1> DEFINE hs == HeadsWithout(s)  tg == [target EXCEPT ![s] = NoHead]  v == hs[h]
           w == PteListAdd(s, v)
<1>1. /\ ~DropBug(s) /\ Fine(hs, tg)
      /\ \A g \in Heads : Entries(hs[g]) = Entries(head[g]) \ {s}
      /\ \A f \in Frames : /\ IsMany(hs[f]) => Len(hs[f]) <= MaxDescs
                           /\ Topped(hs[f]) => Topped(head[f])
  BY HeadsWithoutIs, Zenon
<1>2. /\ head' = [hs EXCEPT ![h] = w] /\ target' = [target EXCEPT ![s] = h]
      /\ nobjs' = IF NeedsDesc(v) /\ n > 0 THEN n - 1 ELSE n
      /\ bug' = IF DropBug(s) THEN "remove" ELSE IF NeedsDesc(v) /\ n = 0 THEN "cache"
                ELSE "none"
  BY Zenon DEF Insert
<1>3. /\ target \in [Sptes -> Heads \cup {NoHead}] /\ CacheSize \in Nat
      /\ \A f \in Frames : ~Topped(head[f])
  BY RmapAssumption, HeadFacts, Zenon DEF RmapInv, Stocked, Short
<1>4. nobjs' \in 0 .. CacheSize /\ nobjs' >= n - 1 /\ bug' = "none"
  BY <1>1, <1>2, <1>3, SMTT(30)
<1>5. /\ \A g \in Heads : Good(hs[g]) /\ Entries(hs[g]) = {x \in Sptes : tg[x] = g}
      /\ hs = [g \in Heads |-> hs[g]]
  BY <1>1, Zenon DEF Fine
<1>6. /\ Good(w) /\ Entries(w) = Entries(v) \cup {s}
      /\ Fits(v) => (IsMany(w) => Len(w) <= MaxDescs) /\ (Topped(w) => Recycles(v))
  <2>1. Good(v) /\ s \notin Entries(v)
    BY <1>1, <1>5, Zenon
  <2> QED BY <2>1, AddIs, Zenon
<1>7. target' \in [Sptes -> Heads \cup {NoHead}] /\ target'[s] = h
      /\ \A x \in Sptes : x # s => target'[x] = target[x]
  BY <1>2, <1>3, Zenon
<1> HIDE DEF hs, w
<1>8. /\ head' = [g \in Heads |-> head'[g]]
      /\ \A g \in Heads : head'[g] = IF g = h THEN w ELSE hs[g]
  BY <1>2, <1>5, Zenon
<1>9. \A g \in Heads : Entries(head'[g]) = IF g = h THEN Entries(head[g]) \cup {s}
                                            ELSE Entries(head[g]) \ {s}
  <2>1. Entries(w) = Entries(head[h]) \cup {s}
    BY <1>1, <1>6, Zenon
  <2> QED BY <1>1, <1>8, <2>1, Zenon
<1>10. \A g \in Heads : Entries(head[g]) = {x \in Sptes : target[x] = g}
  BY Zenon DEF RmapInv, Exact
<1>11. ASSUME NEW g \in Heads PROVE Entries(head'[g]) = {x \in Sptes : target'[x] = g}
  <2>1. Entries(head[g]) = {x \in Sptes : target[x] = g}
    BY <1>10, Zenon
  <2>2. CASE g = h
    <3>1. Entries(head'[g]) = Entries(head[g]) \cup {s}
      BY <1>9, <2>2, Zenon
    <3> QED BY <1>7, <2>1, <2>2, <3>1, ZenonT(60)
  <2>3. CASE g # h
    <3>1. Entries(head'[g]) = Entries(head[g]) \ {s}
      BY <1>9, <2>3, Zenon
    <3> QED BY <1>7, <2>1, <2>3, <3>1, Zenon
  <2> QED BY <2>2, <2>3, Zenon
<1>12. \A g \in Heads : Good(head'[g])
  BY <1>5, <1>6, <1>8, Zenon
<1>13. Exact'
  BY <1>8, <1>11, <1>12, Zenon DEF Exact
<1>14. ASSUME NEW f \in Frames
       PROVE  /\ IsMany(head'[f]) => Len(head'[f]) <= MaxDescs
              /\ Topped(head'[f]) => f = h /\ Recycles(v)
  <2>1. CASE f # h
    BY <1>1, <1>3, <1>8, <2>1, HeadFacts, ZenonT(60)
  <2>2. CASE f = h
    <3>1. Fits(v)
      BY <1>1, <1>3, <2>2, Zenon DEF Fits
    <3> QED BY <1>6, <1>8, <2>2, <3>1, Zenon
  <2> QED BY <2>1, <2>2, Zenon
<1> QED BY <1>4, <1>7, <1>9, <1>13, <1>14, ZenonT(60) DEF hs

\* A loop starts at the first entry of its head.
LEMMA StartLoopIs ==
    ASSUME NEW h \in Heads, Good(head'[h]), NEW drop \in SUBSET Sptes,
           StartLoop(h, head'[h], drop)
    PROVE  Looping' /\ Passed' = {} /\ at' = h /\ doomed' = drop
<1> DEFINE v == head'[h]  it == GetFirstIter(v)  p == GetFirst(v)
<1>1. at' = h /\ doomed' = drop /\ iter' = it /\ sptep' = p
  BY Zenon DEF StartLoop
<1>2. p \in Sptes \cup {NULL} /\ Placed(v, it, p) /\ Before(v, it, p) = {}
  BY FirstIs, Zenon
<1>3. at' # NoHead
  BY <1>1, HeadFacts, Zenon
<1>4. Passed' = Before(v, it, p)
  <2>1. Passed' = Before(head'[at'], iter', sptep')
    BY <1>3 DEF Passed, Before
  <2> QED BY <1>1, <2>1, Zenon
<1>5. Placed(head'[at'], iter', sptep')
  BY <1>1, <1>2, ZenonT(60)
<1> QED BY <1>1, <1>2, <1>3, <1>4, <1>5, Zenon DEF Looping

-----------------------------------------------------------------------------
(* One step *)

\* The steps of Rmaps, as what they do to the set of each head: an spte joins one head
\* and leaves the others, leaves its head, or a loop over h begins.
Joins(s, h) ==
    /\ at = NoHead /\ Passed' = {}
    /\ \A g \in Heads : Entries(head'[g]) = IF g = h THEN Entries(head[g]) \cup {s}
                                             ELSE Entries(head[g]) \ {s}
    /\ \/ at' = NoHead /\ doomed' = {}
       \/ at' = h /\ doomed' = Entries(head'[h])
Leaves(s) ==
    /\ Present(s)
    /\ \A g \in Heads : Entries(head'[g]) = Entries(head[g]) \ {s}
    /\ Passed' = {}
    /\ UNCHANGED <<at, doomed>>

\* Where no loop runs before or after, nothing is passed.
LEMMA NoLoop ==
    ASSUME Looping, at = NoHead, UNCHANGED loopVars
    PROVE  Looping' /\ Passed = {} /\ Passed' = {}
BY DEF Looping, Passed, loopVars

LEMMA MmuSetSpteStep ==
    ASSUME RmapInv, at = NoHead, NEW s \in Sptes, NEW f \in Frames, NEW n \in 1 .. CacheSize,
           MmuSetSpte(s, f, HeadsWithout(s), n), left' \in 0 .. FaultAdds, left' <= n - 1
    PROVE  RmapInv' /\ Joins(s, f)
<1>1. f \in Heads /\ Looping /\ doomed = {}
  BY HeadFacts, Zenon DEF RmapInv, Looping
<1>2. Insert(s, f, HeadsWithout(s), n)
  BY Zenon DEF MmuSetSpte
<1>3. /\ Exact' /\ target' \in [Sptes -> Heads \cup {NoHead}]
      /\ nobjs' \in 0 .. CacheSize /\ nobjs' >= n - 1 /\ bug' = "none"
      /\ \A g \in Heads : Entries(head'[g]) = IF g = f THEN Entries(head[g]) \cup {s}
                                               ELSE Entries(head[g]) \ {s}
      /\ \A g \in Frames :
            /\ IsMany(head'[g]) => Len(head'[g]) <= MaxDescs
            /\ Topped(head'[g]) => g = f /\ Recycles(HeadsWithout(s)[f])
  BY <1>1, <1>2, InsertIs, ZenonT(60)
<1>4. Stocked'
  BY <1>3, RmapAssumption DEF Stocked
<1>5. CASE Recycles(HeadsWithout(s)[f])
  <2>1. StartLoop(f, head'[f], Entries(head'[f]))
    BY <1>5, Zenon DEF MmuSetSpte
  <2>2. Good(head'[f]) /\ Entries(head'[f]) \in SUBSET Sptes
    BY <1>1, <1>3, Zenon DEF Exact
  <2>3. Looping' /\ Passed' = {} /\ at' = f /\ doomed' = Entries(head'[f])
    BY <1>1, <2>1, <2>2, StartLoopIs, ZenonT(60)
  <2>4. Short'
    BY <1>3, <2>3, Zenon DEF Short
  <2> QED BY <1>3, <1>4, <2>3, <2>4, ZenonT(60) DEF RmapInv, Joins
<1>6. CASE ~Recycles(HeadsWithout(s)[f])
  <2>1. UNCHANGED loopVars
    BY <1>6, Zenon DEF MmuSetSpte
  <2>2. Looping' /\ Passed' = {} /\ at' = NoHead /\ doomed' = {}
    BY <1>1, <2>1, NoLoop, Zenon DEF loopVars
  <2>3. Short'
    BY <1>3, <1>6, Zenon DEF Short
  <2> QED BY <1>3, <1>4, <2>2, <2>3, ZenonT(60) DEF RmapInv, Joins
<1> QED BY <1>5, <1>6, Zenon

LEMMA LinkStep ==
    ASSUME RmapInv, NEW s \in Sptes, NEW p \in Pages, LinkShadowPage(s, p)
    PROVE  RmapInv' /\ Joins(s, p)
<1>1. /\ at = NoHead /\ left > 0 /\ ~Present(s) /\ left' = left - 1
      /\ Insert(s, p, head, nobjs) /\ UNCHANGED loopVars
  BY Zenon DEF LinkShadowPage, Running
<1>2. p \in Heads /\ Looping /\ doomed = {} /\ HeadsWithout(s) = head
  BY <1>1, HeadFacts, Zenon DEF RmapInv, Looping, HeadsWithout
<1>3. nobjs \in 1 .. CacheSize /\ left \in 1 .. FaultAdds /\ left <= nobjs
  BY <1>1, RmapAssumption DEF RmapInv, Stocked
<1>4. /\ Exact' /\ target' \in [Sptes -> Heads \cup {NoHead}]
      /\ nobjs' \in 0 .. CacheSize /\ nobjs' >= nobjs - 1 /\ bug' = "none"
      /\ \A g \in Heads : Entries(head'[g]) = IF g = p THEN Entries(head[g]) \cup {s}
                                               ELSE Entries(head[g]) \ {s}
      /\ \A g \in Frames : /\ IsMany(head'[g]) => Len(head'[g]) <= MaxDescs
                           /\ Topped(head'[g]) => g = p
  BY <1>1, <1>2, <1>3, InsertIs, ZenonT(60)
<1>5. Stocked'
  BY <1>1, <1>3, <1>4, RmapAssumption DEF Stocked
<1>6. Looping' /\ Passed' = {} /\ at' = NoHead /\ doomed' = {}
  BY <1>1, <1>2, NoLoop, Zenon DEF loopVars
<1>7. Short'
  BY <1>4, HeadFacts, Zenon DEF Short
<1> QED BY <1>1, <1>4, <1>5, <1>6, <1>7, ZenonT(60) DEF RmapInv, Joins

LEMMA MapFrameStep ==
    ASSUME RmapInv, NEW s \in Sptes, NEW f \in Frames, MapFrame(s, f)
    PROVE  RmapInv' /\ Joins(s, f)
<1>1. /\ at = NoHead /\ left > 0 /\ left' = left - 1
      /\ MmuSetSpte(s, f, HeadsWithout(s), nobjs)
  BY Zenon DEF MapFrame, Running
<1>2. nobjs \in 1 .. CacheSize /\ left' \in 0 .. FaultAdds /\ left' <= nobjs - 1
  BY <1>1, RmapAssumption DEF RmapInv, Stocked
<1> QED BY <1>1, <1>2, MmuSetSpteStep, Zenon

LEMMA TopupIs ==
    ASSUME RmapInv, NEW n \in TopupResults
    PROVE  n \in 0 .. CacheSize /\ (ToppedUp(n) => FaultAdds <= n)
BY RmapAssumption DEF RmapInv, Stocked, TopupResults, ToppedUp

LEMMA PteWriteStep ==
    ASSUME RmapInv, NEW n \in TopupResults, NEW s \in Sptes, NEW f \in Frames, PteWrite(s, f, n)
    PROVE  RmapInv' /\ Joins(s, f)
<1>1. /\ at = NoHead /\ n > 0 /\ left' = 0
      /\ MmuSetSpte(s, f, HeadsWithout(s), n)
  BY Zenon DEF PteWrite, Running
<1>2. n \in 1 .. CacheSize /\ left' \in 0 .. FaultAdds /\ left' <= n - 1
  BY <1>1, TopupIs, RmapAssumption
<1> QED BY <1>1, <1>2, MmuSetSpteStep, Zenon

\* A step that leaves the heads and the loop alone.
LEMMA BeginFaultStep ==
    ASSUME RmapInv, NEW n \in TopupResults, BeginFault(n)
    PROVE  RmapInv' /\ UNCHANGED <<head, at, doomed>> /\ Passed' = Passed
<1>1. /\ at = NoHead /\ nobjs' = n /\ left' = IF ToppedUp(n) THEN FaultAdds ELSE 0
      /\ UNCHANGED <<head, target, loopVars, bug>>
  BY Zenon DEF BeginFault, Running
<1>2. Looping' /\ Passed' = Passed /\ UNCHANGED <<at, doomed>>
  BY <1>1, NoLoop, Zenon DEF RmapInv, loopVars
<1>3. Stocked'
  BY <1>1, TopupIs, RmapAssumption DEF RmapInv, Stocked
<1>4. Exact' /\ Short'
  BY <1>1, <1>2, Zenon DEF RmapInv, Exact, Short
<1> QED BY <1>1, <1>2, <1>3, <1>4, ZenonT(60) DEF RmapInv

LEMMA BeginStep ==
    ASSUME RmapInv, NEW h \in Heads, NEW drop \in SUBSET Entries(head[h]), Begin(h, drop)
    PROVE  /\ RmapInv' /\ at = NoHead /\ at' = h /\ doomed' = drop
           /\ UNCHANGED head /\ Passed = {} /\ Passed' = {}
<1>1. at = NoHead /\ StartLoop(h, head[h], drop) /\ UNCHANGED <<head, target, nobjs, left, bug>>
  BY Zenon DEF Begin, Running
<1>2. Good(head[h]) /\ drop \in SUBSET Sptes
  BY Zenon DEF RmapInv, Exact
<1>3. Looping' /\ Passed' = {} /\ at' = h /\ doomed' = drop
  BY <1>1, <1>2, StartLoopIs, ZenonT(60)
<1>4. Passed = {}
  BY <1>1 DEF Passed
<1>5. \A f \in Frames : ~Topped(head[f])
  BY <1>1, HeadFacts, Zenon DEF RmapInv, Short
<1>6. Short'
  BY <1>1, <1>5, Zenon DEF RmapInv, Short
<1>7. Exact' /\ Stocked'
  BY <1>1, Zenon DEF RmapInv, Exact, Stocked
<1> QED BY <1>1, <1>3, <1>4, <1>6, <1>7, ZenonT(60) DEF RmapInv

LEMMA DropSpteStep ==
    ASSUME RmapInv, NEW s \in Sptes, DropSpte(s)
    PROVE  RmapInv' /\ at = NoHead /\ Leaves(s)
<1>1. /\ at = NoHead /\ Present(s) /\ head' = HeadsWithout(s)
      /\ target' = [target EXCEPT ![s] = NoHead]
      /\ bug' = IF DropBug(s) THEN "remove" ELSE "none"
      /\ UNCHANGED <<nobjs, left, loopVars>>
  BY Zenon DEF DropSpte, Running
<1>2. /\ ~DropBug(s) /\ Fine(head', target')
      /\ \A h \in Heads : Entries(head'[h]) = Entries(head[h]) \ {s}
      /\ \A f \in Frames : /\ IsMany(head'[f]) => Len(head'[f]) <= MaxDescs
                           /\ Topped(head'[f]) => Topped(head[f])
  BY <1>1, HeadsWithoutIs, Zenon
<1>3. Exact'
  BY <1>2, Zenon DEF Fine, Exact
<1>4. Looping' /\ Passed' = {} /\ UNCHANGED <<at, doomed>>
  BY <1>1, NoLoop, Zenon DEF RmapInv, loopVars
<1>5. target' \in [Sptes -> Heads \cup {NoHead}]
  BY <1>1, Zenon DEF RmapInv, Stocked
<1>6. Stocked'
  BY <1>1, <1>2, <1>5, Zenon DEF RmapInv, Stocked
<1>7. Short'
  BY <1>1, <1>2, HeadFacts, ZenonT(60) DEF RmapInv, Short
<1> QED BY <1>1, <1>2, <1>3, <1>4, <1>6, <1>7, ZenonT(60) DEF RmapInv, Leaves

LEMMA LoopVisitStep ==
    ASSUME RmapInv, LoopVisit
    PROVE  /\ RmapInv' /\ at # NoHead /\ at \in Heads /\ sptep \in Sptes
           /\ sptep \in Entries(head[at]) /\ sptep \notin Passed /\ sptep \notin doomed
           /\ Passed' = Passed \cup {sptep} /\ UNCHANGED <<head, at, doomed>>
<1> DEFINE v == head[at]  it2 == GetNextIter(v, iter)  p2 == IterSpte(v, it2)
<1>1. /\ at # NoHead /\ sptep # NULL /\ sptep \notin doomed
      /\ iter' = it2 /\ sptep' = p2
      /\ bug' = IF IteratorBug THEN "iterator" ELSE "none"
      /\ UNCHANGED <<head, target, nobjs, left, at, doomed>>
  BY Zenon DEF LoopVisit
<1>2. /\ at \in Heads /\ Good(v) /\ Placed(v, iter, sptep) /\ Passed \cap doomed = {}
      /\ sptep \in Sptes /\ doomed \in SUBSET Sptes
      /\ Entries(v) = {s \in Sptes : target[s] = at}
  BY <1>1, Zenon DEF RmapInv, Exact, Looping
<1>3. sptep \in Entries(v) /\ sptep \notin Before(v, iter, sptep)
  BY <1>1, <1>2, EntryIs, Zenon
<1>4. /\ p2 \in Sptes \cup {NULL} /\ Placed(v, it2, p2)
      /\ Before(v, it2, p2) = Before(v, iter, sptep) \cup {sptep}
  BY <1>1, <1>2, NextIs, Zenon
<1>5. Passed = Before(v, iter, sptep)
  BY <1>1, PassedIs, Zenon
<1>6. Passed' = Before(v, it2, p2)
  <2>1. Passed' = Before(head'[at'], iter', sptep')
    BY <1>1, SMTT(30) DEF Passed, Before
  <2> QED BY <1>1, <2>1, ZenonT(60)
<1>7. bug' = "none"
  BY <1>1, <1>2, <1>3, Zenon DEF IteratorBug, Present
<1> HIDE DEF it2, p2
<1>8. Looping'
  <2>1. Placed(head'[at'], iter', sptep')
    BY <1>1, <1>4, Zenon
  <2>2. Passed' \cap doomed' = {}
    BY <1>1, <1>2, <1>4, <1>5, <1>6, ZenonT(60)
  <2> QED BY <1>1, <1>2, <1>4, <2>1, <2>2, ZenonT(60) DEF Looping
<1>9. Exact' /\ Short'
  BY <1>1, Zenon DEF RmapInv, Exact, Short
<1>10. Stocked'
  BY <1>1, <1>7, ZenonT(60) DEF RmapInv, Stocked
<1> QED BY <1>1, <1>2, <1>3, <1>4, <1>5, <1>6, <1>8, <1>9, <1>10, SMTT(30) DEF RmapInv

LEMMA LoopDropStep ==
    ASSUME RmapInv, LoopDrop
    PROVE  /\ RmapInv' /\ at # NoHead /\ at \in Heads /\ sptep \in Sptes
           /\ sptep \in Entries(head[at]) /\ sptep \notin Passed /\ sptep \in doomed
           /\ Leaves(sptep)
<1>1. /\ at # NoHead /\ sptep \in doomed
      /\ head' = HeadsWithout(sptep) /\ target' = [target EXCEPT ![sptep] = NoHead]
      /\ iter' = GetFirstIter(head'[at]) /\ sptep' = GetFirst(head'[at])
      /\ bug' = IF IteratorBug THEN "iterator" ELSE IF DropBug(sptep) THEN "remove" ELSE "none"
      /\ UNCHANGED <<nobjs, left, at, doomed>>
  BY Zenon DEF LoopDrop
<1>2. /\ at \in Heads /\ Good(head[at]) /\ Placed(head[at], iter, sptep)
      /\ doomed \in SUBSET Sptes
      /\ Entries(head[at]) = {s \in Sptes : target[s] = at}
  BY <1>1, Zenon DEF RmapInv, Exact, Looping
<1>3. sptep \in Sptes /\ sptep # NULL
  BY <1>1, <1>2, HeadFacts, Zenon
<1>4. sptep \in Entries(head[at]) /\ sptep \notin Passed
  BY <1>1, <1>2, <1>3, EntryIs, PassedIs, Zenon
<1>5. /\ ~DropBug(sptep) /\ Fine(head', target')
      /\ \A h \in Heads : Entries(head'[h]) = Entries(head[h]) \ {sptep}
      /\ \A f \in Frames : /\ IsMany(head'[f]) => Len(head'[f]) <= MaxDescs
                           /\ Topped(head'[f]) => Topped(head[f])
  BY <1>1, <1>3, HeadsWithoutIs, Zenon
<1>6. Exact' /\ Good(head'[at])
  BY <1>2, <1>5, Zenon DEF Fine, Exact
<1>7. StartLoop(at, head'[at], doomed)
  BY <1>1, Zenon DEF StartLoop
<1>8. Looping' /\ Passed' = {}
  BY <1>2, <1>6, <1>7, StartLoopIs, ZenonT(60)
<1>9. Present(sptep)
  BY <1>1, <1>2, <1>4, Zenon DEF Present
<1>10. target' \in [Sptes -> Heads \cup {NoHead}]
  BY <1>1, Zenon DEF RmapInv, Stocked
<1>11. Stocked'
  BY <1>1, <1>5, <1>9, <1>10, ZenonT(60) DEF RmapInv, Stocked, IteratorBug
<1>12. Short'
  BY <1>1, <1>5, HeadFacts, Zenon DEF RmapInv, Short
<1> QED BY <1>1, <1>2, <1>3, <1>4, <1>5, <1>6, <1>8, <1>9, <1>11, <1>12, SMTT(30)
           DEF RmapInv, Leaves

\* The loop of a recycled chain ends with the chain empty, so no full chain is left.
LEMMA LoopEndStep ==
    ASSUME RmapInv, LoopEnd
    PROVE  /\ RmapInv' /\ at # NoHead /\ at \in Heads /\ Passed = Entries(head[at])
           /\ at' = NoHead /\ doomed' = {} /\ Passed' = {} /\ UNCHANGED head
<1>1. /\ at # NoHead /\ sptep = NULL /\ at' = NoHead /\ doomed' = {} /\ iter' = NoIter
      /\ UNCHANGED <<head, target, nobjs, left, sptep, bug>>
  BY ZenonT(60) DEF LoopEnd
<1>2. at \in Heads /\ Passed = Entries(head[at]) /\ Passed \cap doomed = {}
  BY <1>1, SMTT(30) DEF RmapInv, Looping, Passed
<1>3. Looping' /\ Passed' = {}
  BY <1>1 DEF RmapInv, Looping, Passed
<1>4. ASSUME NEW f \in Frames PROVE ~Topped(head[f])
  <2>1. ASSUME Topped(head[f]) PROVE FALSE
    <3>1. at = f /\ Entries(head[f]) \subseteq doomed
      BY <2>1, Zenon DEF RmapInv, Short
    <3>2. Entries(head[f]) = {}
      BY <1>2, <3>1, Zenon
    <3>3. Chain(head[f])
      BY <2>1, HeadFacts, Zenon DEF RmapInv, Exact, Good, Topped, IsMany
    <3>4. Len(head[f]) \in Nat \ {0} /\ DOMAIN head[f] = 1 .. Len(head[f])
      BY <3>3, ChainFacts, ZenonT(60)
    <3>5. head[f][1][1] # NULL /\ 1 \in 1 .. Len(head[f])
      BY <3>3, <3>4, SMTT(30) DEF Chain
    <3>6. head[f][1][1] \in Entries(head[f])
      BY <3>3, <3>5, ChainFacts, SlotFacts, ZenonT(60)
    <3> QED BY <3>2, <3>6, Zenon
  <2> QED BY <2>1, Zenon
<1>5. Short'
  BY <1>1, <1>4, Zenon DEF RmapInv, Short
<1>6. Exact' /\ Stocked'
  BY <1>1, Zenon DEF RmapInv, Exact, Stocked
<1> QED BY <1>1, <1>2, <1>3, <1>5, <1>6, ZenonT(60) DEF RmapInv

-----------------------------------------------------------------------------
(* The theorems *)

LEMMA RmapInit == Init => RmapInv
<1> SUFFICES ASSUME Init PROVE RmapInv
  BY Zenon
<1>1. \A h \in Heads : head[h] = NULL
  BY Zenon DEF Init
<1>2. Exact
  <2>1. \A h \in Heads : {s \in Sptes : target[s] = h} = {}
    BY HeadFacts, Zenon DEF Init
  <2> QED BY <1>1, <2>1 DEF Init, Exact, Good, Entries
<1>3. Stocked /\ Looping
  BY RmapAssumption DEF Init, Stocked, Looping
<1>4. Short
  BY <1>1, HeadFacts, ZenonT(60) DEF Short, Topped, IsMany
<1> QED BY <1>2, <1>3, <1>4, Zenon DEF RmapInv

\* One step of Rmaps is one step of RmapSet, or leaves its variables alone.
Step ==
    \/ \E s \in Sptes, h \in Heads : Joins(s, h) \/ (at = NoHead /\ Leaves(s))
    \/ \E h \in Heads : \E drop \in SUBSET Entries(head[h]) :
          /\ at = NoHead /\ at' = h /\ doomed' = drop
          /\ UNCHANGED head /\ Passed = {} /\ Passed' = {}
    \/ /\ at # NoHead /\ at \in Heads /\ sptep \in Sptes
       /\ sptep \in Entries(head[at]) /\ sptep \notin Passed
       /\ \/ /\ sptep \notin doomed
             /\ Passed' = Passed \cup {sptep} /\ UNCHANGED <<head, at, doomed>>
          \/ sptep \in doomed /\ Leaves(sptep)
    \/ /\ at # NoHead /\ at \in Heads /\ Passed = Entries(head[at])
       /\ at' = NoHead /\ doomed' = {} /\ Passed' = {} /\ UNCHANGED head
    \/ UNCHANGED <<head, at, doomed>> /\ Passed' = Passed

LEMMA RmapNext ==
    ASSUME RmapInv, [Next]_vars
    PROVE  RmapInv' /\ Step
<1>1. ASSUME NEW n \in TopupResults, BeginFault(n) PROVE RmapInv' /\ Step
  BY <1>1, BeginFaultStep, Zenon DEF Step
<1>2. ASSUME NEW n \in TopupResults, NEW s \in Sptes, NEW f \in Frames, PteWrite(s, f, n)
      PROVE  RmapInv' /\ Step
  BY <1>2, PteWriteStep, HeadFacts, Zenon DEF Step
<1>3. ASSUME NEW s \in Sptes, NEW f \in Frames, MapFrame(s, f) PROVE RmapInv' /\ Step
  BY <1>3, MapFrameStep, HeadFacts, Zenon DEF Step
<1>4. ASSUME NEW s \in Sptes, NEW p \in Pages, LinkShadowPage(s, p) PROVE RmapInv' /\ Step
  BY <1>4, LinkStep, HeadFacts, Zenon DEF Step
<1>5. ASSUME NEW s \in Sptes, DropSpte(s) PROVE RmapInv' /\ Step
  <2>1. RmapInv' /\ at = NoHead /\ Leaves(s)
    BY <1>5, DropSpteStep, Zenon
  <2>2. target[s] \in Heads
    BY <2>1, Zenon DEF RmapInv, Stocked, Leaves, Present
  <2> QED BY <2>1, <2>2, Zenon DEF Step
<1>6. ASSUME NEW h \in Heads, NEW drop \in SUBSET Entries(head[h]), Begin(h, drop)
      PROVE  RmapInv' /\ Step
  BY <1>6, BeginStep, Zenon DEF Step
<1>7. ASSUME NEW f \in Frames, RmapWriteProtect(f) \/ ZapRmapp(f) PROVE RmapInv' /\ Step
  BY <1>6, <1>7, HeadFacts, Zenon DEF RmapWriteProtect, ZapRmapp
<1>8. ASSUME NEW f \in Frames, NEW drop \in SUBSET Entries(head[f]), ZapCollapsibleSpte(f, drop)
      PROVE  RmapInv' /\ Step
  BY <1>6, <1>8, HeadFacts, ZenonT(60) DEF ZapCollapsibleSpte
<1>9. ASSUME NEW p \in Pages, UnlinkParents(p) \/ MarkParentsUnsync(p) PROVE RmapInv' /\ Step
  BY <1>6, <1>9, HeadFacts, ZenonT(60) DEF UnlinkParents, MarkParentsUnsync
<1>10. CASE LoopVisit
  BY <1>10, LoopVisitStep, Zenon DEF Step
<1>11. CASE LoopDrop
  BY <1>11, LoopDropStep, Zenon DEF Step
<1>12. CASE LoopEnd
  BY <1>12, LoopEndStep, Zenon DEF Step
<1>13. CASE UNCHANGED vars
  <2>1. UNCHANGED <<head, target, nobjs, left, at, doomed, iter, sptep, bug>>
    BY <1>13, Zenon DEF vars
  <2>2. Passed' = Passed
    BY <2>1 DEF Passed
  <2>3. Exact' /\ Stocked' /\ Short'
    BY <2>1, Zenon DEF RmapInv, Exact, Stocked, Short
  <2>4. Looping'
    BY <2>1, <2>2, Zenon DEF RmapInv, Looping
  <2> QED BY <2>1, <2>2, <2>3, <2>4, ZenonT(60) DEF RmapInv, Step
<1> QED BY <1>1, <1>2, <1>3, <1>4, <1>5, <1>7, <1>8, <1>9, <1>10, <1>11, <1>12, <1>13, SMTT(30)
           DEF Next

LEMMA RmapAlways == Spec => []RmapInv
<1>1. RmapInv /\ [Next]_vars => RmapInv'
  BY RmapNext, Zenon
<1> QED BY RmapInit, <1>1, PTL DEF Spec

\* The types of Rmaps hold for every constant.
THEOREM RmapTypes == Spec => []TypeOK
BY RmapAlways, InvGives, PTL

\* No BUG of pte_list_remove, of the iterator or of mmu_memory_cache_alloc is reached,
\* for every size of descriptor and of cache and any number of sptes.
THEOREM RmapNoBug == Spec => []NoBug
BY RmapAlways, InvGives, PTL

\* pte_list_add and pte_list_remove keep every rmap_head exact: a present spte is on the
\* chain of what it points to, once, and on no other.
THEOREM RmapExact == Spec => []RmapsExact
BY RmapAlways, InvGives, PTL

\* Descriptors stay packed at the front and are never empty.
THEOREM RmapPacked == Spec => []ChainsPacked
BY RmapAlways, InvGives, PTL

\* rmap_recycle bounds the chain of a frame, for every threshold and every size of
\* descriptor, although pte_list_add leaves a full last descriptor out of its count.
THEOREM RmapBounded == Spec => []ChainBounded
BY RmapAlways, InvGives, PTL

-----------------------------------------------------------------------------
(* The refinement *)

Members == [h \in Heads |-> Entries(head[h])]

LEMMA StepIsSetStep ==
    ASSUME RmapInv, RmapInv', Step
    PROVE  [RmapAsSet!SetNext]_(RmapAsSet!setVars)
<1>1. /\ \A h \in Heads : Members[h] = Entries(head[h])
      /\ \A h \in Heads : Members'[h] = Entries(head'[h])
      /\ Members = [h \in Heads |-> Members[h]] /\ Members' = [h \in Heads |-> Members'[h]]
  BY Zenon DEF Members
<1>2. ASSUME UNCHANGED head PROVE Members' = Members
  BY <1>2, Zenon DEF Members
<1>3. ASSUME NEW s, NEW h \in Heads, s \in Entries(head[h]), Leaves(s)
      PROVE  Members' = [Members EXCEPT ![h] = @ \ {s}]
  <2>1. \A g \in Heads : g # h => s \notin Entries(head[g])
    BY <1>3 DEF RmapInv, Exact
  <2>2. \A g \in Heads : Entries(head'[g]) = Entries(head[g]) \ {s}
    BY <1>3, Zenon DEF Leaves
  <2>3. ASSUME NEW g \in Heads
        PROVE  Members'[g] = IF g = h THEN Members[g] \ {s} ELSE Members[g]
    <3>1. Members'[g] = Members[g] \ {s}
      BY <1>1, <2>2, Zenon
    <3>2. g # h => Members[g] \ {s} = Members[g]
      BY <1>1, <2>1, Zenon
    <3> QED BY <3>1, <3>2, Zenon
  <2> HIDE DEF Members
  <2> QED BY <1>1, <2>3, ZenonT(60)
<1>4. ASSUME NEW s \in Sptes, NEW h \in Heads, Joins(s, h)
      PROVE  [RmapAsSet!SetNext]_(RmapAsSet!setVars)
  <2>1. Members' = [g \in Heads |-> IF g = h THEN Members[g] \cup {s} ELSE Members[g] \ {s}]
    BY <1>4, ZenonT(60) DEF Members, Joins
  <2>2. Passed = {} /\ doomed = {}
    BY <1>4 DEF Joins, Passed, RmapInv, Looping
  <2>3. CASE at' = NoHead /\ doomed' = {}
    <3>1. RmapAsSet!Register(s, h)
      BY <1>4, <2>1, <2>2, <2>3, ZenonT(60)
         DEF Joins, Members, RmapAsSet!Register, RmapAsSet!Registered
    <3> QED BY <3>1, Zenon DEF RmapAsSet!SetNext
  <2>4. CASE at' = h /\ doomed' = Entries(head'[h])
    <3>1. RmapAsSet!RegisterAndRecycle(s, h)
      BY <1>4, <2>1, <2>2, <2>4, ZenonT(60)
         DEF Joins, Members, RmapAsSet!RegisterAndRecycle, RmapAsSet!Registered
    <3> QED BY <3>1, Zenon DEF RmapAsSet!SetNext
  <2> QED BY <1>4, <2>3, <2>4, ZenonT(60) DEF Joins
<1>5. ASSUME NEW s \in Sptes, at = NoHead, Leaves(s)
      PROVE  [RmapAsSet!SetNext]_(RmapAsSet!setVars)
  <2>1. PICK h \in Heads : s \in Entries(head[h])
    BY <1>5, Zenon DEF Leaves, Present, RmapInv, Exact, Stocked
  <2>2. Members' = [Members EXCEPT ![h] = @ \ {s}]
    BY <1>3, <1>5, <2>1, ZenonT(60)
  <2>3. Passed = {}
    BY <1>5, SMTT(30) DEF Passed
  <2>4. RmapAsSet!Remove(s, h)
    BY <1>5, <2>1, <2>2, <2>3, ZenonT(60) DEF Leaves, Members, RmapAsSet!Remove
  <2> QED BY <2>1, <2>4, Zenon DEF RmapAsSet!SetNext
<1>6. ASSUME NEW h \in Heads, NEW drop \in SUBSET Entries(head[h]),
             at = NoHead, at' = h, doomed' = drop,
             UNCHANGED head, Passed = {}, Passed' = {}
      PROVE  [RmapAsSet!SetNext]_(RmapAsSet!setVars)
  <2>1. RmapAsSet!Begin(h, drop)
    BY <1>2, <1>6, Zenon DEF Members, RmapAsSet!Begin
  <2>2. drop \in SUBSET Members[h]
    BY <1>1, Zenon
  <2> QED BY <2>1, <2>2, Zenon DEF RmapAsSet!SetNext, Members
<1>7. ASSUME at # NoHead, at \in Heads, sptep \in Sptes, sptep \in Entries(head[at]),
             sptep \notin Passed, sptep \notin doomed,
             Passed' = Passed \cup {sptep}, UNCHANGED <<head, at, doomed>>
      PROVE  [RmapAsSet!SetNext]_(RmapAsSet!setVars)
  <2>1. RmapAsSet!Visit(sptep)
    BY <1>2, <1>7, Zenon DEF Members, RmapAsSet!Visit
  <2> QED BY <1>7, <2>1, Zenon DEF RmapAsSet!SetNext
<1>8. ASSUME at # NoHead, at \in Heads, sptep \in Sptes, sptep \in Entries(head[at]),
             sptep \notin Passed, sptep \in doomed, Leaves(sptep)
      PROVE  [RmapAsSet!SetNext]_(RmapAsSet!setVars)
  <2>1. Members' = [Members EXCEPT ![at] = @ \ {sptep}]
    BY <1>3, <1>8, Zenon
  <2>2. RmapAsSet!Drop(sptep)
    BY <1>8, <2>1, Zenon DEF Leaves, Members, RmapAsSet!Drop
  <2> QED BY <1>8, <2>2, Zenon DEF RmapAsSet!SetNext
<1>9. ASSUME at # NoHead, at \in Heads, Passed = Entries(head[at]),
             at' = NoHead, doomed' = {}, Passed' = {}, UNCHANGED head
      PROVE  [RmapAsSet!SetNext]_(RmapAsSet!setVars)
  <2>1. RmapAsSet!End
    BY <1>2, <1>9, Zenon DEF Members, RmapAsSet!End
  <2> QED BY <2>1, Zenon DEF RmapAsSet!SetNext
<1>10. ASSUME UNCHANGED <<head, at, doomed>>, Passed' = Passed
       PROVE  [RmapAsSet!SetNext]_(RmapAsSet!setVars)
  BY <1>2, <1>10, Zenon DEF Members, RmapAsSet!setVars
<1> QED BY <1>4, <1>5, <1>6, <1>7, <1>8, <1>9, <1>10, SMTT(30) DEF Step

\* Chains and iterator implement RmapSet, for every size of descriptor and threshold:
\* additions and removals change one set by one spte, and a loop of for_each_rmap_spte
\* visits every member, starting over after each drop, and ends only when all it was to
\* drop are gone.
THEOREM RmapRefinement == Spec => ImplementsSet
<1>1. Init => RmapAsSet!SetInit
  BY DEF Init, RmapAsSet!SetInit, Entries, Passed
<1>2. RmapInv /\ RmapInv' /\ [Next]_vars => [RmapAsSet!SetNext]_(RmapAsSet!setVars)
  BY RmapNext, StepIsSetStep, Zenon
<1> QED BY RmapAlways, <1>1, <1>2, PTL DEF Spec, ImplementsSet, RmapAsSet!SetSpec

=============================================================================
