--------------------------- MODULE MemslotsProofs ---------------------------
(***************************************************************************)
(* Proofs about Memslots, for any number of slots, frames, readers and     *)
(* updates.  First vmrun_update_memslots as an insertion into a sorted     *)
(* array; then the invariant of the writer and its readers.                *)
(***************************************************************************)
EXTENDS Memslots, NaturalsInduction, WellFoundedInduction, TLAPS

-----------------------------------------------------------------------------
(* Numbers *)

\* Nat is well-ordered, so LeastOf and MostOf are what their names say.
LEMMA LeastOfIs ==
  ASSUME NEW S \in SUBSET Nat, S # {}
  PROVE  LeastOf(S) \in S /\ \A m \in S : LeastOf(S) <= m
<1>1. \E n \in S : \A m \in S : ~(<<m, n>> \in OpToRel(<, Nat))
  BY WFMin, NatLessThanWellFounded, Zenon
<1>2. PICK n \in S : \A m \in S : ~(<<m, n>> \in OpToRel(<, Nat))
  BY <1>1, Zenon
<1>3. \A m \in S : ~(m < n)
  BY <1>2, Zenon DEF OpToRel
<1>4. \A m \in S : n <= m
  BY <1>3
<1> QED
  BY <1>4, Zenon DEF LeastOf

LEMMA MostOfIs ==
  ASSUME NEW S \in SUBSET Nat, S # {}, NEW n \in Nat, \A m \in S : m <= n
  PROVE  MostOf(S) \in S /\ \A m \in S : m <= MostOf(S)
<1> DEFINE T == {n - m : m \in S}
<1>1. T \in SUBSET Nat /\ T # {}
  <2>1. \A m \in S : n - m \in Nat
    OBVIOUS
  <2>2. T \in SUBSET Nat
    BY <2>1, Zenon
  <2>3. T # {}
    BY Zenon
  <2> QED
    BY <2>2, <2>3, Zenon
<1>2. LeastOf(T) \in T /\ \A t \in T : LeastOf(T) <= t
  BY <1>1, LeastOfIs, Zenon
<1> HIDE DEF T
<1>3. PICK x \in S : LeastOf(T) = n - x
  BY <1>2, Zenon DEF T
<1>4. \A y \in S : n - y \in T
  BY Zenon DEF T
<1>5. \A y \in S : x >= y
  BY <1>2, <1>3, <1>4
<1> QED
  BY <1>5, Zenon DEF MostOf

LEMMA GenFacts == GenMod \in Nat /\ GenMod >= 8 /\ GenMod % 4 = 0
  BY SlotsAssumption, Zenon

\* Reduction modulo GenMod, as a generation advances.
LEMMA ModSmall ==
  ASSUME NEW x \in Nat, x < 2 * GenMod
  PROVE  x % GenMod = IF x < GenMod THEN x ELSE x - GenMod
  BY GenFacts

LEMMA ModFour ==
  ASSUME NEW x \in Int
  PROVE  x % GenMod \in 0 .. GenMod - 1 /\ (x % GenMod) % 4 = x % 4
<1>1. PICK q \in Int : x = GenMod * q + (x % GenMod)
  <2>1. x \div GenMod \in Int /\ x = GenMod * (x \div GenMod) + (x % GenMod)
    BY GenFacts
  <2> QED
    BY <2>1, Zenon
<1>2. PICK k \in Int : GenMod = 4 * k
  BY GenFacts
<1>3. x = 4 * (k * q) + (x % GenMod) /\ k * q \in Int
  BY <1>1, <1>2
<1>4. x % GenMod \in 0 .. GenMod - 1
  BY GenFacts
<1> QED
  BY <1>3, <1>4

-----------------------------------------------------------------------------
(* Arrays and requests *)

\* The fields of one array.
Array == [mslots : [Ids -> Slot], id_to_index : [Ids -> Ids], used_slots : 0 .. SlotsNum,
          generation : 0 .. GenMod - 1]

\* What WellFormed needs to survive an update: an entry without pages has base_gfn
\* zero, one with pages is a user slot, and id_to_index and the ids of the
\* entries are inverse to each other.
Good(a) ==
    /\ WellFormed(a)
    /\ \A i \in Ids : a.id_to_index[a.mslots[i].id] = i
    /\ \A i \in Ids : a.mslots[i].npages = 0 => a.mslots[i].base_gfn = 0
    /\ \A i \in Ids : a.mslots[i].npages # 0 => a.mslots[i].id < UserSlots

\* What __vmrun_set_memory_region has checked of a region when it updates a copy of a.
Accepts(a, new) ==
    /\ new \in Slot /\ new.id < UserSlots
    /\ new.npages = 0 => new.base_gfn = 0
    /\ new.npages = 0 => IdToMemslot(a, new.id).npages # 0
    /\ \/ ~Overlaps(a, new)
       \/ Pages(new) = Pages(IdToMemslot(a, new.id))

-----------------------------------------------------------------------------
(* vmrun_update_memslots *)

LEMMA NumFacts ==
    /\ SlotsNum \in Nat /\ UserSlots \in Nat /\ UserSlots >= 1 /\ UserSlots <= SlotsNum
    /\ MaxGfn \in Nat /\ MaxUpdates \in Nat
  BY SlotsAssumption

LEMMA SlotFacts ==
  ASSUME NEW s \in Slot
  PROVE  /\ s.id \in Ids /\ s.base_gfn \in Nat /\ s.base_gfn <= MaxGfn
         /\ s.npages \in Nat /\ s.npages <= MaxGfn + 1
         /\ s.log_dirty \in BOOLEAN /\ s.invalid \in BOOLEAN
  BY NumFacts DEF Slot, Gfn

\* Where the first loop stops: it passes entries with pages only.
LEMMA ForwardIs ==
  ASSUME NEW m \in [Ids -> Slot], NEW new \in Slot, NEW i \in Ids, NEW j,
         j = ForwardStop(m, new, i)
  PROVE  /\ j \in i .. SlotsNum - 1
         /\ j = SlotsNum - 1 \/ new.base_gfn > m[j + 1].base_gfn \/ m[j + 1].npages = 0
         /\ \A k \in i + 1 .. j : m[k].npages # 0
<1> DEFINE S == {k \in i .. SlotsNum - 1 :
                   \/ k = SlotsNum - 1
                   \/ new.base_gfn > m[k + 1].base_gfn
                   \/ m[k + 1].npages = 0}
<1>1. i \in Nat /\ i <= SlotsNum - 1 /\ SlotsNum \in Nat
  BY NumFacts DEF Ids
<1>2. S \in SUBSET Nat /\ SlotsNum - 1 \in S
  BY <1>1
<1>3. j = LeastOf(S)
  BY Zenon DEF ForwardStop
<1>4. j \in S /\ \A k \in S : j <= k
  <2> HIDE DEF S
  <2> QED
    BY <1>2, <1>3, LeastOfIs
<1>5. ASSUME NEW k \in i + 1 .. j PROVE m[k].npages # 0
  <2>1. k - 1 \in i .. SlotsNum - 1 /\ k - 1 < j /\ (k - 1) + 1 = k
    BY <1>1, <1>4
  <2>2. k - 1 \notin S
    BY <1>1, <1>4, <2>1
  <2> QED
    BY <2>1, <2>2, Zenon
<1> QED
  BY <1>4, <1>5, Zenon

\* Where the second loop stops: it passes no entry with a larger base_gfn.
LEMMA BackwardIs ==
  ASSUME NEW m \in [Ids -> Slot], NEW new \in Slot, NEW i \in Ids, NEW j,
         j = BackwardStop(m, new, i)
  PROVE  /\ j \in 0 .. i
         /\ j = 0 \/ new.base_gfn < m[j - 1].base_gfn
         /\ \A k \in j .. i - 1 : ~(new.base_gfn < m[k].base_gfn)
<1> DEFINE S == {k \in 0 .. i : k = 0 \/ new.base_gfn < m[k - 1].base_gfn}
<1>1. i \in Nat
  BY NumFacts DEF Ids
<1>2. S \in SUBSET Nat /\ 0 \in S /\ \A k \in S : k <= i
  BY <1>1
<1>3. j = MostOf(S)
  BY Zenon DEF BackwardStop
<1>4. j \in S /\ \A k \in S : k <= j
  <2> HIDE DEF S
  <2> QED
    BY <1>1, <1>2, <1>3, MostOfIs, Zenon
<1>5. ASSUME NEW k \in j .. i - 1 PROVE ~(new.base_gfn < m[k].base_gfn)
  <2>1. k + 1 \in 0 .. i /\ k + 1 > j /\ k + 1 # 0 /\ (k + 1) - 1 = k
    BY <1>1, <1>4
  <2>2. k + 1 \notin S
    BY <1>1, <1>4, <2>1
  <2> QED
    BY <2>1, <2>2, Zenon
<1> QED
  BY <1>4, <1>5, Zenon

\* The entries of m but the one at p, and the same with new put in at q.
Others(m, p, k) == IF k < p THEN m[k] ELSE m[k + 1]

Inserted(m, p, q, new) ==
    [k \in Ids |-> CASE k < q -> Others(m, p, k)
                     [] k = q -> new
                     [] OTHER -> Others(m, p, k - 1)]

\* What UpdateMemslots(a, new) is: the entry of new.id leaves position p, the
\* loops stop at i and q, and new goes to q.
Moves(a, new, p, i, q) ==
    /\ p = a.id_to_index[new.id] /\ p \in Ids
    /\ i \in p .. SlotsNum - 1 /\ q \in 0 .. i
    /\ i = ForwardStop(a.mslots, new, p)
    /\ \/ i = SlotsNum - 1
       \/ new.base_gfn > a.mslots[i + 1].base_gfn
       \/ a.mslots[i + 1].npages = 0
    /\ \A k \in p + 1 .. i : a.mslots[k].npages # 0
    /\ new.npages = 0 => q = i
    /\ new.npages # 0 => q = 0 \/ new.base_gfn < Others(a.mslots, p, q - 1).base_gfn
    /\ new.npages # 0 =>
          \A k \in q .. i - 1 : ~(new.base_gfn < Others(a.mslots, p, k).base_gfn)

\* id_to_index after an update that wrote the entries at ks.
Reindexed(a, m, ks) ==
    [id \in Ids |-> IF \E k \in ks : m[k].id = id THEN CHOOSE k \in ks : m[k].id = id
                    ELSE a.id_to_index[id]]

LEMMA ShiftsInsert ==
  ASSUME NEW m \in [Ids -> Slot], NEW new \in Slot, NEW p \in Ids,
         NEW i \in p .. SlotsNum - 1, NEW q \in 0 .. i
  PROVE  [ShiftUp(ShiftDown(m, p, i), i, q) EXCEPT ![q] = new] = Inserted(m, p, q, new)
<1> DEFINE m1 == ShiftDown(m, p, i)
           m2 == [ShiftUp(m1, i, q) EXCEPT ![q] = new]
<1>1. p \in Nat /\ i \in Nat /\ q \in Nat /\ p <= i /\ q <= i /\ i <= SlotsNum - 1
      /\ SlotsNum \in Nat
  BY NumFacts DEF Ids
<1>2. \A k \in Ids : m1[k] = IF k \in p .. (i - 1) THEN m[k + 1] ELSE m[k]
  BY Zenon DEF ShiftDown
<1> HIDE DEF m1
<1>3. \A k \in Ids : m2[k] = CASE k = q -> new
                               [] k # q /\ k \in (q + 1) .. i -> m1[k - 1]
                               [] k # q /\ k \notin (q + 1) .. i -> m1[k]
  BY <1>1, Zenon DEF ShiftUp, Ids
<1>4. m2 = [k \in Ids |-> m2[k]]
  BY Zenon DEF ShiftUp
<1> HIDE DEF m2
<1>5. ASSUME NEW k \in Ids PROVE m2[k] = Inserted(m, p, q, new)[k]
  <2>0. k \in Nat /\ k <= SlotsNum - 1
    BY <1>1 DEF Ids
  <2>1. CASE k < q
    <3>1. m2[k] = m1[k]
      BY <1>1, <1>3, <2>0, <2>1
    <3>2. m1[k] = Others(m, p, k)
      BY <1>1, <1>2, <2>0, <2>1 DEF Others
    <3>3. Inserted(m, p, q, new)[k] = Others(m, p, k)
      BY <2>1 DEF Inserted
    <3> QED
      BY <3>1, <3>2, <3>3, Zenon
  <2>2. CASE k = q
    <3>1. ~(k < q)
      BY <1>1, <2>2
    <3> QED
      BY <1>3, <2>2, <3>1, Zenon DEF Inserted
  <2>3. CASE k > q
    <3>1. Inserted(m, p, q, new)[k] = Others(m, p, k - 1)
      BY <1>1, <2>0, <2>3 DEF Inserted
    <3>2. k - 1 \in Ids /\ (k - 1) + 1 = k
      BY <1>1, <2>0, <2>3 DEF Ids
    <3>3. CASE k <= i
      <4>1. m2[k] = m1[k - 1]
        BY <1>1, <1>3, <2>0, <2>3, <3>3
      <4>2. m1[k - 1] = Others(m, p, k - 1)
        BY <1>1, <1>2, <2>0, <2>3, <3>2, <3>3 DEF Others
      <4> QED
        BY <3>1, <4>1, <4>2, Zenon
    <3>4. CASE k > i
      <4>1. m2[k] = m1[k] /\ m1[k] = m[k]
        BY <1>1, <1>2, <1>3, <2>0, <2>3, <3>4
      <4>2. Others(m, p, k - 1) = m[k]
        BY <1>1, <2>0, <3>2, <3>4 DEF Others
      <4> QED
        BY <3>1, <4>1, <4>2, Zenon
    <3> QED
      BY <1>1, <2>0, <3>3, <3>4
  <2> QED
    BY <1>1, <2>0, <2>1, <2>2, <2>3
<1>6. m2 = Inserted(m, p, q, new)
  <2>1. Inserted(m, p, q, new) = [k \in Ids |-> Inserted(m, p, q, new)[k]]
    BY SMTT(30) DEF Inserted
  <2> QED
    BY <1>4, <1>5, <2>1, Zenon
<1> QED
  BY <1>6, Zenon DEF m1, m2

LEMMA UpdateIs ==
  ASSUME NEW a \in Array, NEW new \in Slot
  PROVE  \E p, i, q \in Ids :
            /\ Moves(a, new, p, i, q)
            /\ LET m == Inserted(a.mslots, p, q, new)
               IN  UpdateMemslots(a, new) =
                      [a EXCEPT !.mslots = m, !.used_slots = UsedAfter(a, new),
                                !.id_to_index = Reindexed(a, m, (p .. i - 1) \cup (q .. i))]
<1> DEFINE p == a.id_to_index[new.id]
           i == ForwardStop(a.mslots, new, p)
           m1 == ShiftDown(a.mslots, p, i)
           q == IF new.npages # 0 THEN BackwardStop(m1, new, i) ELSE i
<1>1. p \in Ids /\ a.mslots \in [Ids -> Slot]
  BY SlotFacts, Zenon DEF Array
<1>2. /\ i \in p .. SlotsNum - 1
      /\ \/ i = SlotsNum - 1
         \/ new.base_gfn > a.mslots[i + 1].base_gfn
         \/ a.mslots[i + 1].npages = 0
      /\ \A k \in p + 1 .. i : a.mslots[k].npages # 0
  <2> HIDE DEF p
  <2> QED
    BY <1>1, ForwardIs
<1>3. /\ p \in Nat /\ i \in Nat /\ SlotsNum \in Nat /\ p <= i /\ i <= SlotsNum - 1
      /\ i \in Ids
  <2> HIDE DEF p, i
  <2> QED
    BY <1>1, <1>2, NumFacts DEF Ids
<1> HIDE DEF p, i
<1>4. m1 \in [Ids -> Slot]
  BY <1>1, <1>3 DEF ShiftDown, Ids
<1>5. \A k \in 0 .. i - 1 : m1[k] = Others(a.mslots, p, k)
  BY <1>1, <1>3 DEF ShiftDown, Ids, Others
<1> HIDE DEF m1
<1>6. /\ q \in 0 .. i
      /\ new.npages = 0 => q = i
      /\ new.npages # 0 => q = 0 \/ new.base_gfn < m1[q - 1].base_gfn
      /\ new.npages # 0 => \A k \in q .. i - 1 : ~(new.base_gfn < m1[k].base_gfn)
  <2>1. CASE new.npages # 0
    <3>1. q = BackwardStop(m1, new, i)
      BY <2>1, Zenon
    <3> HIDE DEF q
    <3>2. /\ q \in 0 .. i
          /\ q = 0 \/ new.base_gfn < m1[q - 1].base_gfn
          /\ \A k \in q .. i - 1 : ~(new.base_gfn < m1[k].base_gfn)
      BY <1>3, <1>4, <3>1, BackwardIs, Zenon
    <3> QED
      BY <2>1, <3>2, Zenon
  <2>2. CASE new.npages = 0
    BY <1>3, <2>2, SMTT(30)
  <2> QED
    BY <2>1, <2>2, Zenon
<1> HIDE DEF q
<1>7. Moves(a, new, p, i, q)
  <2>1. q = 0 \/ q - 1 \in 0 .. i - 1
    BY <1>3, <1>6
  <2>2. \A k \in q .. i - 1 : k \in 0 .. i - 1
    BY <1>3, <1>6
  <2>3. new.npages # 0 => q = 0 \/ new.base_gfn < Others(a.mslots, p, q - 1).base_gfn
    BY <1>5, <1>6, <2>1, Zenon
  <2>4. new.npages # 0 =>
          \A k \in q .. i - 1 : ~(new.base_gfn < Others(a.mslots, p, k).base_gfn)
    BY <1>5, <1>6, <2>2, Zenon
  <2>5. p = a.id_to_index[new.id] /\ i = ForwardStop(a.mslots, new, p)
    BY Zenon DEF p, i
  <2> QED
    BY <1>1, <1>2, <1>6, <2>3, <2>4, <2>5, Zenon DEF Moves
<1>8. [ShiftUp(m1, i, q) EXCEPT ![q] = new] = Inserted(a.mslots, p, q, new)
  BY <1>1, <1>2, <1>6, ShiftsInsert DEF m1
<1>9. UpdateMemslots(a, new) =
          [a EXCEPT !.mslots = Inserted(a.mslots, p, q, new),
                    !.used_slots = UsedAfter(a, new),
                    !.id_to_index = Reindexed(a, Inserted(a.mslots, p, q, new),
                                              (p .. i - 1) \cup (q .. i))]
  <2> DEFINE m2 == [ShiftUp(m1, i, q) EXCEPT ![q] = new]
  <2>1. UpdateMemslots(a, new) =
          [a EXCEPT !.mslots = m2, !.used_slots = UsedAfter(a, new),
                    !.id_to_index = Reindexed(a, m2, (p .. i - 1) \cup (q .. i))]
    BY Zenon DEF UpdateMemslots, Reindexed, p, i, m1, q
  <2>2. m2 = Inserted(a.mslots, p, q, new)
    BY <1>8, Zenon
  <2> HIDE DEF m2
  <2> QED
    BY <2>1, <2>2, Zenon
<1>10. q \in Ids
  BY <1>3, <1>6 DEF Ids
<1> QED
  BY <1>1, <1>3, <1>7, <1>9, <1>10, Zenon

\* Where the entry at k of the updated array comes from, when k is not q.
Source(p, q, k) ==
    LET j == IF k < q THEN k ELSE k - 1
    IN  IF j < p THEN j ELSE j + 1

\* Source is monotone, and onto the positions other than p.
LEMMA SourceFacts ==
  ASSUME NEW p \in Ids, NEW q \in Ids
  PROVE  /\ \A k \in Ids \ {q} : Source(p, q, k) \in Ids \ {p}
         /\ \A j, k \in Ids \ {q} : j < k => Source(p, q, j) < Source(p, q, k)
         /\ \A x \in Ids \ {p} : \E k \in Ids \ {q} : Source(p, q, k) = x
         /\ \A k \in Ids : (k < p /\ k < q) \/ (k > p /\ k > q) => Source(p, q, k) = k
<1>1. p \in Nat /\ q \in Nat /\ SlotsNum \in Nat /\ p <= SlotsNum - 1 /\ q <= SlotsNum - 1
  BY NumFacts DEF Ids
<1>2. \A k \in Ids \ {q} : Source(p, q, k) \in Ids \ {p}
  BY <1>1 DEF Source, Ids
<1>3. \A j, k \in Ids \ {q} : j < k => Source(p, q, j) < Source(p, q, k)
  BY <1>1 DEF Source, Ids
<1>4. ASSUME NEW x \in Ids \ {p} PROVE \E k \in Ids \ {q} : Source(p, q, k) = x
  <2> DEFINE j == IF x < p THEN x ELSE x - 1
             k == IF j < q THEN j ELSE j + 1
  <2>1. j \in Nat /\ j <= SlotsNum - 2
    BY <1>1 DEF Ids
  <2>2. k \in Ids \ {q} /\ Source(p, q, k) = x
    BY <1>1, <2>1 DEF Source, Ids
  <2> QED
    BY <2>2, Zenon
<1>5. \A k \in Ids : (k < p /\ k < q) \/ (k > p /\ k > q) => Source(p, q, k) = k
  BY <1>1 DEF Source, Ids
<1> QED
  BY <1>2, <1>3, <1>4, <1>5, Zenon

LEMMA InsertedAt ==
  ASSUME NEW m \in [Ids -> Slot], NEW new \in Slot, NEW p \in Ids, NEW q \in Ids,
         NEW k \in Ids
  PROVE  Inserted(m, p, q, new)[k] = IF k = q THEN new ELSE m[Source(p, q, k)]
<1>1. q \in Nat /\ k \in Nat
  BY NumFacts DEF Ids
<1>2. CASE k = q
  BY <1>1, <1>2 DEF Inserted
<1>3. CASE k < q
  BY <1>1, <1>3 DEF Inserted, Others, Source
<1>4. CASE k > q
  <2>1. Inserted(m, p, q, new)[k] = Others(m, p, k - 1)
    BY <1>1, <1>4 DEF Inserted
  <2> QED
    BY <1>1, <1>4, <2>1 DEF Others, Source
<1> QED
  BY <1>1, <1>2, <1>3, <1>4

LEMMA MovesFacts ==
  ASSUME NEW a \in Array, Good(a), NEW new, Accepts(a, new),
         NEW p \in Ids, NEW i \in Ids, NEW q \in Ids, Moves(a, new, p, i, q)
  PROVE  /\ p \in Nat /\ i \in Nat /\ q \in Nat /\ SlotsNum \in Nat
         /\ p <= i /\ q <= i /\ i <= SlotsNum - 1
         /\ a.mslots \in [Ids -> Slot] /\ new \in Slot /\ new.id \in Ids
         /\ a.used_slots \in Nat /\ a.used_slots <= SlotsNum
         /\ a.mslots[p].id = new.id /\ p = a.id_to_index[new.id]
         /\ \A k \in Ids : k \in Nat /\ k <= SlotsNum - 1
<1>1. new \in Slot
  BY Zenon DEF Accepts
<1>2. new.id \in Ids /\ a.mslots \in [Ids -> Slot]
      /\ a.used_slots \in Nat /\ a.used_slots <= SlotsNum
  BY <1>1, SlotFacts, NumFacts, SMTT(30) DEF Array
<1>3. p = a.id_to_index[new.id] /\ p <= i /\ q <= i
  BY NumFacts DEF Moves, Ids
<1>4. a.mslots[p].id = new.id
  BY <1>2, <1>3, Zenon DEF Good, WellFormed, IdToMemslot
<1> QED
  BY <1>1, <1>2, <1>3, <1>4, NumFacts DEF Ids

\* new goes where the array stays sorted.
LEMMA Above ==
  ASSUME NEW a \in Array, Good(a), NEW new, Accepts(a, new),
         NEW p \in Ids, NEW i \in Ids, NEW q \in Ids, Moves(a, new, p, i, q),
         NEW k \in Ids, k < q
  PROVE  /\ a.mslots[Source(p, q, k)].base_gfn >= new.base_gfn
         /\ new.npages # 0 => a.mslots[Source(p, q, k)].base_gfn > new.base_gfn
<1> DEFINE m == a.mslots
<1>0. /\ p \in Nat /\ i \in Nat /\ q \in Nat /\ SlotsNum \in Nat
      /\ p <= i /\ q <= i /\ i <= SlotsNum - 1
      /\ m \in [Ids -> Slot] /\ new \in Slot /\ k \in Nat
  BY MovesFacts, Zenon
<1>1. k \in Ids \ {q} /\ q - 1 \in Ids \ {q} /\ (k = q - 1 \/ k < q - 1)
  BY <1>0 DEF Ids
<1>2. /\ Source(p, q, k) \in Ids /\ Source(p, q, q - 1) \in Ids
      /\ Source(p, q, k) = Source(p, q, q - 1) \/ Source(p, q, k) < Source(p, q, q - 1)
  <2>1. Source(p, q, k) \in Ids /\ Source(p, q, q - 1) \in Ids
    BY <1>1, SourceFacts, Zenon
  <2>2. k < q - 1 => Source(p, q, k) < Source(p, q, q - 1)
    BY <1>1, SourceFacts
  <2> QED
    BY <1>1, <2>1, <2>2, Zenon
<1>3. m[Source(p, q, k)].base_gfn >= m[Source(p, q, q - 1)].base_gfn
  <2>1. m[Source(p, q, k)] \in Slot
    BY <1>0, <1>2, Zenon
  <2>2. CASE Source(p, q, k) = Source(p, q, q - 1)
    BY <2>1, <2>2, SlotFacts
  <2>3. CASE Source(p, q, k) < Source(p, q, q - 1)
    BY <1>2, <2>3, Zenon DEF Good, WellFormed
  <2> QED
    BY <1>2, <2>2, <2>3, Zenon
<1>4. Others(m, p, q - 1) = m[Source(p, q, q - 1)]
  BY <1>0 DEF Others, Source
<1>5. /\ m[Source(p, q, k)].base_gfn \in Nat /\ m[Source(p, q, q - 1)].base_gfn \in Nat
      /\ new.base_gfn \in Nat
  BY <1>0, <1>2, SlotFacts, Zenon
<1>6. CASE new.npages # 0
  <2>1. new.base_gfn < Others(m, p, q - 1).base_gfn
    BY <1>0, <1>6 DEF Moves
  <2> QED
    BY <1>3, <1>4, <1>5, <1>6, <2>1, SMTT(30), Zenon
<1>7. CASE new.npages = 0
  BY <1>5, <1>7 DEF Accepts
<1> QED
  BY <1>6, <1>7, Zenon

LEMMA Below ==
  ASSUME NEW a \in Array, Good(a), NEW new, Accepts(a, new),
         NEW p \in Ids, NEW i \in Ids, NEW q \in Ids, Moves(a, new, p, i, q),
         NEW k \in Ids, k > q
  PROVE  a.mslots[Source(p, q, k)].base_gfn <= new.base_gfn
<1> DEFINE m == a.mslots
<1>0. /\ p \in Nat /\ i \in Nat /\ q \in Nat /\ SlotsNum \in Nat
      /\ p <= i /\ q <= i /\ i <= SlotsNum - 1
      /\ m \in [Ids -> Slot] /\ new \in Slot /\ k \in Nat /\ k <= SlotsNum - 1
  BY MovesFacts, Zenon
<1>1. k \in Ids \ {q}
  BY <1>0
<1>2. Source(p, q, k) \in Ids
  BY <1>1, SourceFacts, Zenon
<1>3. m[Source(p, q, k)].base_gfn \in Nat /\ new.base_gfn \in Nat
  BY <1>0, <1>2, SlotFacts, Zenon
<1>4. CASE k <= i
  <2>1. new.npages # 0 /\ k - 1 \in q .. i - 1
    BY <1>0, <1>4, SMTT(30), ZenonT(60) DEF Moves
  <2>2. ~(new.base_gfn < Others(m, p, k - 1).base_gfn)
    BY <2>1, Zenon DEF Moves
  <2>3. Others(m, p, k - 1) = m[Source(p, q, k)]
    BY <1>0 DEF Others, Source
  <2> QED
    BY <1>3, <2>2, <2>3, SMTT(30), ZenonT(60)
<1>5. CASE k > i
  <2>1. Source(p, q, k) = k
    BY <1>0, <1>5, SourceFacts
  <2>2. i + 1 \in Ids /\ (k = i + 1 \/ i + 1 < k)
    BY <1>0, <1>5 DEF Ids
  <2>3. m[i + 1].base_gfn \in Nat
    BY <1>0, <2>2, SlotFacts, Zenon
  <2>4. m[k].base_gfn <= m[i + 1].base_gfn
    <3>1. CASE k = i + 1
      BY <2>3, <3>1
    <3>2. CASE i + 1 < k
      <4>1. m[i + 1].base_gfn >= m[k].base_gfn
        BY <2>2, <3>2, ZenonT(60) DEF Good, WellFormed
      <4> QED
        BY <1>3, <2>1, <2>3, <4>1, Zenon
    <3> QED
      BY <2>2, <3>1, <3>2, Zenon
  <2>5. new.base_gfn > m[i + 1].base_gfn \/ m[i + 1].npages = 0
    BY <1>0, <1>5 DEF Moves
  <2>6. m[i + 1].npages = 0 => m[i + 1].base_gfn = 0
    BY <2>2, Zenon DEF Good
  <2> QED
    BY <1>3, <2>1, <2>3, <2>4, <2>5, <2>6
<1> QED
  BY <1>0, <1>4, <1>5

\* The entries of the updated array.
LEMMA InsertedFacts ==
  ASSUME NEW a \in Array, Good(a), NEW new, Accepts(a, new),
         NEW p \in Ids, NEW i \in Ids, NEW q \in Ids, Moves(a, new, p, i, q),
         NEW w, w = Inserted(a.mslots, p, q, new)
  PROVE  /\ w \in [Ids -> Slot] /\ w[q] = new
         /\ \A k \in Ids \ {q} : w[k] = a.mslots[Source(p, q, k)]
<1>1. PICK m \in [Ids -> Slot] : m = a.mslots
  BY MovesFacts, Zenon
<1>2. new \in Slot
  BY MovesFacts, Zenon
<1>3. \A k \in Ids : Inserted(m, p, q, new)[k] = IF k = q THEN new ELSE m[Source(p, q, k)]
  BY <1>2, InsertedAt
<1>4. w = Inserted(m, p, q, new) /\ w = [k \in Ids |-> w[k]]
  BY <1>1 DEF Inserted
<1>5. w[q] = new /\ \A k \in Ids \ {q} : w[k] = m[Source(p, q, k)]
  BY <1>3, <1>4, Zenon
<1>6. \A k \in Ids : w[k] \in Slot
  <2> SUFFICES ASSUME NEW k \in Ids PROVE w[k] \in Slot
    BY Zenon
  <2>1. CASE k = q
    BY <1>2, <1>5, <2>1, Zenon
  <2>2. CASE k # q
    <3>1. Source(p, q, k) \in Ids /\ w[k] = m[Source(p, q, k)]
      BY <1>5, <2>2, SourceFacts, Zenon
    <3> QED
      BY <3>1, Zenon
  <2> QED
    BY <2>1, <2>2, Zenon
<1>7. w \in [Ids -> Slot]
  BY <1>4, <1>6, Zenon
<1> QED
  BY <1>1, <1>5, <1>7, Zenon

LEMMA SortedAfter ==
  ASSUME NEW a \in Array, Good(a), NEW new, Accepts(a, new),
         NEW p \in Ids, NEW i \in Ids, NEW q \in Ids, Moves(a, new, p, i, q),
         NEW j \in Ids, NEW k \in Ids, j < k
  PROVE  Inserted(a.mslots, p, q, new)[j].base_gfn >= Inserted(a.mslots, p, q, new)[k].base_gfn
<1> DEFINE m == a.mslots
           w == Inserted(m, p, q, new)
<1>0. m \in [Ids -> Slot] /\ new \in Slot /\ j \in Nat /\ k \in Nat /\ q \in Nat
  BY MovesFacts, Zenon
<1> SUFFICES w[j].base_gfn >= w[k].base_gfn
  BY Zenon
<1> HIDE DEF m
<1>1. w[q] = new /\ \A x \in Ids \ {q} : w[x] = m[Source(p, q, x)]
  BY InsertedFacts DEF m
<1> HIDE DEF w
<1>2. CASE j = q
  <2>1. k \in Ids \ {q} /\ k > q
    BY <1>0, <1>2
  <2>2. m[Source(p, q, k)].base_gfn <= new.base_gfn
    BY <2>1, Below, Zenon DEF m
  <2>3. m[Source(p, q, k)].base_gfn \in Nat /\ new.base_gfn \in Nat
    BY <1>0, <2>1, SourceFacts, SlotFacts, Zenon
  <2> QED
    BY <1>1, <1>2, <2>1, <2>2, <2>3, Zenon
<1>3. CASE k = q
  <2>1. j \in Ids \ {q} /\ j < q
    BY <1>0, <1>3
  <2>2. m[Source(p, q, j)].base_gfn >= new.base_gfn
    BY <2>1, Above, Zenon DEF m
  <2> QED
    BY <1>1, <1>3, <2>1, <2>2, Zenon
<1>4. CASE j # q /\ k # q
  <2>1. /\ Source(p, q, j) \in Ids /\ Source(p, q, k) \in Ids
        /\ Source(p, q, j) < Source(p, q, k)
    BY <1>4, SourceFacts, Zenon
  <2>2. m[Source(p, q, j)].base_gfn >= m[Source(p, q, k)].base_gfn
    BY <2>1, Zenon DEF Good, WellFormed, m
  <2> QED
    BY <1>1, <1>4, <2>2
<1> QED
  BY <1>2, <1>3, <1>4, Zenon

\* The entries with pages stay a prefix, of the length UsedAfter says; a deleted
\* slot ends up right behind it, which the second WARN_ON_ONCE is about.
LEMMA UsedIs ==
  ASSUME NEW a \in Array, Good(a), NEW new, Accepts(a, new),
         NEW p \in Ids, NEW i \in Ids, NEW q \in Ids, Moves(a, new, p, i, q)
  PROVE  /\ UsedAfter(a, new) \in 0 .. SlotsNum
         /\ \A k \in Ids : (Inserted(a.mslots, p, q, new)[k].npages # 0)
                              = (k < UsedAfter(a, new))
         /\ new.npages = 0 => i = UsedAfter(a, new)
<1> DEFINE m == a.mslots
           w == Inserted(m, p, q, new)
           U == a.used_slots
           V == UsedAfter(a, new)
<1>0. /\ p \in Nat /\ i \in Nat /\ q \in Nat /\ SlotsNum \in Nat
      /\ p <= i /\ q <= i /\ i <= SlotsNum - 1
      /\ m \in [Ids -> Slot] /\ new \in Slot /\ U \in Nat /\ U <= SlotsNum
      /\ p = a.id_to_index[new.id]
      /\ \A k \in Ids : k \in Nat /\ k <= SlotsNum - 1
  BY MovesFacts
<1>1. w[q] = new /\ \A x \in Ids \ {q} : w[x] = m[Source(p, q, x)]
  BY InsertedFacts
<1>2. \A x \in Ids : m[x].npages # 0 <=> x < U
  BY Zenon DEF Good, WellFormed
<1>3. V = CASE p < U /\ new.npages = 0 -> U - 1
            [] ~(p < U) /\ new.npages # 0 -> U + 1
            [] OTHER -> U
  <2>1. IdToMemslot(a, new.id).npages # 0 <=> p < U
    BY <1>0, <1>2, Zenon DEF IdToMemslot
  <2> QED
    BY <2>1, Zenon DEF UsedAfter
<1>4. new.npages = 0 => p < U
  BY <1>0, <1>2, Zenon DEF Accepts, IdToMemslot
<1> HIDE DEF w, V, m, U
<1>5. V \in 0 .. SlotsNum
  BY <1>0, <1>3, <1>4
<1>6. \A x \in Ids \ {q} : w[x].npages # 0 <=> Source(p, q, x) < U
  <2> SUFFICES ASSUME NEW x \in Ids \ {q} PROVE w[x].npages # 0 <=> Source(p, q, x) < U
    BY Zenon
  <2>1. Source(p, q, x) \in Ids
    BY SourceFacts, Zenon
  <2> QED
    BY <1>1, <1>2, <2>1, Zenon
<1>7. CASE new.npages # 0
  <2>1. V = IF p < U THEN U ELSE U + 1
    BY <1>3, <1>7, Zenon
  <2>2. q < V
    <3>1. CASE q = 0
      BY <1>0, <2>1, <3>1
    <3>2. CASE q # 0
      <4>1. q - 1 \in Ids \ {q} /\ q - 1 < q
        BY <1>0, <3>2 DEF Ids
      <4>2. m[Source(p, q, q - 1)].base_gfn > new.base_gfn
        BY <1>7, <4>1, Above, Zenon DEF m
      <4>3. Source(p, q, q - 1) \in Ids /\ new.base_gfn \in Nat
        BY <1>0, <4>1, SourceFacts, SlotFacts, Zenon
      <4>4. m[Source(p, q, q - 1)].npages # 0
        BY <4>2, <4>3 DEF Good, m
      <4>5. Source(p, q, q - 1) < U
        BY <1>2, <4>3, <4>4, Zenon
      <4> QED
        BY <1>0, <2>1, <3>2, <4>5 DEF Source
    <3> QED
      BY <3>1, <3>2, Zenon
  <2>3. ASSUME NEW k \in Ids PROVE w[k].npages # 0 <=> k < V
    <3>1. CASE k = q
      BY <1>1, <1>7, <2>2, <3>1, Zenon
    <3>2. CASE k # q
      <4>1. w[k].npages # 0 <=> Source(p, q, k) < U
        BY <1>6, <3>2, Zenon
      <4>2. k \in Nat
        BY <1>0, Zenon
      <4> QED
        BY <1>0, <2>1, <2>2, <3>2, <4>1, <4>2 DEF Source
    <3> QED
      BY <3>1, <3>2, Zenon
  <2> QED
    BY <1>5, <1>7, <2>3 DEF w, V, m
<1>8. CASE new.npages = 0
  <2>1. V = U - 1 /\ p < U /\ q = i
    BY <1>3, <1>4, <1>8, Zenon DEF Moves
  <2>2. i <= U - 1
    <3>1. CASE i = p
      BY <1>0, <2>1, <3>1
    <3>2. CASE i # p
      <4>1. i \in p + 1 .. i
        BY <1>0, <3>2, SMTT(30)
      <4>2. m[i].npages # 0
        BY <4>1, Zenon DEF Moves, m
      <4> QED
        BY <1>0, <1>2, <4>2
    <3> QED
      BY <3>1, <3>2, Zenon
  <2>3. i >= U - 1
    <3>1. CASE i = SlotsNum - 1
      BY <1>0, <3>1
    <3>2. CASE i # SlotsNum - 1
      <4>1. i + 1 \in Ids
        BY <1>0, <3>2 DEF Ids
      <4>2. m[i + 1].base_gfn \in Nat /\ new.base_gfn = 0
        BY <1>0, <1>8, <4>1, SlotFacts, ZenonT(60) DEF Accepts
      <4>3. m[i + 1].npages = 0
        BY <3>2, <4>2 DEF Moves, m
      <4>4. ~(i + 1 < U)
        BY <1>2, <4>1, <4>3, Zenon
      <4> QED
        BY <1>0, <4>4
    <3> QED
      BY <3>1, <3>2, Zenon
  <2>4. i = V
    BY <1>0, <2>1, <2>2, <2>3
  <2>5. ASSUME NEW k \in Ids PROVE w[k].npages # 0 <=> k < V
    <3>1. CASE k = q
      BY <1>0, <1>1, <1>8, <2>1, <2>4, <3>1
    <3>2. CASE k # q
      <4>1. w[k].npages # 0 <=> Source(p, q, k) < U
        BY <1>6, <3>2, Zenon
      <4>2. k \in Nat
        BY <1>0, Zenon
      <4> QED
        BY <1>0, <2>1, <2>4, <3>2, <4>1, <4>2 DEF Source
    <3> QED
      BY <3>1, <3>2, Zenon
  <2> QED
    BY <1>5, <2>4, <2>5, SMTT(30), ZenonT(60) DEF w, V, m
<1> QED
  BY <1>7, <1>8, Zenon

\* x is the inverse of the ids of the entries of w.
Indexes(x, w) == (\A id \in Ids : w[x[id]].id = id) /\ (\A k \in Ids : x[w[k].id] = k)

\* id_to_index follows every entry that the loops moved.
LEMMA ReindexedIs ==
  ASSUME NEW a \in Array, Good(a), NEW new, Accepts(a, new),
         NEW p \in Ids, NEW i \in Ids, NEW q \in Ids, Moves(a, new, p, i, q),
         NEW w, w = Inserted(a.mslots, p, q, new),
         NEW x, x = Reindexed(a, w, (p .. i - 1) \cup (q .. i))
  PROVE  x \in [Ids -> Ids] /\ Indexes(x, w)
<1> DEFINE m == a.mslots
           ks == (p .. i - 1) \cup (q .. i)
<1>0. /\ p \in Nat /\ i \in Nat /\ q \in Nat /\ SlotsNum \in Nat
      /\ p <= i /\ q <= i /\ i <= SlotsNum - 1
      /\ m \in [Ids -> Slot] /\ new \in Slot /\ new.id \in Ids
      /\ m[p].id = new.id /\ p = a.id_to_index[new.id]
      /\ \A k \in Ids : k \in Nat /\ k <= SlotsNum - 1
  BY MovesFacts
<1>1. w[q] = new /\ (\A k \in Ids \ {q} : w[k] = m[Source(p, q, k)]) /\ w \in [Ids -> Slot]
  BY InsertedFacts
<1>2. \A id \in Ids : a.id_to_index[id] \in Ids
  BY Zenon DEF Array
<1>3. /\ \A id \in Ids : m[a.id_to_index[id]].id = id
      /\ \A k \in Ids : a.id_to_index[m[k].id] = k
  BY Zenon DEF Good, WellFormed, IdToMemslot
<1>4. ks \subseteq Ids /\ q \in ks /\ \A k \in Ids : k \in ks \/ (k < p /\ k < q) \/ k > i
  <2>1. ks \subseteq Ids /\ q \in ks
    BY <1>0 DEF Ids
  <2>2. ASSUME NEW k \in Ids, k \notin ks PROVE (k < p /\ k < q) \/ k > i
    <3>1. k \in Nat /\ k \notin p .. i - 1 /\ k \notin q .. i
      BY <1>0, <2>2, Zenon
    <3> QED
      BY <1>0, <3>1
  <2> HIDE DEF ks
  <2> QED
    BY <2>1, <2>2, Zenon
<1>5. \A id \in Ids : x[id] = IF \E k \in ks : w[k].id = id THEN CHOOSE k \in ks : w[k].id = id
                              ELSE a.id_to_index[id]
  BY Zenon DEF Reindexed
<1>6. x = [id \in Ids |-> x[id]]
  BY Zenon DEF Reindexed
<1> HIDE DEF m, ks
<1>7. ASSUME NEW id \in Ids PROVE x[id] \in Ids /\ w[x[id]].id = id
  <2>1. CASE \E k \in ks : w[k].id = id
    <3>1. x[id] = CHOOSE k \in ks : w[k].id = id
      BY <1>5, <2>1, Zenon
    <3>2. x[id] \in ks /\ w[x[id]].id = id
      BY <2>1, <3>1, Zenon
    <3> QED
      BY <1>4, <3>2, Zenon
  <2>2. CASE ~\E k \in ks : w[k].id = id
    <3>1. id # new.id
      BY <1>1, <1>4, <2>2, Zenon
    <3>2. PICK y \in Ids : y = a.id_to_index[id]
      BY <1>2, Zenon
    <3>3. m[y].id = id
      BY <1>3, <3>2, Zenon
    <3>4. y # p
      BY <1>0, <3>1, <3>3, Zenon
    <3>5. PICK k \in Ids \ {q} : Source(p, q, k) = y
      BY <3>4, SourceFacts
    <3>6. w[k].id = id
      BY <1>1, <3>3, <3>5, Zenon
    <3>7. k \notin ks
      BY <2>2, <3>6, Zenon
    <3>8. (k < p /\ k < q) \/ (k > p /\ k > q)
      BY <1>0, <1>4, <3>7
    <3>9. k = y
      BY <3>5, <3>8, SourceFacts, ZenonT(60)
    <3>10. x[id] = y
      BY <1>5, <2>2, <3>2, Zenon
    <3> QED
      BY <3>6, <3>9, <3>10, Zenon
  <2> QED
    BY <2>1, <2>2, Zenon
<1>8. \A j, k \in Ids : w[j].id = w[k].id => j = k
  <2> SUFFICES ASSUME NEW j \in Ids, NEW k \in Ids, w[j].id = w[k].id PROVE j = k
    BY Zenon
  <2>1. \A z \in Ids \ {q} : w[z].id # new.id
    <3> SUFFICES ASSUME NEW z \in Ids \ {q} PROVE w[z].id # new.id
      BY Zenon
    <3>1. Source(p, q, z) \in Ids \ {p} /\ w[z] = m[Source(p, q, z)]
      BY <1>1, SourceFacts, Zenon
    <3> QED
      BY <1>0, <1>3, <3>1, ZenonT(60)
  <2>2. CASE j = q \/ k = q
    BY <1>1, <2>1, <2>2, SMTT(30), ZenonT(60)
  <2>3. CASE j # q /\ k # q
    <3>1. /\ Source(p, q, j) \in Ids /\ Source(p, q, k) \in Ids
          /\ w[j] = m[Source(p, q, j)] /\ w[k] = m[Source(p, q, k)]
      BY <1>1, <2>3, SourceFacts, SMTT(30), ZenonT(60)
    <3>2. Source(p, q, j) = Source(p, q, k)
      BY <1>3, <3>1
    <3>3. ~(j < k) /\ ~(k < j)
      <4>1. Source(p, q, j) \in Nat
        BY <1>0, <3>1, Zenon
      <4>2. j < k => Source(p, q, j) < Source(p, q, k)
        BY <2>3, SourceFacts, Zenon
      <4>3. k < j => Source(p, q, k) < Source(p, q, j)
        BY <2>3, SourceFacts, SMTT(30), Zenon
      <4> QED
        BY <3>2, <4>1, <4>2, <4>3
    <3> QED
      BY <1>0, <3>3
  <2> QED
    BY <2>2, <2>3, Zenon
<1>9. ASSUME NEW k \in Ids PROVE x[w[k].id] = k
  <2>1. w[k].id \in Ids
    BY <1>1, SlotFacts, ZenonT(60)
  <2>2. x[w[k].id] \in Ids /\ w[x[w[k].id]].id = w[k].id
    BY <1>7, <2>1, Zenon
  <2> QED
    BY <1>8, <2>2, Zenon
<1>10. x \in [Ids -> Ids]
  BY <1>6, <1>7, Zenon
<1> QED
  BY <1>7, <1>9, <1>10, Zenon DEF Indexes

LEMMA PagesAre ==
  ASSUME NEW s \in Slot, NEW g
  PROVE  g \in Pages(s) <=> g \in Int /\ s.base_gfn <= g /\ g < s.base_gfn + s.npages
  BY SlotFacts DEF Pages

\* The overlap check is enough for the frames of the slots to stay apart.
LEMMA NewApart ==
  ASSUME NEW a \in Array, Good(a), NEW new, Accepts(a, new),
         NEW p \in Ids, p = a.id_to_index[new.id], NEW x \in Ids, x # p
  PROVE  Pages(new) \cap Pages(a.mslots[x]) = {}
<1> DEFINE s == a.mslots[x]
<1>1. new \in Slot /\ new.id \in Ids
  BY SlotFacts, Zenon DEF Accepts
<1>2. s \in Slot
  BY Zenon DEF Array
<1>3. CASE ~Overlaps(a, new)
  <2>1. CASE s.npages = 0
    BY <1>2, <2>1, PagesAre, SlotFacts
  <2>2. CASE s.npages # 0
    <3>1. s.id < UserSlots
      BY <2>2, Zenon DEF Good
    <3>2. s.id # new.id
      BY Zenon DEF Good
    <3>3. new.base_gfn + new.npages <= s.base_gfn \/ new.base_gfn >= s.base_gfn + s.npages
      BY <1>3, <2>2, <3>1, <3>2, SMTT(30), ZenonT(60) DEF Overlaps
    <3> QED
      BY <1>1, <1>2, <3>3, PagesAre, SlotFacts, SMTT(30), ZenonT(60)
  <2> QED
    BY <2>1, <2>2, Zenon
<1>4. CASE Pages(new) = Pages(IdToMemslot(a, new.id))
  BY <1>1, <1>4, SMTT(30), Zenon DEF Good, WellFormed, IdToMemslot
<1> QED
  BY <1>3, <1>4, Zenon DEF Accepts

LEMMA DisjointAfter ==
  ASSUME NEW a \in Array, Good(a), NEW new, Accepts(a, new),
         NEW p \in Ids, NEW i \in Ids, NEW q \in Ids, Moves(a, new, p, i, q),
         NEW w, w = Inserted(a.mslots, p, q, new), NEW j \in Ids, NEW k \in Ids, j # k
  PROVE  Pages(w[j]) \cap Pages(w[k]) = {}
<1> DEFINE m == a.mslots
<1>1. w[q] = new /\ \A x \in Ids \ {q} : w[x] = m[Source(p, q, x)]
  BY InsertedFacts, SMTT(30), ZenonT(60)
<1>2. p = a.id_to_index[new.id] /\ j \in Nat /\ k \in Nat
  BY MovesFacts
<1>3. \A x \in Ids \ {q} : Source(p, q, x) \in Ids /\ Source(p, q, x) # p
  BY SourceFacts, Zenon
<1>4. \A x \in Ids \ {q} : Pages(new) \cap Pages(w[x]) = {}
  <2> SUFFICES ASSUME NEW x \in Ids \ {q} PROVE Pages(new) \cap Pages(w[x]) = {}
    BY Zenon
  <2>1. PICK y \in Ids : y # p /\ w[x] = m[y]
    BY <1>1, <1>3, Zenon
  <2> QED
    BY <1>2, <2>1, NewApart
<1>5. CASE j = q
  BY <1>1, <1>4, <1>5, Zenon
<1>6. CASE k = q
  BY <1>1, <1>4, <1>6, Zenon
<1>7. CASE j # q /\ k # q
  <2>1. Source(p, q, j) \in Ids /\ Source(p, q, k) \in Ids
    BY <1>3, <1>7, Zenon
  <2>2. Source(p, q, j) # Source(p, q, k)
    <3>1. j < k \/ k < j
      BY <1>2
    <3>2. Source(p, q, j) \in Nat /\ Source(p, q, k) \in Nat
      BY <2>1, NumFacts DEF Ids
    <3>3. j < k => Source(p, q, j) < Source(p, q, k)
      BY <1>7, SourceFacts, Zenon
    <3>4. k < j => Source(p, q, k) < Source(p, q, j)
      BY <1>7, SourceFacts, SMTT(30), Zenon
    <3> QED
      BY <3>1, <3>2, <3>3, <3>4, SMTT(30), ZenonT(60)
  <2>3. Pages(m[Source(p, q, j)]) \cap Pages(m[Source(p, q, k)]) = {}
    BY <2>1, <2>2, Zenon DEF Good, WellFormed
  <2> QED
    BY <1>1, <1>7, <2>3, Zenon
<1> QED
  BY <1>5, <1>6, <1>7, Zenon

\* vmrun_update_memslots keeps an array good and warns of nothing, when the
\* region has passed the checks of __vmrun_set_memory_region.
LEMMA UpdateGood ==
  ASSUME NEW a \in Array, Good(a), NEW new, Accepts(a, new)
  PROVE  /\ UpdateMemslots(a, new) \in Array
         /\ Good(UpdateMemslots(a, new))
         /\ UpdateMemslots(a, new).generation = a.generation
         /\ ~UpdateWarns(a, new)
<1>0. new \in Slot /\ new.id \in Ids
  BY SlotFacts, Zenon DEF Accepts
<1>1. PICK p, i, q \in Ids :
        /\ Moves(a, new, p, i, q)
        /\ LET m == Inserted(a.mslots, p, q, new)
           IN  UpdateMemslots(a, new) =
                  [a EXCEPT !.mslots = m, !.used_slots = UsedAfter(a, new),
                            !.id_to_index = Reindexed(a, m, (p .. i - 1) \cup (q .. i))]
  BY <1>0, UpdateIs, Zenon
<1> DEFINE b == UpdateMemslots(a, new)
           w == Inserted(a.mslots, p, q, new)
           x == Reindexed(a, w, (p .. i - 1) \cup (q .. i))
           V == UsedAfter(a, new)
<1>2. b = [a EXCEPT !.mslots = w, !.used_slots = V, !.id_to_index = x]
  BY <1>1, Zenon
<1>3. /\ w \in [Ids -> Slot] /\ w[q] = new
      /\ \A k \in Ids \ {q} : w[k] = a.mslots[Source(p, q, k)]
  BY <1>1, InsertedFacts
<1>4. /\ V \in 0 .. SlotsNum
      /\ \A k \in Ids : (w[k].npages # 0) = (k < V)
      /\ new.npages = 0 => i = V
  BY <1>1, UsedIs, Zenon
<1>5. x \in [Ids -> Ids] /\ Indexes(x, w)
  <2>1. w = Inserted(a.mslots, p, q, new)
    BY Zenon
  <2>2. x = Reindexed(a, w, (p .. i - 1) \cup (q .. i))
    BY Zenon
  <2> HIDE DEF w, x
  <2> QED
    BY <1>1, <2>1, <2>2, ReindexedIs, Zenon
<1>6. \A j, k \in Ids : j < k => w[j].base_gfn >= w[k].base_gfn
  BY <1>1, SortedAfter, Zenon
<1>7. \A j, k \in Ids : j # k => Pages(w[j]) \cap Pages(w[k]) = {}
  BY <1>1, DisjointAfter, Zenon
<1> HIDE DEF b, w, x, V
<1>8. /\ b \in Array /\ b.mslots = w /\ b.used_slots = V /\ b.id_to_index = x
      /\ b.generation = a.generation
  BY <1>2, <1>3, <1>4, <1>5, Zenon DEF Array
<1>9. WellFormed(b)
  BY <1>4, <1>5, <1>6, <1>7, <1>8, Zenon DEF WellFormed, IdToMemslot, Indexes
<1>10. \A k \in Ids : /\ w[k].npages = 0 => w[k].base_gfn = 0
                      /\ w[k].npages # 0 => w[k].id < UserSlots
  <2> SUFFICES ASSUME NEW k \in Ids
               PROVE  /\ w[k].npages = 0 => w[k].base_gfn = 0
                      /\ w[k].npages # 0 => w[k].id < UserSlots
    BY Zenon
  <2>1. CASE k = q
    BY <1>3, <2>1, Zenon DEF Accepts
  <2>2. CASE k # q
    <3>1. PICK y \in Ids : w[k] = a.mslots[y]
      BY <1>3, <2>2, SourceFacts, Zenon
    <3> QED
      BY <3>1, Zenon DEF Good
  <2> QED
    BY <2>1, <2>2, Zenon
<1>11. Good(b)
  BY <1>5, <1>8, <1>9, <1>10, Zenon DEF Good, Indexes
<1>12. ~UpdateWarns(a, new)
  <2>1. p = a.id_to_index[new.id] /\ i = ForwardStop(a.mslots, new, p)
    BY <1>1, SMTT(30), Zenon DEF Moves
  <2>2. a.mslots[p].id = new.id
    BY <1>0, <2>1, SMTT(30), Zenon DEF Good, WellFormed, IdToMemslot
  <2>3. new.npages = 0 => a.mslots[p].npages # 0
    BY <2>1, Zenon DEF Accepts, IdToMemslot
  <2> QED
    BY <1>4, <2>1, <2>2, <2>3, ZenonT(60) DEF UpdateWarns, V
<1> QED
  BY <1>8, <1>11, <1>12, Zenon DEF b

-----------------------------------------------------------------------------
(* The inductive invariant *)

Shape ==
    /\ arr \in [AddressSpaces -> [Buffers -> Array]]
    /\ memslots \in [AddressSpaces -> Buffers]
    /\ freed \in [AddressSpaces -> BOOLEAN]
    /\ writer \in [pc : {"idle", "sync_invalid", "sync_new"}, as : AddressSpaces,
                   new : Slot, wait : SUBSET Readers]
    /\ reader \in [Readers -> [in : BOOLEAN, held : SUBSET Buffers, gfn : Gfn \cup {None}]]
    /\ mmio \in [Gfn -> (0 .. GenMod - 1) \cup {None}]
    /\ updates \in 0 .. MaxUpdates

Updating(as) == writer.pc # "idle" /\ writer.as = as

\* The installed arrays are good, and so is the one a delete or move starts from.
Slots ==
    /\ \A as \in AddressSpaces : Good(Installed(as))
    /\ writer.pc = "sync_invalid" =>
          LET old == arr[writer.as][Other(writer.as)]
          IN  Good(old) /\ Accepts(old, writer.new)

\* The generation of address space 0 is 2 modulo 4, that of address space 1 is 0,
\* and one more between the installation of an array and its last step.
Generations ==
    \A as \in AddressSpaces :
        Installed(as).generation % 4 =
            (IF as = 0 THEN 2 ELSE 0) + (IF Updating(as) THEN 1 ELSE 0)

\* A reader that uses an array, or a lookup, that is out of date began before the
\* writer installed the array; the writer waits for it.
Waited(r) == Updating(0) /\ r \in writer.wait

Grace ==
    /\ \A as \in AddressSpaces : Updating(as) => ~freed[as]
    /\ \A r \in Readers :
          /\ reader[r].held # {} \/ reader[r].gfn # None => reader[r].in
          /\ \A b \in reader[r].held : b = memslots[0] \/ Waited(r)
          /\ reader[r].gfn # None => ~HasSlot(Installed(0), reader[r].gfn) \/ Waited(r)

MemInv == Shape /\ Slots /\ Generations /\ Grace /\ ~warned

\* How far the generation gen of address space 0 is from the first one.
First == (0 - 150) % GenMod
Age(gen) == IF gen >= First THEN gen - First ELSE gen - First + GenMod

\* What the update in progress in address space 0 may still add to the age.
Left == CASE ~Updating(0) -> 0
          [] Updating(0) /\ writer.pc = "sync_invalid" -> 8
          [] Updating(0) /\ writer.pc = "sync_new" -> 4

\* Every spte has a generation that the array of address space 0 has had, and an
\* accepted one has the frame's lookup behind it.
Ages ==
    /\ Age(EvenPart(Installed(0).generation)) <= 8 * updates - Left
    /\ \A gfn \in Gfn : mmio[gfn] # None =>
          /\ mmio[gfn] % 2 = 0
          /\ Age(mmio[gfn]) <= Age(EvenPart(Installed(0).generation))
    /\ MmioSpteFresh

-----------------------------------------------------------------------------
(* What the writer's actions do to the arrays *)

LEMMA SpaceFacts == 0 \in AddressSpaces /\ \A as \in AddressSpaces : as = 0 \/ as = 1
  BY SlotsAssumption, Zenon

\* Two arrays that differ in their generation only.
Same(a, b) ==
    a.mslots = b.mslots /\ a.id_to_index = b.id_to_index /\ a.used_slots = b.used_slots

LEMMA SameFacts ==
  ASSUME NEW a, NEW b, Same(a, b)
  PROVE  /\ Good(a) => Good(b)
         /\ \A new : Accepts(a, new) => Accepts(b, new)
         /\ \A gfn : HasSlot(a, gfn) <=> HasSlot(b, gfn)
<1>1. Good(a) => Good(b)
  BY SMTT(30), Zenon DEF Same, Good, WellFormed, IdToMemslot
<1>2. ASSUME NEW new, Accepts(a, new) PROVE Accepts(b, new)
  BY <1>2, Zenon DEF Same, Accepts, Overlaps, IdToMemslot
<1>3. ASSUME NEW gfn PROVE HasSlot(a, gfn) <=> HasSlot(b, gfn)
  BY ZenonT(60) DEF Same, HasSlot
<1> QED
  BY <1>1, <1>2, <1>3, SMTT(30), ZenonT(60)

\* The first step of a delete or move changes a flag.
LEMMA InvalidGood ==
  ASSUME NEW a \in Array, Good(a), NEW id \in Ids, NEW b,
         b = [a EXCEPT !.mslots[a.id_to_index[id]].invalid = TRUE]
  PROVE  b \in Array /\ Good(b)
<1>1. PICK p \in Ids : p = a.id_to_index[id]
  BY Zenon DEF Array
<1>2. a.mslots \in [Ids -> Slot] /\ a.mslots[p] \in Slot
  BY Zenon DEF Array
<1>3. PICK s \in Slot : s = [a.mslots[p] EXCEPT !.invalid = TRUE]
  BY <1>2, Zenon DEF Slot
<1>4. /\ s.id = a.mslots[p].id /\ s.base_gfn = a.mslots[p].base_gfn
      /\ s.npages = a.mslots[p].npages
  BY <1>2, <1>3, Zenon DEF Slot
<1>5. b = [a EXCEPT !.mslots = [a.mslots EXCEPT ![p] = s]]
  BY <1>1, <1>2, <1>3, Zenon DEF Array
<1>6. /\ b \in Array /\ b.id_to_index = a.id_to_index /\ b.used_slots = a.used_slots
      /\ b.mslots = [a.mslots EXCEPT ![p] = s]
  BY <1>2, <1>5, SMTT(30), ZenonT(60) DEF Array
<1>7. \A k \in Ids : /\ b.mslots[k].id = a.mslots[k].id
                     /\ b.mslots[k].base_gfn = a.mslots[k].base_gfn
                     /\ b.mslots[k].npages = a.mslots[k].npages
                     /\ Pages(b.mslots[k]) = Pages(a.mslots[k])
  BY <1>2, <1>4, <1>6 DEF Pages
<1>8. \A k \in Ids : a.id_to_index[k] \in Ids /\ a.mslots[k].id \in Ids
  BY <1>2, SlotFacts, Zenon DEF Array
<1>9. WellFormed(b)
  <2>1. ASSUME NEW k \in Ids PROVE IdToMemslot(b, k).id = k
    <3>1. PICK j \in Ids : j = a.id_to_index[k]
      BY <1>8, Zenon
    <3>2. IdToMemslot(b, k) = b.mslots[j] /\ IdToMemslot(a, k) = a.mslots[j]
      BY <1>6, <3>1, Zenon DEF IdToMemslot
    <3>3. b.mslots[j].id = a.mslots[j].id
      BY <1>7, Zenon
    <3>4. IdToMemslot(a, k).id = k
      BY ZenonT(60) DEF Good, WellFormed
    <3> QED
      BY <3>2, <3>3, <3>4, Zenon
  <2>2. \A k \in Ids : (b.mslots[k].npages # 0) = (k < b.used_slots)
    BY <1>6, <1>7, SMTT(30), Zenon DEF Good, WellFormed
  <2>3. \A j, k \in Ids : j < k => b.mslots[j].base_gfn >= b.mslots[k].base_gfn
    BY <1>7 DEF Good, WellFormed
  <2>4. \A j, k \in Ids : j # k => Pages(b.mslots[j]) \cap Pages(b.mslots[k]) = {}
    BY <1>7, ZenonT(60) DEF Good, WellFormed
  <2> QED
    BY <2>1, <2>2, <2>3, <2>4, ZenonT(60) DEF WellFormed
<1>10. \A k \in Ids : b.id_to_index[b.mslots[k].id] = k
  BY <1>6, <1>7, SMTT(30), ZenonT(60) DEF Good
<1>11. \A k \in Ids : /\ b.mslots[k].npages = 0 => b.mslots[k].base_gfn = 0
                      /\ b.mslots[k].npages # 0 => b.mslots[k].id < UserSlots
  BY <1>7 DEF Good
<1> QED
  BY <1>6, <1>9, <1>10, <1>11, ZenonT(60) DEF Good

LEMMA AllocGood ==
  ASSUME NEW as \in AddressSpaces
  PROVE  /\ AllocMemslots(as) \in Array
         /\ Good(AllocMemslots(as))
         /\ AllocMemslots(as).generation = (as * 2 - 150) % GenMod
<1> DEFINE a == AllocMemslots(as)
<1>1. \A i \in Ids : EmptySlot(i) \in Slot
  BY NumFacts DEF EmptySlot, Slot, Gfn
<1>2. as * 2 - 150 \in Int
  <2>1. as = 0 \/ as = 1
    BY SpaceFacts, Zenon
  <2>2. CASE as = 0
    BY <2>2
  <2>3. CASE as = 1
    BY <2>3
  <2> QED
    BY <2>1, <2>2, <2>3, Zenon
<1>3. (as * 2 - 150) % GenMod \in 0 .. GenMod - 1
  BY <1>2, ModFour, Zenon
<1>4. a \in Array
  <2>1. [i \in Ids |-> EmptySlot(i)] \in [Ids -> Slot] /\ [i \in Ids |-> i] \in [Ids -> Ids]
    BY <1>1, Zenon
  <2>2. 0 \in 0 .. SlotsNum
    BY NumFacts
  <2> QED
    BY <1>3, <2>1, <2>2, Zenon DEF AllocMemslots, Array
<1>5. /\ a.mslots = [i \in Ids |-> EmptySlot(i)] /\ a.id_to_index = [i \in Ids |-> i]
      /\ a.used_slots = 0 /\ a.generation = (as * 2 - 150) % GenMod
  BY Zenon DEF AllocMemslots
<1> HIDE DEF a
<1>6. \A i \in Ids : /\ a.mslots[i].id = i /\ a.mslots[i].base_gfn = 0
                     /\ a.mslots[i].npages = 0 /\ a.id_to_index[i] = i /\ i \in Nat
  BY <1>5, NumFacts DEF EmptySlot, Ids
<1>7. \A i \in Ids : Pages(a.mslots[i]) = {}
  BY <1>6 DEF Pages
<1>8. WellFormed(a)
  BY <1>5, <1>6, <1>7 DEF WellFormed, IdToMemslot
<1>9. Good(a)
  BY <1>6, <1>8, Zenon DEF Good
<1> QED
  BY <1>4, <1>5, <1>9, Zenon DEF a

\* The checks of __vmrun_set_memory_region.
LEMMA NewAccepted ==
  ASSUME NEW a \in Array, Good(a), NEW r \in Requests, NEW new,
         new = New(r.id, r.base, r.n, r.log), r.id < UserSlots,
         Change(IdToMemslot(a, r.id), new) \in {"CREATE", "DELETE", "MOVE", "FLAGS_ONLY"},
         Change(IdToMemslot(a, r.id), new) \in {"CREATE", "MOVE"} => ~Overlaps(a, new)
  PROVE  Accepts(a, new) /\ new \in Slot /\ r.id \in Ids /\ new.id = r.id
<1>1. /\ r.id \in Ids /\ r.base \in 0 .. MaxGfn /\ r.n \in 0 .. MaxGfn + 1
      /\ r.log \in BOOLEAN
  BY SlotsAssumption, Zenon DEF Ids
<1> DEFINE log == r.n # 0 /\ r.log
           base == IF r.n = 0 THEN 0 ELSE r.base
<1>2. log \in BOOLEAN /\ base \in Gfn /\ (r.n = 0 => base = 0)
  BY <1>1, NumFacts DEF Gfn
<1>3. new = [id |-> r.id, base_gfn |-> base, npages |-> r.n, log_dirty |-> log,
             invalid |-> FALSE]
  BY Zenon DEF New, EmptySlot
<1> HIDE DEF log, base
<1>4. /\ new.id = r.id /\ new.npages = r.n /\ new.base_gfn \in Gfn
      /\ new.npages = 0 => new.base_gfn = 0
  BY <1>2, <1>3, SMTT(30), Zenon
<1>5. new \in Slot
  <2> DEFINE no == FALSE
  <2>1. new = [id |-> r.id, base_gfn |-> base, npages |-> r.n, log_dirty |-> log,
               invalid |-> no] /\ no \in BOOLEAN
    BY <1>3, Zenon
  <2> HIDE DEF no
  <2> QED
    BY <1>1, <1>2, <2>1 DEF Slot
<1> DEFINE old == IdToMemslot(a, r.id)
<1>6. old \in Slot
  BY <1>1, Zenon DEF Array, IdToMemslot
<1>7. new.npages = 0 => old.npages # 0
  BY Zenon DEF Change
<1>8. ~Overlaps(a, new) \/ Pages(new) = Pages(old)
  <2>1. CASE new.npages = 0
    <3>1. \A i \in Ids : a.mslots[i].base_gfn \in Nat
      BY SlotFacts, Zenon DEF Array
    <3>2. new.base_gfn + new.npages = 0
      BY <1>4, <2>1
    <3> QED
      BY <3>1, <3>2 DEF Overlaps
  <2>2. CASE new.npages # 0
    <3>1. \/ Change(old, new) \in {"CREATE", "MOVE"}
          \/ new.npages = old.npages /\ new.base_gfn = old.base_gfn
      BY <2>2, Zenon DEF Change
    <3> QED
      BY <3>1, SMTT(30), Zenon DEF Pages
  <2> QED
    BY <2>1, <2>2, SMTT(30), Zenon
<1> QED
  BY <1>1, <1>4, <1>5, <1>7, <1>8, Zenon DEF Accepts

LEMMA ShapeFacts ==
  ASSUME Shape, NEW as \in AddressSpaces
  PROVE  /\ memslots[as] \in Buffers /\ Other(as) \in Buffers /\ Other(as) # memslots[as]
         /\ 1 - Other(as) = memslots[as]
         /\ \A b \in Buffers : b = memslots[as] \/ b = Other(as)
         /\ \A b \in Buffers : arr[as][b] \in Array
         /\ Installed(as) \in Array
         /\ Installed(as).generation \in 0 .. GenMod - 1
<1>1. memslots[as] = 0 \/ memslots[as] = 1
  BY Zenon DEF Shape, Buffers
<1>2. arr[as] \in [Buffers -> Array]
  BY Zenon DEF Shape
<1>3. /\ memslots[as] \in Buffers /\ Other(as) \in Buffers /\ Other(as) # memslots[as]
      /\ 1 - Other(as) = memslots[as]
      /\ \A b \in Buffers : b = memslots[as] \/ b = Other(as)
  <2>1. CASE memslots[as] = 0
    BY <2>1 DEF Other, Buffers
  <2>2. CASE memslots[as] = 1
    BY <2>2 DEF Other, Buffers
  <2> QED
    BY <1>1, <2>1, <2>2, Zenon
<1>4. Installed(as) \in Array
  BY <1>2, <1>3, Zenon DEF Installed
<1> QED
  BY <1>2, <1>3, <1>4, Zenon DEF Array

\* The arrays of the other address space stay as they are.
OthersKept(as) ==
    \A s \in AddressSpaces \ {as} :
        arr'[s] = arr[s] /\ memslots'[s] = memslots[s] /\ freed'[s] = freed[s]

ArraysShape ==
    /\ arr \in [AddressSpaces -> [Buffers -> Array]]
    /\ memslots \in [AddressSpaces -> Buffers]
    /\ freed \in [AddressSpaces -> BOOLEAN]

LEMMA SetGeneration ==
  ASSUME NEW a \in Array, NEW g \in 0 .. GenMod - 1
  PROVE  /\ [a EXCEPT !.generation = g] \in Array
         /\ [a EXCEPT !.generation = g].generation = g
         /\ Same(a, [a EXCEPT !.generation = g])
  BY Zenon DEF Array, Same

LEMMA AdvanceIs ==
  ASSUME NEW g \in 0 .. GenMod - 1
  PROVE  AdvanceGeneration(g) = IF g + 3 < GenMod THEN g + 3 ELSE g + 3 - GenMod
<1>1. PICK x \in Nat : x = g + 3 /\ x < 2 * GenMod /\ g + 2 * 2 - 1 = x
  BY GenFacts
<1>2. x % GenMod = IF x < GenMod THEN x ELSE x - GenMod
  BY <1>1, ModSmall, Zenon
<1>3. AdvanceGeneration(g) = x % GenMod
  BY <1>1, Zenon DEF AdvanceGeneration
<1> QED
  BY <1>1, <1>2, <1>3, GenFacts

LEMMA OddIs ==
  ASSUME NEW g \in 0 .. GenMod - 1
  PROVE  (g + 1) % GenMod = IF g + 1 < GenMod THEN g + 1 ELSE 0
<1>1. PICK x \in Nat : x = g + 1 /\ x <= GenMod
  BY GenFacts
<1>2. x % GenMod = IF x < GenMod THEN x ELSE x - GenMod
  BY <1>1, ModSmall, GenFacts
<1>3. (g + 1) % GenMod = x % GenMod
  BY <1>1, Zenon
<1> QED
  BY <1>1, <1>2, <1>3, GenFacts

LEMMA InstallIs ==
  ASSUME Shape, NEW as \in AddressSpaces, NEW a \in Array, Install(as, a)
  PROVE  /\ ArraysShape' /\ OthersKept(as)
         /\ memslots'[as] = Other(as) /\ ~freed'[as]
         /\ arr'[as][memslots[as]] = Installed(as)
         /\ Same(a, Installed(as)')
         /\ Installed(as)'.generation = (Installed(as).generation + 1) % GenMod
<1>1. /\ memslots[as] \in Buffers /\ Other(as) \in Buffers /\ Other(as) # memslots[as]
      /\ Installed(as).generation \in 0 .. GenMod - 1
  BY ShapeFacts, Zenon
<1> DEFINE g == (Installed(as).generation + 1) % GenMod
<1>2. g \in 0 .. GenMod - 1
  <2>1. PICK x \in 0 .. GenMod - 1 : x = Installed(as).generation
    BY <1>1, Zenon
  <2>2. (x + 1) % GenMod \in 0 .. GenMod - 1
    BY OddIs, GenFacts
  <2> QED
    BY <2>1, <2>2, Zenon
<1> HIDE DEF g
<1>3. PICK n \in Array : n = [a EXCEPT !.generation = g] /\ n.generation = g /\ Same(a, n)
  BY <1>2, SetGeneration, Zenon
<1>4. /\ arr' = [arr EXCEPT ![as][Other(as)] = n]
      /\ memslots' = [memslots EXCEPT ![as] = Other(as)]
      /\ freed' = [freed EXCEPT ![as] = FALSE]
  BY <1>3, Zenon DEF Install, g
<1>5. /\ arr \in [AddressSpaces -> [Buffers -> Array]] /\ memslots \in [AddressSpaces -> Buffers]
      /\ freed \in [AddressSpaces -> BOOLEAN]
  BY Zenon DEF Shape
<1>6. /\ arr' \in [AddressSpaces -> [Buffers -> Array]]
      /\ memslots' \in [AddressSpaces -> Buffers]
      /\ freed' \in [AddressSpaces -> BOOLEAN]
  BY <1>1, <1>4, <1>5, Zenon
<1>7. OthersKept(as)
  BY <1>4, <1>5, Zenon DEF OthersKept
<1>8. /\ memslots'[as] = Other(as) /\ ~freed'[as]
      /\ arr'[as][memslots[as]] = arr[as][memslots[as]]
      /\ arr'[as][Other(as)] = n
  BY <1>1, <1>4, <1>5, ZenonT(60)
<1> QED
  BY <1>3, <1>6, <1>7, <1>8, Zenon DEF ArraysShape, Installed, g

\* VMRUN_SET_USER_MEMORY_REGION, once a request has passed the checks.
LEMMA SetIs ==
  ASSUME MemInv, NEW r \in Requests, SetMemoryRegion(r.as, r.id, r.base, r.n, r.log)
  PROVE  /\ writer.pc = "idle" /\ r.as \in AddressSpaces
         /\ updates' = updates + 1 /\ updates' \in 0 .. MaxUpdates
         /\ reader' = reader /\ mmio' = mmio /\ ~warned'
         /\ \E a \in Array, new \in Slot, at \in {"sync_invalid", "sync_new"} :
               /\ Good(a) /\ Install(r.as, a)
               /\ writer' = [pc |-> at, as |-> r.as, new |-> new, wait |-> InSection]
               /\ at = "sync_invalid" => Accepts(Installed(r.as), new)
<1> DEFINE a == Installed(r.as)
           new == New(r.id, r.base, r.n, r.log)
           change == Change(IdToMemslot(a, r.id), new)
           invalid == [a EXCEPT !.mslots[a.id_to_index[r.id]].invalid = TRUE]
<1>1. r.as \in AddressSpaces
  BY SlotsAssumption, Zenon
<1>2. /\ writer.pc = "idle" /\ updates < MaxUpdates /\ r.id < UserSlots
      /\ change \in {"CREATE", "DELETE", "MOVE", "FLAGS_ONLY"}
      /\ change \in {"CREATE", "MOVE"} => ~Overlaps(a, new)
      /\ updates' = updates + 1 /\ reader' = reader /\ mmio' = mmio
  BY Zenon DEF SetMemoryRegion
<1>3. \/ /\ Install(r.as, invalid)
         /\ writer' = [pc |-> "sync_invalid", as |-> r.as, new |-> new, wait |-> InSection]
         /\ warned' = (warned \/ a.generation % 2 = 1)
      \/ /\ Install(r.as, UpdateMemslots(a, new))
         /\ writer' = [pc |-> "sync_new", as |-> r.as, new |-> new, wait |-> InSection]
         /\ warned' = (warned \/ a.generation % 2 = 1 \/ UpdateWarns(a, new))
  BY ZenonT(60) DEF SetMemoryRegion
<1>4. a \in Array /\ Good(a) /\ a.generation \in 0 .. GenMod - 1
  BY <1>1, ShapeFacts, Zenon DEF MemInv, Slots
<1>5. a.generation % 2 # 1
  <2>1. a.generation % 4 = 0 \/ a.generation % 4 = 2
    BY <1>1, <1>2 DEF MemInv, Generations, Updating
  <2> QED
    BY <1>4, <2>1, GenFacts
<1>6. updates' \in 0 .. MaxUpdates
  BY <1>2, NumFacts DEF MemInv, Shape
<1> HIDE DEF a, new
<1>7. Accepts(a, new) /\ new \in Slot /\ r.id \in Ids
  BY <1>2, <1>4, NewAccepted, Zenon DEF new
<1>8. UpdateMemslots(a, new) \in Array /\ Good(UpdateMemslots(a, new)) /\ ~UpdateWarns(a, new)
  BY <1>4, <1>7, UpdateGood, SMTT(30), Zenon
<1>9. invalid \in Array /\ Good(invalid)
  BY <1>4, <1>7, InvalidGood, Zenon
<1> HIDE DEF change, invalid
<1>10. ~warned
  BY Zenon DEF MemInv
<1>11. ~warned'
  BY <1>3, <1>5, <1>8, <1>10, Zenon
<1> QED
  BY <1>1, <1>2, <1>3, <1>6, <1>7, <1>8, <1>9, <1>11, SMTT(30), ZenonT(60) DEF a

LEMMA InstallUpdatedIs ==
  ASSUME MemInv, InstallUpdated, NEW as, as = writer.as, NEW gen,
         gen = AdvanceGeneration(Installed(as).generation)
  PROVE  /\ writer.pc = "sync_invalid" /\ writer.wait = {} /\ as \in AddressSpaces
         /\ ArraysShape' /\ OthersKept(as)
         /\ memslots'[as] = Other(as) /\ freed' = freed
         /\ Same(Installed(as), arr'[as][memslots[as]])
         /\ Good(Installed(as)')
         /\ Installed(as)'.generation = (gen + 1) % GenMod
         /\ writer' = [writer EXCEPT !.pc = "sync_new", !.wait = InSection]
         /\ mmio' = [g \in Gfn |-> None] /\ reader' = reader /\ updates' = updates /\ ~warned'
<1> DEFINE cur == Installed(as)
           old == arr[as][Other(as)]
           upd == UpdateMemslots(old, writer.new)
<1>1. /\ writer.pc = "sync_invalid" /\ writer.wait = {}
      /\ arr' = [arr EXCEPT ![as] =
                   [b \in Buffers |->
                      IF b = memslots[as]
                        THEN [cur EXCEPT !.generation = gen]
                        ELSE [upd EXCEPT !.generation = (gen + 1) % GenMod]]]
      /\ memslots' = [memslots EXCEPT ![as] = Other(as)]
      /\ warned' = (warned \/ gen % 2 = 1 \/ UpdateWarns(old, writer.new))
      /\ writer' = [writer EXCEPT !.pc = "sync_new", !.wait = InSection]
      /\ mmio' = [g \in Gfn |-> None] /\ freed' = freed /\ reader' = reader /\ updates' = updates
  BY Zenon DEF InstallUpdated
<1>2. as \in AddressSpaces
  BY SMTT(30), ZenonT(60) DEF MemInv, Shape
<1>3. /\ memslots[as] \in Buffers /\ Other(as) \in Buffers /\ Other(as) # memslots[as]
      /\ cur \in Array /\ old \in Array /\ cur.generation \in 0 .. GenMod - 1
  BY <1>2, ShapeFacts, Zenon DEF MemInv
<1>4. Good(old) /\ Accepts(old, writer.new)
  BY <1>1, ZenonT(60) DEF MemInv, Slots
<1>5. upd \in Array /\ Good(upd) /\ ~UpdateWarns(old, writer.new)
  BY <1>3, <1>4, UpdateGood, Zenon
<1>6. cur.generation % 4 \in {1, 3}
  BY <1>1, <1>2 DEF MemInv, Generations, Updating
<1> HIDE DEF cur, old, upd
<1>7. gen \in 0 .. GenMod - 1 /\ gen % 2 # 1
  <2>1. gen = IF cur.generation + 3 < GenMod THEN cur.generation + 3
              ELSE cur.generation + 3 - GenMod
    BY <1>3, AdvanceIs, Zenon DEF cur
  <2> QED
    BY <1>3, <1>6, <2>1, GenFacts
<1>8. (gen + 1) % GenMod \in 0 .. GenMod - 1
  BY <1>7, GenFacts
<1>9. PICK c \in Array : c = [cur EXCEPT !.generation = gen] /\ Same(cur, c)
  BY <1>3, <1>7, SetGeneration, Zenon
<1>10. PICK u \in Array : /\ u = [upd EXCEPT !.generation = (gen + 1) % GenMod]
                          /\ u.generation = (gen + 1) % GenMod /\ Same(upd, u)
  BY <1>5, <1>8, SetGeneration, Zenon
<1>11. arr' = [arr EXCEPT ![as] = [b \in Buffers |-> IF b = memslots[as] THEN c ELSE u]]
  BY <1>1, <1>9, <1>10, Zenon
<1>12. /\ arr \in [AddressSpaces -> [Buffers -> Array]]
       /\ memslots \in [AddressSpaces -> Buffers] /\ freed \in [AddressSpaces -> BOOLEAN]
  BY Zenon DEF MemInv, Shape
<1>13. /\ arr' \in [AddressSpaces -> [Buffers -> Array]]
       /\ memslots' \in [AddressSpaces -> Buffers] /\ freed' \in [AddressSpaces -> BOOLEAN]
  <2>1. [b \in Buffers |-> IF b = memslots[as] THEN c ELSE u] \in [Buffers -> Array]
    BY Zenon
  <2>2. arr' \in [AddressSpaces -> [Buffers -> Array]]
    BY <1>11, <1>12, <2>1, Zenon
  <2> QED
    BY <1>1, <1>3, <1>12, <2>2, ZenonT(60)
<1>14. OthersKept(as)
  BY <1>1, <1>11, <1>12, Zenon DEF OthersKept
<1>15. /\ memslots'[as] = Other(as)
       /\ arr'[as][memslots[as]] = c /\ arr'[as][Other(as)] = u
  BY <1>1, <1>2, <1>3, <1>11, <1>12
<1>16. Good(u)
  BY <1>5, <1>10, SameFacts, Zenon
<1>17. ~warned
  BY Zenon DEF MemInv
<1>18. ~warned'
  BY <1>1, <1>5, <1>7, <1>17, Zenon
<1> QED
  BY <1>1, <1>2, <1>9, <1>10, <1>13, <1>14, <1>15, <1>16, <1>18, ZenonT(60)
     DEF ArraysShape, Installed, cur

LEMMA FinishUpdateIs ==
  ASSUME MemInv, FinishUpdate, NEW as, as = writer.as, NEW gen,
         gen = AdvanceGeneration(Installed(as).generation)
  PROVE  /\ writer.pc = "sync_new" /\ writer.wait = {} /\ as \in AddressSpaces
         /\ ArraysShape' /\ OthersKept(as)
         /\ memslots' = memslots
         /\ Same(Installed(as), Installed(as)')
         /\ Installed(as)'.generation = gen
         /\ writer' = Idle
         /\ mmio' = InvalidateMmioSptes(gen, mmio)
         /\ reader' = reader /\ updates' = updates /\ warned' = warned
<1> DEFINE cur == Installed(as)
<1>1. /\ writer.pc = "sync_new" /\ writer.wait = {}
      /\ arr' = [arr EXCEPT ![as][memslots[as]].generation = gen,
                            ![as][Other(as)] = AllocMemslots(as)]
      /\ mmio' = InvalidateMmioSptes(gen, mmio)
      /\ freed' = [freed EXCEPT ![as] = TRUE]
      /\ writer' = Idle /\ memslots' = memslots /\ reader' = reader /\ warned' = warned
      /\ updates' = updates
  BY Zenon DEF FinishUpdate
<1>2. as \in AddressSpaces
  BY Zenon DEF MemInv, Shape
<1>3. /\ memslots[as] \in Buffers /\ Other(as) \in Buffers /\ Other(as) # memslots[as]
      /\ \A b \in Buffers : b = memslots[as] \/ b = Other(as)
      /\ cur \in Array /\ cur.generation \in 0 .. GenMod - 1
  BY <1>2, ShapeFacts, Zenon DEF MemInv
<1>4. /\ arr \in [AddressSpaces -> [Buffers -> Array]]
      /\ memslots \in [AddressSpaces -> Buffers] /\ freed \in [AddressSpaces -> BOOLEAN]
  BY Zenon DEF MemInv, Shape
<1>5. gen \in 0 .. GenMod - 1
  BY <1>3, AdvanceIs, GenFacts
<1>6. PICK c \in Array : /\ c = [cur EXCEPT !.generation = gen]
                         /\ c.generation = gen /\ Same(cur, c)
  BY <1>3, <1>5, SetGeneration, Zenon
<1>7. PICK f \in Array : f = AllocMemslots(as)
  BY <1>2, AllocGood, Zenon
<1>8. arr' = [arr EXCEPT ![as] = [b \in Buffers |-> IF b = memslots[as] THEN c ELSE f]]
  <2> DEFINE x == memslots[as]
             y == Other(as)
  <2>1. arr[as] \in [Buffers -> Array] /\ x \in Buffers /\ y \in Buffers /\ x # y
    BY <1>2, <1>3, <1>4, ZenonT(60)
  <2>2. [arr EXCEPT ![as][x].generation = gen] = [arr EXCEPT ![as] = [arr[as] EXCEPT ![x] = c]]
    BY <1>6, Zenon DEF Installed
  <2>3. arr' = [arr EXCEPT ![as] = [[arr[as] EXCEPT ![x] = c] EXCEPT ![y] = f]]
    BY <1>1, <1>2, <1>4, <1>7, <2>2, Zenon
  <2>4. [[arr[as] EXCEPT ![x] = c] EXCEPT ![y] = f] = [b \in Buffers |-> IF b = x THEN c ELSE f]
    BY <1>3, <2>1, ZenonT(60)
  <2> QED
    BY <2>3, <2>4, Zenon
<1>9. /\ arr' \in [AddressSpaces -> [Buffers -> Array]]
      /\ memslots' \in [AddressSpaces -> Buffers] /\ freed' \in [AddressSpaces -> BOOLEAN]
  <2>1. [b \in Buffers |-> IF b = memslots[as] THEN c ELSE f] \in [Buffers -> Array]
    BY Zenon
  <2>2. arr' \in [AddressSpaces -> [Buffers -> Array]]
    BY <1>4, <1>8, <2>1, Zenon
  <2>3. freed' \in [AddressSpaces -> BOOLEAN]
    BY <1>1, <1>4, Zenon
  <2> QED
    BY <1>1, <1>4, <2>2, <2>3, Zenon
<1>10. OthersKept(as)
  BY <1>1, <1>4, <1>8, Zenon DEF OthersKept
<1>11. arr'[as][memslots[as]] = c
  BY <1>2, <1>3, <1>4, <1>8, Zenon
<1>12. Installed(as)' = c
  BY <1>1, <1>11, Zenon DEF Installed
<1>13. ArraysShape'
  BY <1>9, Zenon DEF ArraysShape
<1> QED
  BY <1>1, <1>2, <1>6, <1>10, <1>12, <1>13, SMTT(30), Zenon

-----------------------------------------------------------------------------
(* The invariant is preserved *)

\* The residue of the generation: one more while an array is being installed.
LEMMA GenSteps ==
  ASSUME NEW g \in 0 .. GenMod - 1, NEW c \in {0, 2}
  PROVE  /\ g % 4 = c => (g + 1) % GenMod = g + 1 /\ (g + 1) % 4 = c + 1
         /\ g % 4 = c + 1 => AdvanceGeneration(g) % 4 = c
         /\ AdvanceGeneration(g) \in 0 .. GenMod - 1
<1>1. g \in Nat /\ g < GenMod /\ GenMod \in Nat /\ GenMod % 4 = 0 /\ (c = 0 \/ c = 2)
  BY GenFacts
<1>2. AdvanceGeneration(g) = IF g + 3 < GenMod THEN g + 3 ELSE g + 3 - GenMod
  BY AdvanceIs, Zenon
<1>3. (g + 1) % GenMod = IF g + 1 < GenMod THEN g + 1 ELSE 0
  BY OddIs, Zenon
<1>4. g % 4 = c => (g + 1) % GenMod = g + 1 /\ (g + 1) % 4 = c + 1
  BY <1>1, <1>3
<1>5. g % 4 = c + 1 => AdvanceGeneration(g) % 4 = c
  BY <1>1, <1>2
<1>6. AdvanceGeneration(g) \in 0 .. GenMod - 1
  BY <1>1, <1>2, GenFacts
<1> QED
  BY <1>4, <1>5, <1>6, Zenon

LEMMA EmptyIs == EmptySlot(0) \in Slot
<1>1. 0 \in Ids /\ 0 \in Gfn /\ 0 \in 0 .. MaxGfn + 1
  BY NumFacts DEF Ids, Gfn
<1> QED
  BY <1>1, SMTT(30), ZenonT(60) DEF EmptySlot, Slot

LEMMA UpdatesNat ==
  ASSUME MemInv
  PROVE  updates \in Nat /\ updates <= MaxUpdates /\ MaxUpdates \in Nat
<1>1. updates \in 0 .. MaxUpdates /\ MaxUpdates \in Nat
  BY SlotsAssumption, Zenon DEF MemInv, Shape
<1> QED
  BY <1>1

LEMMA InstalledKept ==
  ASSUME NEW as \in AddressSpaces, OthersKept(as), NEW s \in AddressSpaces, s # as
  PROVE  /\ Installed(s)' = Installed(s)
         /\ memslots'[s] = memslots[s] /\ freed'[s] = freed[s] /\ arr'[s] = arr[s]
  BY Zenon DEF OthersKept, Installed

LEMMA SetInv ==
  ASSUME MemInv, NEW r \in Requests, SetMemoryRegion(r.as, r.id, r.base, r.n, r.log)
  PROVE  MemInv'
<1>1. /\ writer.pc = "idle" /\ r.as \in AddressSpaces
      /\ updates' = updates + 1 /\ updates' \in 0 .. MaxUpdates
      /\ reader' = reader /\ mmio' = mmio /\ ~warned'
  BY SetIs, Zenon
<1>2. PICK a \in Array, new \in Slot, at \in {"sync_invalid", "sync_new"} :
        /\ Good(a) /\ Install(r.as, a)
        /\ writer' = [pc |-> at, as |-> r.as, new |-> new, wait |-> InSection]
        /\ at = "sync_invalid" => Accepts(Installed(r.as), new)
  BY SetIs, Zenon
<1>3. PICK as \in AddressSpaces : as = r.as
  BY <1>1, ZenonT(60)
<1>4. /\ ArraysShape' /\ OthersKept(as)
      /\ memslots'[as] = Other(as) /\ ~freed'[as]
      /\ arr'[as][memslots[as]] = Installed(as)
      /\ Same(a, Installed(as)')
      /\ Installed(as)'.generation = (Installed(as).generation + 1) % GenMod
  BY <1>2, <1>3, InstallIs, Zenon DEF MemInv
<1>5. writer'.pc = at /\ writer'.as = as /\ writer'.new = new /\ writer'.wait = InSection
  BY <1>2, <1>3, SMTT(30), ZenonT(60)
<1>6. Shape'
  <2>1. InSection \in SUBSET Readers
    BY Zenon DEF InSection
  <2>2. writer' \in [pc : {"idle", "sync_invalid", "sync_new"}, as : AddressSpaces,
                     new : Slot, wait : SUBSET Readers]
    BY <1>1, <1>2, <2>1, Zenon
  <2> QED
    BY <1>1, <1>4, <2>2, Zenon DEF MemInv, Shape, ArraysShape
<1>7. Slots'
  <2>1. \A s \in AddressSpaces : Good(Installed(s)')
    <3> SUFFICES ASSUME NEW s \in AddressSpaces PROVE Good(Installed(s)')
      BY Zenon
    <3>1. CASE s = as
      BY <1>2, <1>4, <3>1, SameFacts, Zenon
    <3>2. CASE s # as
      <4>1. Installed(s)' = Installed(s)
        BY <1>4, <3>2, InstalledKept, Zenon
      <4> QED
        BY <4>1, Zenon DEF MemInv, Slots
    <3> QED
      BY <3>1, <3>2, Zenon
  <2>2. 1 - memslots'[as] = memslots[as]
    <3>1. 1 - Other(as) = memslots[as]
      BY ShapeFacts, Zenon DEF MemInv
    <3> QED
      BY <1>4, <3>1, Zenon
  <2>3. arr'[as][1 - memslots'[as]] = Installed(as)
    BY <1>4, <2>2, Zenon
  <2>4. Good(Installed(as))
    BY ZenonT(60) DEF MemInv, Slots
  <2>5. writer'.pc = "sync_invalid" =>
          Good(arr'[as][1 - memslots'[as]]) /\ Accepts(arr'[as][1 - memslots'[as]], writer'.new)
    BY <1>2, <1>3, <1>5, <2>3, <2>4, Zenon
  <2> QED
    BY <1>5, <2>1, <2>5, Zenon DEF Slots, Other
<1>8. Generations'
  <2> SUFFICES ASSUME NEW s \in AddressSpaces
               PROVE  Installed(s)'.generation % 4 =
                        (IF s = 0 THEN 2 ELSE 0) + (IF Updating(s)' THEN 1 ELSE 0)
    BY Zenon DEF Generations
  <2>1. ~Updating(s) /\ Installed(s).generation % 4 = IF s = 0 THEN 2 ELSE 0
    BY <1>1 DEF Updating, MemInv, Generations
  <2>2. CASE s = as
    <3>1. Updating(s)'
      BY <1>5, <2>2, SMTT(30), ZenonT(60) DEF Updating
    <3>2. PICK g \in 0 .. GenMod - 1 : g = Installed(s).generation
      BY ShapeFacts, Zenon DEF MemInv
    <3>3. PICK c \in {0, 2} : c = IF s = 0 THEN 2 ELSE 0
      BY Zenon
    <3>4. (g + 1) % GenMod = g + 1 /\ (g + 1) % 4 = c + 1
      BY <2>1, <3>2, <3>3, GenSteps, Zenon
    <3>5. Installed(s)'.generation % 4 = c + 1
      BY <1>4, <2>2, <3>2, <3>4, Zenon
    <3> QED
      BY <3>1, <3>3, <3>5, Zenon
  <2>3. CASE s # as
    <3>1. Installed(s)' = Installed(s) /\ ~Updating(s)'
      BY <1>4, <1>5, <2>3, InstalledKept, ZenonT(60) DEF Updating
    <3> QED
      BY <2>1, <3>1
  <2> QED
    BY <2>2, <2>3, Zenon
<1>9. Grace'
  <2>1. ASSUME NEW s \in AddressSpaces, Updating(s)' PROVE ~freed'[s]
    BY <1>4, <1>5, <2>1, Zenon DEF Updating
  <2>2. ASSUME NEW u \in Readers
        PROVE  /\ reader'[u].held # {} \/ reader'[u].gfn # None => reader'[u].in
               /\ \A b \in reader'[u].held : b = memslots'[0] \/ Waited(u)'
               /\ reader'[u].gfn # None =>
                     ~HasSlot(Installed(0)', reader'[u].gfn) \/ Waited(u)'
    <3>1. ~Waited(u)
      BY <1>1, Zenon DEF Waited, Updating
    <3>2. /\ reader[u].held # {} \/ reader[u].gfn # None => reader[u].in
          /\ \A b \in reader[u].held : b = memslots[0]
          /\ reader[u].gfn # None => ~HasSlot(Installed(0), reader[u].gfn)
      BY <3>1, ZenonT(60) DEF MemInv, Grace
    <3>3. CASE as = 0
      <4>1. reader[u].in => Waited(u)'
        BY <1>5, <3>3, Zenon DEF Waited, Updating, InSection
      <4> QED
        BY <1>1, <3>2, <4>1, SMTT(30), ZenonT(60)
    <3>4. CASE as # 0
      <4>1. Installed(0)' = Installed(0) /\ memslots'[0] = memslots[0]
        BY <1>4, <3>4, SpaceFacts, InstalledKept, Zenon
      <4> QED
        BY <1>1, <3>2, <4>1, Zenon
    <3> QED
      BY <3>3, <3>4, Zenon
  <2> QED
    BY <2>1, <2>2, Zenon DEF Grace
<1> QED
  BY <1>1, <1>6, <1>7, <1>8, <1>9, Zenon DEF MemInv

LEMMA InstallUpdatedInv ==
  ASSUME MemInv, InstallUpdated
  PROVE  MemInv'
<1>1. PICK as : as = writer.as
  BY Zenon
<1>2. PICK gen : gen = AdvanceGeneration(Installed(as).generation)
  BY Zenon
<1>3. /\ writer.pc = "sync_invalid" /\ writer.wait = {} /\ as \in AddressSpaces
      /\ ArraysShape' /\ OthersKept(as)
      /\ memslots'[as] = Other(as) /\ freed' = freed
      /\ Good(Installed(as)')
      /\ Installed(as)'.generation = (gen + 1) % GenMod
      /\ writer' = [writer EXCEPT !.pc = "sync_new", !.wait = InSection]
      /\ mmio' = [g \in Gfn |-> None] /\ reader' = reader /\ updates' = updates /\ ~warned'
  BY <1>1, <1>2, InstallUpdatedIs
<1>4. writer \in [pc : {"idle", "sync_invalid", "sync_new"}, as : AddressSpaces,
                  new : Slot, wait : SUBSET Readers]
  BY Zenon DEF MemInv, Shape
<1>5. writer'.pc = "sync_new" /\ writer'.as = as /\ writer'.wait = InSection
  BY <1>1, <1>3, <1>4, Zenon
<1>6. Shape'
  <2>1. InSection \in SUBSET Readers
    BY Zenon DEF InSection
  <2>2. writer' \in [pc : {"idle", "sync_invalid", "sync_new"}, as : AddressSpaces,
                     new : Slot, wait : SUBSET Readers]
    BY <1>3, <1>4, <2>1, Zenon
  <2>3. mmio' \in [Gfn -> (0 .. GenMod - 1) \cup {None}]
    BY <1>3, SMTT(30), ZenonT(60)
  <2> QED
    BY <1>3, <2>2, <2>3, Zenon DEF MemInv, Shape, ArraysShape
<1>7. Slots'
  <2>1. ASSUME NEW s \in AddressSpaces PROVE Good(Installed(s)')
    <3>1. CASE s = as
      BY <1>3, <3>1, SMTT(30), ZenonT(60)
    <3>2. CASE s # as
      <4>1. Installed(s)' = Installed(s)
        BY <1>3, <3>2, InstalledKept, Zenon
      <4> QED
        BY <4>1, Zenon DEF MemInv, Slots
    <3> QED
      BY <3>1, <3>2, Zenon
  <2> QED
    BY <1>5, <2>1, Zenon DEF Slots
<1>8. Generations'
  <2> SUFFICES ASSUME NEW s \in AddressSpaces
               PROVE  Installed(s)'.generation % 4 =
                        (IF s = 0 THEN 2 ELSE 0) + (IF Updating(s)' THEN 1 ELSE 0)
    BY Zenon DEF Generations
  <2>1. CASE s = as
    <3>1. Updating(s)' /\ Updating(s)
      BY <1>1, <1>3, <1>5, <2>1, SMTT(30), Zenon DEF Updating
    <3>2. PICK g \in 0 .. GenMod - 1 : g = Installed(s).generation
      BY ShapeFacts, Zenon DEF MemInv
    <3>3. PICK c \in {0, 2} : c = IF s = 0 THEN 2 ELSE 0
      BY Zenon
    <3>4. g % 4 = c + 1
      BY <3>1, <3>2, <3>3, Zenon DEF MemInv, Generations
    <3>5. gen \in 0 .. GenMod - 1 /\ gen % 4 = c
      BY <1>2, <2>1, <3>2, <3>4, GenSteps, Zenon
    <3>6. (gen + 1) % GenMod = gen + 1 /\ (gen + 1) % 4 = c + 1
      BY <3>5, GenSteps, Zenon
    <3>7. Installed(s)'.generation % 4 = c + 1
      BY <1>3, <2>1, <3>6, Zenon
    <3> QED
      BY <3>1, <3>3, <3>7, Zenon
  <2>2. CASE s # as
    <3>1. Installed(s)' = Installed(s) /\ ~Updating(s)' /\ ~Updating(s)
      BY <1>1, <1>3, <1>5, <2>2, InstalledKept, ZenonT(60) DEF Updating
    <3> QED
      BY <3>1, Zenon DEF MemInv, Generations
  <2> QED
    BY <2>1, <2>2, Zenon
<1>9. Grace'
  <2>1. ASSUME NEW s \in AddressSpaces, Updating(s)' PROVE ~freed'[s]
    <3>1. Updating(s)
      BY <1>1, <1>3, <1>5, <2>1, Zenon DEF Updating
    <3> QED
      BY <1>3, <3>1, Zenon DEF MemInv, Grace
  <2>2. ASSUME NEW u \in Readers
        PROVE  /\ reader'[u].held # {} \/ reader'[u].gfn # None => reader'[u].in
               /\ \A b \in reader'[u].held : b = memslots'[0] \/ Waited(u)'
               /\ reader'[u].gfn # None =>
                     ~HasSlot(Installed(0)', reader'[u].gfn) \/ Waited(u)'
    <3>1. ~Waited(u)
      BY <1>3, SMTT(30), ZenonT(60) DEF Waited
    <3>2. /\ reader[u].held # {} \/ reader[u].gfn # None => reader[u].in
          /\ \A b \in reader[u].held : b = memslots[0]
          /\ reader[u].gfn # None => ~HasSlot(Installed(0), reader[u].gfn)
      BY <3>1, Zenon DEF MemInv, Grace
    <3>3. CASE as = 0
      <4>1. reader[u].in => Waited(u)'
        BY <1>5, <3>3, Zenon DEF Waited, Updating, InSection
      <4> QED
        BY <1>3, <3>2, <4>1, Zenon
    <3>4. CASE as # 0
      <4>1. Installed(0)' = Installed(0) /\ memslots'[0] = memslots[0]
        BY <1>3, <3>4, SpaceFacts, InstalledKept, Zenon
      <4> QED
        BY <1>3, <3>2, <4>1, Zenon
    <3> QED
      BY <3>3, <3>4, Zenon
  <2> QED
    BY <2>1, <2>2, Zenon DEF Grace
<1> QED
  BY <1>3, <1>6, <1>7, <1>8, <1>9, Zenon DEF MemInv

LEMMA FinishUpdateInv ==
  ASSUME MemInv, FinishUpdate
  PROVE  MemInv'
<1>1. PICK as : as = writer.as
  BY Zenon
<1>2. PICK gen : gen = AdvanceGeneration(Installed(as).generation)
  BY Zenon
<1>3. /\ writer.pc = "sync_new" /\ writer.wait = {} /\ as \in AddressSpaces
      /\ ArraysShape' /\ OthersKept(as)
      /\ memslots' = memslots
      /\ Same(Installed(as), Installed(as)')
      /\ Installed(as)'.generation = gen
      /\ writer' = Idle
      /\ mmio' = InvalidateMmioSptes(gen, mmio)
      /\ reader' = reader /\ updates' = updates /\ warned' = warned
  BY <1>1, <1>2, FinishUpdateIs, SMTT(30), Zenon
<1>4. writer'.pc = "idle" /\ \A s \in AddressSpaces : ~Updating(s)'
  BY <1>3, SMTT(30), ZenonT(60) DEF Idle, Updating
<1>5. Shape'
  <2>1. EmptySlot(0) \in Slot
    BY EmptyIs, Zenon
  <2>2. writer' \in [pc : {"idle", "sync_invalid", "sync_new"}, as : AddressSpaces,
                     new : Slot, wait : SUBSET Readers]
    BY <1>3, <2>1, SpaceFacts, SMTT(30), ZenonT(60) DEF Idle
  <2>3. mmio' \in [Gfn -> (0 .. GenMod - 1) \cup {None}]
    BY <1>3, SMTT(30), Zenon DEF InvalidateMmioSptes, MemInv, Shape
  <2> QED
    BY <1>3, <2>2, <2>3, SMTT(30), ZenonT(60) DEF MemInv, Shape, ArraysShape
<1>6. Slots'
  <2>1. ASSUME NEW s \in AddressSpaces PROVE Good(Installed(s)')
    <3>1. Good(Installed(s))
      BY Zenon DEF MemInv, Slots
    <3>2. CASE s = as
      BY <1>3, <3>1, <3>2, SameFacts, Zenon
    <3>3. CASE s # as
      <4>1. Installed(s)' = Installed(s)
        BY <1>3, <3>3, InstalledKept, Zenon
      <4> QED
        BY <3>1, <4>1, Zenon
    <3> QED
      BY <3>2, <3>3, Zenon
  <2> QED
    BY <1>4, <2>1, Zenon DEF Slots
<1>7. Generations'
  <2> SUFFICES ASSUME NEW s \in AddressSpaces
               PROVE  Installed(s)'.generation % 4 =
                        (IF s = 0 THEN 2 ELSE 0) + (IF Updating(s)' THEN 1 ELSE 0)
    BY Zenon DEF Generations
  <2>1. CASE s = as
    <3>1. ~Updating(s)' /\ Updating(s)
      BY <1>1, <1>3, <1>4, <2>1, Zenon DEF Updating
    <3>2. PICK g \in 0 .. GenMod - 1 : g = Installed(s).generation
      BY ShapeFacts, Zenon DEF MemInv
    <3>3. PICK c \in {0, 2} : c = IF s = 0 THEN 2 ELSE 0
      BY Zenon
    <3>4. g % 4 = c + 1
      BY <3>1, <3>2, <3>3, Zenon DEF MemInv, Generations
    <3>5. gen % 4 = c
      BY <1>2, <2>1, <3>2, <3>4, GenSteps, Zenon
    <3>6. Installed(s)'.generation % 4 = c
      BY <1>3, <2>1, <3>5, ZenonT(60)
    <3> QED
      BY <3>1, <3>3, <3>6, SMTT(30), Zenon
  <2>2. CASE s # as
    <3>1. Installed(s)' = Installed(s) /\ ~Updating(s)' /\ ~Updating(s)
      BY <1>1, <1>3, <1>4, <2>2, InstalledKept, Zenon DEF Updating
    <3> QED
      BY <3>1, Zenon DEF MemInv, Generations
  <2> QED
    BY <2>1, <2>2, Zenon
<1>8. Grace'
  <2>1. ASSUME NEW u \in Readers
        PROVE  /\ reader'[u].held # {} \/ reader'[u].gfn # None => reader'[u].in
               /\ \A b \in reader'[u].held : b = memslots'[0]
               /\ reader'[u].gfn # None => ~HasSlot(Installed(0)', reader'[u].gfn)
    <3>1. ~Waited(u)
      BY <1>3, Zenon DEF Waited
    <3>2. /\ reader[u].held # {} \/ reader[u].gfn # None => reader[u].in
          /\ \A b \in reader[u].held : b = memslots[0]
          /\ reader[u].gfn # None => ~HasSlot(Installed(0), reader[u].gfn)
      BY <3>1, Zenon DEF MemInv, Grace
    <3>3. \A gfn : HasSlot(Installed(0)', gfn) <=> HasSlot(Installed(0), gfn)
      <4>1. CASE as = 0
        BY <1>3, <4>1, SameFacts, Zenon
      <4>2. CASE as # 0
        <5>1. Installed(0)' = Installed(0)
          BY <1>3, <4>2, SpaceFacts, InstalledKept, Zenon
        <5> QED
          BY <5>1, Zenon
      <4> QED
        BY <4>1, <4>2, ZenonT(60)
    <3> QED
      BY <1>3, <3>2, <3>3, SMTT(30), ZenonT(60)
  <2> QED
    BY <1>4, <2>1, ZenonT(60) DEF Grace
<1>9. ~warned'
  BY <1>3, Zenon DEF MemInv
<1> QED
  BY <1>5, <1>6, <1>7, <1>8, <1>9, ZenonT(60) DEF MemInv

\* A step of reader r changes no array, and of the writer only whether it waits for r.
ReaderStep(r) ==
    /\ arr' = arr /\ memslots' = memslots /\ freed' = freed /\ warned' = warned
    /\ updates' = updates
    /\ reader' \in [Readers -> [in : BOOLEAN, held : SUBSET Buffers, gfn : Gfn \cup {None}]]
    /\ \A u \in Readers \ {r} : reader'[u] = reader[u]
    /\ writer'.pc = writer.pc /\ writer'.as = writer.as /\ writer'.new = writer.new
    /\ \A u \in Readers \ {r} : u \in writer'.wait <=> u \in writer.wait
    /\ writer' \in [pc : {"idle", "sync_invalid", "sync_new"}, as : AddressSpaces,
                    new : Slot, wait : SUBSET Readers]

\* What Grace says of reader r.
Graced(r) ==
    /\ reader[r].held # {} \/ reader[r].gfn # None => reader[r].in
    /\ \A b \in reader[r].held : b = memslots[0] \/ Waited(r)
    /\ reader[r].gfn # None => ~HasSlot(Installed(0), reader[r].gfn) \/ Waited(r)

LEMMA ReaderStepInv ==
  ASSUME MemInv, NEW r \in Readers, ReaderStep(r), Graced(r)',
         mmio' \in [Gfn -> (0 .. GenMod - 1) \cup {None}]
  PROVE  MemInv'
<1>1. Shape'
  BY Zenon DEF MemInv, Shape, ReaderStep
<1>2. \A s : Installed(s)' = Installed(s) /\ (Updating(s)' <=> Updating(s)) /\ Other(s)' = Other(s)
  BY SMTT(30), Zenon DEF ReaderStep, Installed, Updating, Other
<1>3. Slots'
  <2>1. \A s \in AddressSpaces : Good(Installed(s)')
    BY <1>2, ZenonT(60) DEF MemInv, Slots
  <2>2. writer'.pc = "sync_invalid" =>
           /\ Good(arr'[writer'.as][1 - memslots'[writer'.as]])
           /\ Accepts(arr'[writer'.as][1 - memslots'[writer'.as]], writer'.new)
    BY Zenon DEF MemInv, Slots, ReaderStep, Other
  <2> QED
    BY <2>1, <2>2, Zenon DEF Slots, Other
<1>4. Generations'
  BY <1>2, ZenonT(60) DEF MemInv, Generations
<1>5. Grace'
  <2>1. \A s \in AddressSpaces : Updating(s)' => ~freed'[s]
    BY <1>2, Zenon DEF MemInv, Grace, ReaderStep
  <2>2. ASSUME NEW u \in Readers PROVE Graced(u)'
    <3>1. CASE u = r
      BY <3>1, Zenon
    <3>2. CASE u # r
      <4>1. Graced(u)
        BY ZenonT(60) DEF MemInv, Grace, Graced
      <4>2. reader'[u] = reader[u] /\ memslots' = memslots /\ (Waited(u)' <=> Waited(u))
        BY <1>2, <3>2, ZenonT(60) DEF ReaderStep, Waited
      <4>3. Installed(0)' = Installed(0)
        BY <1>2, SMTT(30), ZenonT(60)
      <4> QED
        BY <4>1, <4>2, <4>3, Zenon DEF Graced
    <3> QED
      BY <3>1, <3>2, Zenon
  <2> QED
    BY <2>1, <2>2, Zenon DEF Grace, Graced
<1>6. ~warned'
  BY Zenon DEF MemInv, ReaderStep
<1> QED
  BY <1>1, <1>3, <1>4, <1>5, <1>6, Zenon DEF MemInv

LEMMA ReadInv ==
  ASSUME MemInv, NEW r \in Readers, Read(r)
  PROVE  MemInv' /\ ReaderStep(r)
<1>1. /\ reader \in [Readers -> [in : BOOLEAN, held : SUBSET Buffers, gfn : Gfn \cup {None}]]
      /\ writer \in [pc : {"idle", "sync_invalid", "sync_new"}, as : AddressSpaces,
                     new : Slot, wait : SUBSET Readers]
      /\ mmio \in [Gfn -> (0 .. GenMod - 1) \cup {None}]
  BY SMTT(30), Zenon DEF MemInv, Shape
<1>2. Graced(r)
  BY Zenon DEF MemInv, Grace, Graced
<1>3. CASE EnterSection(r)
  <2>1. ReaderStep(r) /\ mmio' = mmio
    BY <1>1, <1>3, ZenonT(60) DEF EnterSection, ReaderStep
  <2>2. /\ reader'[r].held = reader[r].held /\ reader'[r].gfn = reader[r].gfn /\ reader'[r].in
        /\ arr' = arr /\ memslots' = memslots /\ writer' = writer
    BY <1>1, <1>3, Zenon DEF EnterSection
  <2>3. Graced(r)'
    BY <1>2, <2>2, Zenon DEF Graced, Waited, Updating, Installed
  <2> QED
    BY <1>1, <2>1, <2>3, ReaderStepInv, Zenon
<1>4. ASSUME NEW gfn \in FaultGfns, Lookup(r, gfn) PROVE MemInv' /\ ReaderStep(r)
  <2>1. gfn \in Gfn /\ memslots[0] \in Buffers
    BY SlotsAssumption, SpaceFacts, Zenon DEF Gfn, MemInv, Shape
  <2>2. /\ reader[r].in
        /\ reader' = [reader EXCEPT ![r].held = @ \cup {memslots[0]},
                                    ![r].gfn = IF HasSlot(Installed(0), gfn) THEN None ELSE gfn]
        /\ arr' = arr /\ memslots' = memslots /\ freed' = freed /\ writer' = writer
        /\ mmio' = mmio /\ warned' = warned /\ updates' = updates
    BY <1>4, Zenon DEF Lookup
  <2>3. /\ reader'[r].held = reader[r].held \cup {memslots[0]}
        /\ reader'[r].gfn = IF HasSlot(Installed(0), gfn) THEN None ELSE gfn
        /\ reader'[r].in = reader[r].in
        /\ reader' = [u \in Readers |-> reader'[u]]
        /\ \A u \in Readers \ {r} : reader'[u] = reader[u]
        /\ reader'[r] = [in |-> reader'[r].in, held |-> reader'[r].held, gfn |-> reader'[r].gfn]
    BY <1>1, <2>2, Zenon
  <2>4. reader' \in [Readers -> [in : BOOLEAN, held : SUBSET Buffers, gfn : Gfn \cup {None}]]
    BY <1>1, <2>1, <2>3, SMTT(30), ZenonT(60)
  <2>5. ReaderStep(r)
    BY <1>1, <2>2, <2>3, <2>4, Zenon DEF ReaderStep
  <2>6. Graced(r)'
    <3>1. (Waited(r)' <=> Waited(r)) /\ Installed(0)' = Installed(0)
      BY <2>2, Zenon DEF Waited, Updating, Installed
    <3>2. \A b \in reader'[r].held : b = memslots'[0] \/ Waited(r)'
      BY <1>2, <2>2, <2>3, <3>1, SMTT(30), ZenonT(60) DEF Graced
    <3>3. reader'[r].gfn # None => ~HasSlot(Installed(0)', reader'[r].gfn)
      BY <2>3, <3>1, Zenon
    <3> QED
      BY <2>2, <2>3, <3>2, <3>3, Zenon DEF Graced
  <2> QED
    BY <1>1, <2>2, <2>5, <2>6, ReaderStepInv, SMTT(30), Zenon
<1>5. CASE MarkMmioSpte(r)
  <2>1. /\ reader[r].gfn # None
        /\ mmio' = [mmio EXCEPT ![reader[r].gfn] = EvenPart(Installed(0).generation)]
        /\ reader' = [reader EXCEPT ![r].gfn = None]
        /\ arr' = arr /\ memslots' = memslots /\ freed' = freed /\ writer' = writer
        /\ warned' = warned /\ updates' = updates
    BY <1>5, Zenon DEF MarkMmioSpte
  <2>2. EvenPart(Installed(0).generation) \in 0 .. GenMod - 1
    <3>1. PICK g \in 0 .. GenMod - 1 : g = Installed(0).generation
      BY SpaceFacts, ShapeFacts, Zenon DEF MemInv
    <3>2. EvenPart(g) \in 0 .. GenMod - 1
      BY GenFacts DEF EvenPart
    <3> QED
      BY <3>1, <3>2, SMTT(30), ZenonT(60)
  <2>3. mmio' \in [Gfn -> (0 .. GenMod - 1) \cup {None}]
    BY <1>1, <2>1, <2>2, Zenon
  <2>4. ReaderStep(r)
    BY <1>1, <2>1 DEF ReaderStep
  <2>5. /\ reader'[r].held = reader[r].held /\ reader'[r].gfn = None
        /\ reader'[r].in = reader[r].in
    BY <1>1, <2>1, Zenon
  <2>6. Graced(r)'
    BY <1>2, <2>1, <2>5, Zenon DEF Graced, Waited, Updating
  <2> QED
    BY <2>3, <2>4, <2>6, ReaderStepInv, Zenon
<1>6. CASE LeaveSection(r)
  <2>1. /\ reader' = [reader EXCEPT ![r] = Out]
        /\ writer' = [writer EXCEPT !.wait = @ \ {r}]
        /\ arr' = arr /\ memslots' = memslots /\ freed' = freed /\ mmio' = mmio
        /\ warned' = warned /\ updates' = updates
    BY <1>6, SMTT(30), ZenonT(60) DEF LeaveSection
  <2>2. Out \in [in : BOOLEAN, held : SUBSET Buffers, gfn : Gfn \cup {None}]
        /\ Out.held = {} /\ Out.gfn = None
    BY Zenon DEF Out
  <2>3. ReaderStep(r)
    BY <1>1, <2>1, <2>2, Zenon DEF ReaderStep
  <2>4. Graced(r)'
    BY <1>1, <2>1, <2>2, Zenon DEF Graced
  <2> QED
    BY <1>1, <2>1, <2>3, <2>4, ReaderStepInv, Zenon
<1> QED
  BY <1>3, <1>4, <1>5, <1>6, SMTT(30), ZenonT(60) DEF Read

LEMMA Residues == (0 - 150) % 4 = 2 /\ (0 - 148) % 4 = 0
<1>1. \A x \in Int : (x + 150 = 0 => x % 4 = 2) /\ (x + 148 = 0 => x % 4 = 0)
  OBVIOUS
<1>2. /\ 0 - 150 \in Int /\ (0 - 150) + 150 = 0
      /\ 0 - 148 \in Int /\ (0 - 148) + 148 = 0
  OBVIOUS
<1> QED
  BY <1>1, <1>2, ZenonT(60)

\* vmrun_create_vm allocates the arrays with the generations -150 and -148.
LEMMA MemInit == Init => MemInv
<1> SUFFICES ASSUME Init PROVE MemInv
  BY Zenon
<1>1. \A as \in AddressSpaces : Installed(as) = AllocMemslots(as)
  BY Zenon DEF Init, Installed, Buffers
<1>2. writer.pc = "idle" /\ \A as : ~Updating(as)
  BY Zenon DEF Init, Idle, Updating
<1>3. Shape
  <2>1. EmptySlot(0) \in Slot
    BY EmptyIs, Zenon
  <2>2. writer \in [pc : {"idle", "sync_invalid", "sync_new"}, as : AddressSpaces,
                    new : Slot, wait : SUBSET Readers]
    BY <2>1, SpaceFacts, SMTT(30), ZenonT(60) DEF Init, Idle
  <2>3. arr \in [AddressSpaces -> [Buffers -> Array]]
    BY AllocGood, SMTT(30), Zenon DEF Init
  <2>4. reader \in [Readers -> [in : BOOLEAN, held : SUBSET Buffers, gfn : Gfn \cup {None}]]
    BY Zenon DEF Init, Out
  <2>5. updates \in 0 .. MaxUpdates
    BY SlotsAssumption DEF Init
  <2>6. /\ memslots \in [AddressSpaces -> Buffers] /\ freed \in [AddressSpaces -> BOOLEAN]
        /\ mmio \in [Gfn -> (0 .. GenMod - 1) \cup {None}]
    BY SMTT(30), ZenonT(60) DEF Init, Buffers
  <2> QED
    BY <2>2, <2>3, <2>4, <2>5, <2>6, SMTT(30), ZenonT(60) DEF Shape
<1>4. Slots
  BY <1>1, <1>2, AllocGood, Zenon DEF Slots
<1>5. Generations
  <2> SUFFICES ASSUME NEW as \in AddressSpaces
               PROVE  Installed(as).generation % 4 = IF as = 0 THEN 2 ELSE 0
    <3>1. ASSUME NEW as \in AddressSpaces,
                 Installed(as).generation % 4 = IF as = 0 THEN 2 ELSE 0
          PROVE  Installed(as).generation % 4 =
                   (IF as = 0 THEN 2 ELSE 0) + (IF Updating(as) THEN 1 ELSE 0)
      <4>1. PICK c \in {0, 2} : c = IF as = 0 THEN 2 ELSE 0
        BY Zenon
      <4>2. c + 0 = c
        BY <4>1
      <4> QED
        BY <1>2, <3>1, <4>1, <4>2, Zenon
    <3> QED
      BY <3>1, Zenon DEF Generations
  <2>1. Installed(as).generation = (as * 2 - 150) % GenMod
    BY <1>1, AllocGood, Zenon
  <2>2. CASE as = 0
    <3>1. PICK x \in Int : x = as * 2 - 150 /\ x = 0 - 150
      BY <2>2
    <3>2. (x % GenMod) % 4 = x % 4
      BY ModFour, Zenon
    <3>3. x % 4 = 2
      BY <3>1, Residues, Zenon
    <3> QED
      BY <2>1, <2>2, <3>1, <3>2, <3>3, Zenon
  <2>3. CASE as = 1
    <3>1. PICK x \in Int : x = as * 2 - 150 /\ x = 0 - 148
      BY <2>3
    <3>2. (x % GenMod) % 4 = x % 4
      BY ModFour, Zenon
    <3>3. x % 4 = 0
      BY <3>1, Residues, Zenon
    <3> QED
      BY <2>1, <2>3, <3>1, <3>2, <3>3, Zenon
  <2> QED
    BY <2>2, <2>3, SpaceFacts, Zenon
<1>6. Grace
  BY <1>2, Zenon DEF Grace, Init, Out
<1>7. ~warned
  BY Zenon DEF Init
<1> QED
  BY <1>3, <1>4, <1>5, <1>6, <1>7, Zenon DEF MemInv

LEMMA MemNext == MemInv /\ [Next]_vars => MemInv'
<1> SUFFICES ASSUME MemInv, [Next]_vars PROVE MemInv'
  BY Zenon
<1>1. CASE Write
  BY <1>1, SetInv, InstallUpdatedInv, FinishUpdateInv, Zenon DEF Write
<1>2. ASSUME NEW r \in Readers, Read(r) PROVE MemInv'
  BY <1>2, ReadInv, ZenonT(60)
<1>3. CASE UNCHANGED vars
  BY <1>3, Zenon DEF vars, MemInv, Shape, Slots, Generations, Grace, Waited, Updating, Installed, Other
<1> QED
  BY <1>1, <1>2, <1>3, Zenon DEF Next

\* The memslots arrays of one VM, the update in progress and its readers stay in
\* their types.
THEOREM MemTypes == Spec => []TypeOK
<1> DEFINE Flag == warned \in BOOLEAN
<1>1. MemInv /\ Flag => TypeOK
  <2> SUFFICES ASSUME MemInv, Flag PROVE TypeOK
    BY Zenon
  <2>1. \A as \in AddressSpaces, b \in Buffers : arr[as][b] \in Array
    BY ZenonT(60) DEF MemInv, Shape
  <2> QED
    BY <2>1, Zenon DEF MemInv, Shape, TypeOK, Array
<1>2. Init => Flag
  BY Zenon DEF Init
<1>3. Flag /\ [Next]_vars => Flag'
  <2> SUFFICES ASSUME Flag, [Next]_vars PROVE Flag'
    BY Zenon
  <2>1. ASSUME NEW r \in Requests, SetMemoryRegion(r.as, r.id, r.base, r.n, r.log) PROVE Flag'
    BY <2>1, Zenon DEF SetMemoryRegion
  <2>2. CASE InstallUpdated
    BY <2>2, Zenon DEF InstallUpdated
  <2>3. CASE FinishUpdate
    BY <2>3, Zenon DEF FinishUpdate
  <2>4. ASSUME NEW r \in Readers, Read(r) PROVE Flag'
    BY <2>4, Zenon DEF Read, EnterSection, Lookup, MarkMmioSpte, LeaveSection
  <2>5. CASE UNCHANGED vars
    BY <2>5, Zenon DEF vars
  <2> HIDE DEF Flag
  <2> QED
    BY <2>1, <2>2, <2>3, <2>4, <2>5, Zenon DEF Next, Write
<1> HIDE DEF Flag
<1> QED
  BY <1>1, <1>2, <1>3, MemInit, MemNext, PTL DEF Spec

\* Whatever sequence of creates, deletes, moves and flag changes the ioctl accepts,
\* every array a reader can find installed is sorted, packed, indexed by id and
\* free of overlaps: the two loops of vmrun_update_memslots are an insertion.
THEOREM MemWellFormed == Spec => []InstalledWellFormed
<1>1. MemInv => InstalledWellFormed
  BY Zenon DEF MemInv, Slots, Good, InstalledWellFormed
<1> QED
  BY <1>1, MemInit, MemNext, PTL DEF Spec

\* The WARN_ONs of id_to_memslot, vmrun_update_memslots and
\* vmrun_install_new_memslots never fire.
THEOREM MemNoWarn == Spec => []NoWarn
<1>1. MemInv => NoWarn
  BY Zenon DEF MemInv, NoWarn
<1> QED
  BY <1>1, MemInit, MemNext, PTL DEF Spec

\* No generation an MMIO spte can store belongs to both address spaces, however
\* often the generations wrap around.
THEOREM MemGenerations == Spec => []GenerationsUnique
<1>1. MemInv => GenerationsUnique
  <2> SUFFICES ASSUME MemInv, NEW as \in AddressSpaces, NEW as2 \in AddressSpaces, as # as2
               PROVE  EvenPart(Installed(as).generation) # EvenPart(Installed(as2).generation)
    BY Zenon DEF GenerationsUnique
  <2>1. PICK g \in 0 .. GenMod - 1 : g = Installed(as).generation
    BY ShapeFacts, Zenon DEF MemInv
  <2>2. PICK g2 \in 0 .. GenMod - 1 : g2 = Installed(as2).generation
    BY ShapeFacts, Zenon DEF MemInv
  <2>3. PICK x \in {0, 2} : x = IF as = 0 THEN 2 ELSE 0
    BY Zenon
  <2>4. PICK y \in {0, 2} : y = IF as2 = 0 THEN 2 ELSE 0
    BY Zenon
  <2>5. x # y
    <3>1. CASE as = 0
      <4>1. x = 2 /\ y = 0
        BY <2>3, <2>4, <3>1, Zenon
      <4> QED
        BY <4>1
    <3>2. CASE as # 0
      <4>1. as2 = 0
        BY <3>2, SpaceFacts, Zenon
      <4>2. x = 0 /\ y = 2
        BY <2>3, <2>4, <3>2, <4>1, Zenon
      <4> QED
        BY <4>2
    <3> QED
      BY <3>1, <3>2, Zenon
  <2>6. g % 4 \in {x, x + 1} /\ g2 % 4 \in {y, y + 1}
    <3>1. g % 4 = x + (IF Updating(as) THEN 1 ELSE 0)
      BY <2>1, <2>3, Zenon DEF MemInv, Generations
    <3>2. g2 % 4 = y + (IF Updating(as2) THEN 1 ELSE 0)
      BY <2>2, <2>4, Zenon DEF MemInv, Generations
    <3>3. x + 0 = x /\ y + 0 = y
      OBVIOUS
    <3> QED
      BY <3>1, <3>2, <3>3, Zenon
  <2>7. EvenPart(g) % 4 = x /\ EvenPart(g2) % 4 = y
    BY <2>6, GenFacts DEF EvenPart
  <2> QED
    BY <2>1, <2>2, <2>5, <2>7, Zenon
<1> QED
  BY <1>1, MemInit, MemNext, PTL DEF Spec

\* The writer re-uses the array it replaced, but no reader sees the slots of an
\* array it holds change, and none is left with a freed array: synchronize_srcu
\* stands between every re-use and the readers of the array.
THEOREM MemReadersStable == Spec => ReadersStable
<1> DEFINE Stable == \A r \in Readers : \A b \in reader[r].held \cap reader'[r].held :
                        /\ arr'[0][b].mslots = arr[0][b].mslots
                        /\ ~(freed'[0] /\ b # memslots'[0])
<1>1. ASSUME MemInv, [Next]_vars PROVE [Stable]_vars
  <2> SUFFICES ASSUME Next, NEW r \in Readers, NEW b \in reader[r].held
               PROVE  /\ arr'[0][b].mslots = arr[0][b].mslots
                      /\ ~(freed'[0] /\ b # memslots'[0])
    BY <1>1, ZenonT(60)
  <2>1. /\ b = memslots[0] \/ Waited(r)
        /\ \A s \in AddressSpaces : Updating(s) => ~freed[s]
    BY <1>1, Zenon DEF MemInv, Grace
  <2>2. ASSUME NEW q \in Requests, SetMemoryRegion(q.as, q.id, q.base, q.n, q.log)
        PROVE  /\ arr'[0][b].mslots = arr[0][b].mslots
               /\ ~(freed'[0] /\ b # memslots'[0])
    <3>1. b = memslots[0]
      BY <1>1, <2>1, <2>2, SetIs, ZenonT(60) DEF Waited, Updating
    <3>2. PICK a \in Array : Install(q.as, a) /\ q.as \in AddressSpaces
      BY <1>1, <2>2, SetIs, Zenon
    <3>3. PICK as \in AddressSpaces : as = q.as
      BY <3>2, ZenonT(60)
    <3>4. /\ OthersKept(as) /\ ~freed'[as] /\ arr'[as][memslots[as]] = Installed(as)
      BY <1>1, <3>2, <3>3, InstallIs, Zenon DEF MemInv
    <3>5. CASE as = 0
      BY <3>1, <3>4, <3>5, Zenon DEF Installed
    <3>6. CASE as # 0
      BY <3>1, <3>4, <3>6, SpaceFacts, InstalledKept, Zenon
    <3> QED
      BY <3>5, <3>6, Zenon
  <2>3. CASE InstallUpdated
    <3>1. PICK as : as = writer.as
      BY Zenon
    <3>2. PICK gen : gen = AdvanceGeneration(Installed(as).generation)
      BY Zenon
    <3>3. /\ writer.pc = "sync_invalid" /\ writer.wait = {} /\ as \in AddressSpaces
          /\ OthersKept(as) /\ freed' = freed
          /\ Same(Installed(as), arr'[as][memslots[as]])
      BY <1>1, <2>3, <3>1, <3>2, InstallUpdatedIs, SMTT(30), Zenon
    <3>4. b = memslots[0]
      BY <2>1, <3>3, Zenon DEF Waited
    <3>5. CASE as = 0
      <4>1. ~freed'[0]
        BY <2>1, <3>1, <3>3, <3>5, Zenon DEF Updating
      <4> QED
        BY <3>3, <3>4, <3>5, <4>1, Zenon DEF Same, Installed
    <3>6. CASE as # 0
      BY <3>3, <3>4, <3>6, SpaceFacts, InstalledKept, ZenonT(60)
    <3> QED
      BY <3>5, <3>6, Zenon
  <2>4. CASE FinishUpdate
    <3>1. PICK as : as = writer.as
      BY Zenon
    <3>2. PICK gen : gen = AdvanceGeneration(Installed(as).generation)
      BY Zenon
    <3>3. /\ writer.pc = "sync_new" /\ writer.wait = {} /\ as \in AddressSpaces
          /\ OthersKept(as) /\ memslots' = memslots
          /\ Same(Installed(as), Installed(as)')
      BY <1>1, <2>4, <3>1, <3>2, FinishUpdateIs, SMTT(30), ZenonT(60)
    <3>4. b = memslots[0]
      BY <2>1, <3>3, SMTT(30), Zenon DEF Waited
    <3>5. CASE as = 0
      BY <3>3, <3>4, <3>5, Zenon DEF Same, Installed
    <3>6. CASE as # 0
      BY <3>3, <3>4, <3>6, SpaceFacts, InstalledKept, Zenon
    <3> QED
      BY <3>5, <3>6, Zenon
  <2>5. ASSUME NEW u \in Readers, Read(u)
        PROVE  /\ arr'[0][b].mslots = arr[0][b].mslots
               /\ ~(freed'[0] /\ b # memslots'[0])
    <3>1. arr' = arr /\ memslots' = memslots /\ freed' = freed
      BY <1>1, <2>5, ReadInv, SMTT(30), ZenonT(60) DEF ReaderStep
    <3>2. b = memslots[0] \/ ~freed[0]
      BY <2>1, SpaceFacts, SMTT(30), ZenonT(60) DEF Waited
    <3> QED
      BY <3>1, <3>2, ZenonT(60)
  <2> QED
    BY <2>2, <2>3, <2>4, <2>5, Zenon DEF Next, Write
<1> QED
  BY <1>1, MemInit, MemNext, PTL DEF Spec, ReadersStable

-----------------------------------------------------------------------------
(* MMIO sptes *)

LEMMA FirstIs == First \in 0 .. GenMod - 1 /\ First % 4 = 2
<1>1. PICK x \in Int : x = 0 - 150
  OBVIOUS
<1>2. x % GenMod \in 0 .. GenMod - 1 /\ (x % GenMod) % 4 = x % 4
  BY ModFour, Zenon
<1>3. x % 4 = 2
  BY <1>1, Residues, Zenon
<1>4. First = x % GenMod
  BY <1>1, Zenon DEF First
<1> QED
  BY <1>2, <1>3, <1>4, Zenon

\* A generation has an age; equal ages mean equal generations.
LEMMA AgeIs ==
  ASSUME NEW g \in 0 .. GenMod - 1
  PROVE  /\ Age(g) \in 0 .. GenMod - 1
         /\ EvenPart(g) \in 0 .. GenMod - 1 /\ EvenPart(g) % 2 = 0
         /\ g % 2 = 0 => EvenPart(g) = g
         /\ g % 2 = 1 => EvenPart(g) = g - 1
<1>1. Age(g) \in 0 .. GenMod - 1
  BY FirstIs, GenFacts DEF Age
<1>2. /\ EvenPart(g) \in 0 .. GenMod - 1 /\ EvenPart(g) % 2 = 0
      /\ g % 2 = 0 => EvenPart(g) = g
      /\ g % 2 = 1 => EvenPart(g) = g - 1
  BY GenFacts DEF EvenPart
<1> QED
  BY <1>1, <1>2, Zenon

\* Installing an array keeps the age, the last step of an update adds four.
LEMMA AgeSteps ==
  ASSUME NEW g \in 0 .. GenMod - 1
  PROVE  /\ g % 4 = 2 => EvenPart(g + 1) = EvenPart(g) /\ (g + 1) % 2 = 1
         /\ g % 4 = 3 /\ Age(EvenPart(g)) + 4 < GenMod =>
               LET h == AdvanceGeneration(g)
               IN  /\ h % 4 = 2 /\ h % 2 = 0 /\ EvenPart(h) = h
                   /\ Age(h) = Age(EvenPart(g)) + 4
<1>1. g \in Nat /\ g < GenMod /\ GenMod \in Nat /\ GenMod % 4 = 0
  BY GenFacts
<1>2. g % 4 = 2 => EvenPart(g + 1) = EvenPart(g) /\ (g + 1) % 2 = 1
  BY <1>1 DEF EvenPart
<1>3. ASSUME g % 4 = 3, Age(EvenPart(g)) + 4 < GenMod, NEW h, h = AdvanceGeneration(g)
      PROVE  /\ h % 4 = 2 /\ h % 2 = 0 /\ EvenPart(h) = h
             /\ Age(h) = Age(EvenPart(g)) + 4
  <2>1. h = IF g + 3 < GenMod THEN g + 3 ELSE g + 3 - GenMod
    BY <1>3, AdvanceIs, Zenon
  <2>2. h \in Nat /\ h % 4 = 2 /\ h % 2 = 0 /\ h < GenMod
    BY <1>1, <1>3, <2>1
  <2>3. EvenPart(h) = h
    BY <2>2 DEF EvenPart
  <2>4. EvenPart(g) = g - 1
    BY <1>1, <1>3 DEF EvenPart
  <2>5. PICK f \in Nat : f = First /\ f < GenMod /\ f % 4 = 2
    BY FirstIs, GenFacts
  <2>6. Age(g - 1) + 4 < GenMod
    BY <1>3, <2>4, Zenon
  <2>7. Age(g - 1) = IF g - 1 >= f THEN g - 1 - f ELSE g - 1 - f + GenMod
    BY <2>5, Zenon DEF Age
  <2>8. Age(h) = IF h >= f THEN h - f ELSE h - f + GenMod
    BY <2>5, Zenon DEF Age
  <2>9. Age(h) = Age(g - 1) + 4
    <3> DEFINE e == g - 1
    <3>1. e \in Nat /\ e % 4 = 2 /\ h = IF e + 4 < GenMod THEN e + 4 ELSE e + 4 - GenMod
      BY <1>1, <1>3, <2>1
    <3>2. CASE e >= f
      <4>1. e - f + 4 < GenMod
        BY <1>1, <2>6, <2>7, <3>2, SMTT(30), ZenonT(60)
      <4>2. CASE e + 4 < GenMod
        BY <1>1, <2>5, <2>7, <2>8, <3>1, <3>2, <4>2, SMTT(30)
      <4>3. CASE e + 4 >= GenMod
        <5>1. h = e + 4 - GenMod /\ h < f
          BY <1>1, <2>5, <3>1, <4>1, <4>3, SMTT(30)
        <5> QED
          BY <1>1, <2>5, <2>7, <2>8, <3>1, <3>2, <5>1, SMTT(30)
      <4> QED
        BY <1>1, <4>2, <4>3
    <3>3. CASE e < f
      <4>1. e - f + GenMod + 4 < GenMod
        BY <1>1, <2>5, <2>6, <2>7, <3>3, SMTT(30), ZenonT(60)
      <4>2. h = e + 4 /\ h < f
        BY <1>1, <2>5, <3>1, <4>1, SMTT(30), ZenonT(60)
      <4> QED
        BY <1>1, <2>5, <2>7, <2>8, <3>1, <3>3, <4>2, SMTT(30)
    <3> QED
      BY <1>1, <2>5, <3>2, <3>3, SMTT(30), ZenonT(60)
  <2> QED
    BY <2>2, <2>3, <2>4, <2>9, Zenon
<1> QED
  BY <1>2, <1>3, Zenon

LEMMA BoundGrows ==
  ASSUME NEW a \in Nat, NEW n \in Nat, NEW u \in Nat, NEW v \in Nat,
         a <= 8 * u - n, v >= u
  PROVE  a <= 8 * v - n
  BY SMTT(30)

\* A step that leaves address space 0 and its update alone, and adds no spte.
LEMMA AgesKept ==
  ASSUME MemInv, Ages, Installed(0)'.generation = Installed(0).generation,
         \A gfn \in Gfn : HasSlot(Installed(0)', gfn) => HasSlot(Installed(0), gfn),
         Left' = Left, updates' \in Nat, updates' >= updates,
         \A gfn \in Gfn : mmio'[gfn] = None \/ mmio'[gfn] = mmio[gfn]
  PROVE  Ages'
<1>1. PICK g \in 0 .. GenMod - 1 : g = Installed(0).generation /\ g = Installed(0)'.generation
  BY SpaceFacts, ShapeFacts, SMTT(30), ZenonT(60) DEF MemInv
<1>2. PICK a \in 0 .. GenMod - 1 : a = Age(EvenPart(g))
  BY AgeIs, SMTT(30), ZenonT(60)
<1>3. PICK n \in Nat : n = Left
  <2>1. CASE ~Updating(0)
    BY <2>1, Zenon DEF Left
  <2>2. CASE Updating(0) /\ writer.pc = "sync_invalid"
    BY <2>2, Zenon DEF Left
  <2>3. CASE Updating(0) /\ writer.pc = "sync_new"
    BY <2>3, SMTT(30), ZenonT(60) DEF Left
  <2> QED
    BY <2>1, <2>2, <2>3, Zenon DEF Updating, MemInv, Shape
<1>4. a <= 8 * updates - n
  BY <1>1, <1>2, <1>3, Zenon DEF Ages
<1>5. a <= 8 * updates' - n
  <2>1. PICK u \in Nat : u = updates
    BY UpdatesNat, Zenon
  <2>2. PICK v \in Nat : v = updates' /\ v >= u
    BY <2>1, SMTT(30), ZenonT(60)
  <2>3. a <= 8 * u - n
    BY <1>4, <2>1, Zenon
  <2>4. a <= 8 * v - n
    <3>1. a \in Nat
      BY GenFacts
    <3> QED
      BY <2>2, <2>3, <3>1, BoundGrows, ZenonT(60)
  <2> QED
    BY <2>2, <2>4, Zenon
<1>6. Age(EvenPart(Installed(0)'.generation)) <= 8 * updates' - Left'
  BY <1>1, <1>2, <1>3, <1>5, Zenon
<1>7. \A gfn \in Gfn : mmio'[gfn] # None => mmio'[gfn] % 2 = 0 /\ Age(mmio'[gfn]) <= a
  BY <1>1, <1>2, ZenonT(60) DEF Ages
<1>8. MmioSpteFresh'
  BY <1>1, Zenon DEF Ages, MmioSpteFresh, CheckMmioSpte
<1> QED
  BY <1>1, <1>2, <1>6, <1>7, <1>8, ZenonT(60) DEF Ages

LEMMA AgesInit == Init => Ages
<1> SUFFICES ASSUME Init PROVE Ages
  BY Zenon
<1>1. Installed(0) = AllocMemslots(0)
  BY SpaceFacts, Zenon DEF Init, Installed, Buffers
<1>2. Installed(0).generation = First
  <2>1. (0 * 2 - 150) = 0 - 150
    OBVIOUS
  <2>2. (0 * 2 - 150) % GenMod = First
    BY <2>1, Zenon DEF First
  <2> QED
    BY <1>1, <2>2, AllocGood, SpaceFacts, Zenon
<1>3. PICK f \in 0 .. GenMod - 1 : f = First /\ f % 4 = 2
  BY FirstIs, Zenon
<1>4. EvenPart(f) = f
  BY <1>3, GenFacts DEF EvenPart
<1>5. Age(EvenPart(Installed(0).generation)) = 0
  BY <1>2, <1>3, <1>4, GenFacts, SMTT(30), ZenonT(60) DEF Age
<1>6. ~Updating(0) /\ updates = 0 /\ \A gfn \in Gfn : mmio[gfn] = None
  BY SMTT(30), ZenonT(60) DEF Init, Updating, Idle
<1>7. MmioSpteFresh
  BY <1>6, Zenon DEF MmioSpteFresh, CheckMmioSpte
<1> QED
  BY <1>5, <1>6, <1>7 DEF Ages, Left

LEMMA AgesSet ==
  ASSUME MemInv, MemInv', Ages,
         NEW r \in Requests, SetMemoryRegion(r.as, r.id, r.base, r.n, r.log)
  PROVE  Ages'
<1>1. /\ writer.pc = "idle" /\ updates' = updates + 1 /\ mmio' = mmio
  BY SetIs, SMTT(30), ZenonT(60)
<1>2. PICK a \in Array, new \in Slot, at \in {"sync_invalid", "sync_new"} :
        /\ Install(r.as, a)
        /\ writer' = [pc |-> at, as |-> r.as, new |-> new, wait |-> InSection]
  BY SetIs, SMTT(30), ZenonT(60)
<1>3. PICK as \in AddressSpaces : as = r.as
  BY SetIs, Zenon
<1>4. /\ OthersKept(as)
      /\ Installed(as)'.generation = (Installed(as).generation + 1) % GenMod
  BY <1>2, <1>3, InstallIs, Zenon DEF MemInv
<1>5. writer'.pc = at /\ writer'.as = as /\ ~Updating(0)
  BY <1>1, <1>2, <1>3, ZenonT(60) DEF Updating
<1>6. updates \in Nat /\ updates' \in Nat
  BY <1>1, UpdatesNat
<1>7. CASE as = 0
  <2>1. PICK g \in 0 .. GenMod - 1 : g = Installed(0).generation
    BY SpaceFacts, ShapeFacts, Zenon DEF MemInv
  <2>2. g % 4 = 2
    <3>1. Installed(0).generation % 4 = 2 + 0
      BY <1>5, SpaceFacts, Zenon DEF MemInv, Generations
    <3> QED
      BY <2>1, <3>1, SMTT(30), ZenonT(60)
  <2>3. (g + 1) % GenMod = g + 1 /\ g + 1 \in 0 .. GenMod - 1
    <3>1. (g + 1) % GenMod = IF g + 1 < GenMod THEN g + 1 ELSE 0
      BY OddIs, Zenon
    <3>2. g + 1 < GenMod
      BY <2>2, GenFacts
    <3> QED
      BY <3>1, <3>2, GenFacts, SMTT(30), ZenonT(60)
  <2>4. Installed(0)'.generation = g + 1
    BY <1>4, <1>7, <2>1, <2>3, ZenonT(60)
  <2>5. EvenPart(g + 1) = EvenPart(g) /\ (g + 1) % 2 = 1
    BY <2>2, AgeSteps, SMTT(30), ZenonT(60)
  <2>6. PICK e \in 0 .. GenMod - 1 : e = Age(EvenPart(g))
    BY AgeIs, Zenon
  <2>7. e <= 8 * updates
    <3>1. Age(EvenPart(Installed(0).generation)) <= 8 * updates - 0
      BY <1>5, SMTT(30), ZenonT(60) DEF Ages, Left
    <3> QED
      BY <1>6, <2>1, <2>6, <3>1
  <2>8. Updating(0)' /\ (writer'.pc = "sync_invalid" \/ writer'.pc = "sync_new")
    BY <1>5, <1>7, SMTT(30), ZenonT(60) DEF Updating
  <2>9. e <= 8 * updates' - Left'
    <3>1. Left' = 8 \/ Left' = 4
      BY <2>8, SMTT(30), ZenonT(60) DEF Left
    <3> QED
      BY <1>1, <1>6, <2>7, <3>1
  <2>10. \A gfn \in Gfn : mmio'[gfn] # None => mmio'[gfn] % 2 = 0 /\ Age(mmio'[gfn]) <= e
    BY <1>1, <2>1, <2>6, SMTT(30), ZenonT(60) DEF Ages
  <2>11. MmioSpteFresh'
    <3>1. \A gfn \in Gfn : ~CheckMmioSpte(gfn)'
      BY <2>4, <2>5, <2>10, SMTT(30), ZenonT(60) DEF CheckMmioSpte
    <3> QED
      BY <3>1, SMTT(30), ZenonT(60) DEF MmioSpteFresh
  <2> QED
    BY <2>4, <2>5, <2>6, <2>9, <2>10, <2>11, Zenon DEF Ages
<1>8. CASE as # 0
  <2>1. Installed(0)' = Installed(0)
    BY <1>4, <1>8, SpaceFacts, InstalledKept, Zenon
  <2>2. Left' = Left
    BY <1>5, <1>8, Zenon DEF Left, Updating
  <2> QED
    BY <1>1, <1>6, <2>1, <2>2, AgesKept, SMTT(30), ZenonT(60)
<1> QED
  BY <1>7, <1>8, Zenon

\* The last step of an update, of either array of a delete or move, in address space 0.
LEMMA AgeAdvances ==
  ASSUME MemInv, Ages, 8 * MaxUpdates < GenMod, Updating(0),
         NEW n \in {4, 8}, n = Left
  PROVE  \E g \in 0 .. GenMod - 1, h \in 0 .. GenMod - 1, a \in Nat :
            /\ g = Installed(0).generation /\ h = AdvanceGeneration(g)
            /\ a = Age(EvenPart(g)) /\ a + n <= 8 * updates
            /\ h % 4 = 2 /\ h % 2 = 0 /\ EvenPart(h) = h /\ Age(h) = a + 4
<1>1. PICK g \in 0 .. GenMod - 1 : g = Installed(0).generation
  BY SpaceFacts, ShapeFacts, Zenon DEF MemInv
<1>2. g % 4 = 3
  <2>1. Installed(0).generation % 4 = 2 + 1
    BY SpaceFacts, Zenon DEF MemInv, Generations
  <2> QED
    BY <1>1, <2>1
<1>3. PICK a \in Nat : a = Age(EvenPart(g))
  BY AgeIs, GenFacts, SMTT(30), ZenonT(60)
<1>4. updates \in Nat /\ MaxUpdates \in Nat /\ updates <= MaxUpdates
  BY UpdatesNat, Zenon
<1>5. a + n <= 8 * updates
  <2>1. a <= 8 * updates - n
    BY <1>1, <1>3, Zenon DEF Ages
  <2> QED
    BY <1>4, <2>1
<1>6. a + 4 < GenMod
  BY <1>4, <1>5, GenFacts
<1>7. PICK h : h = AdvanceGeneration(g)
  BY SMTT(30), ZenonT(60)
<1>8. /\ h % 4 = 2 /\ h % 2 = 0 /\ EvenPart(h) = h /\ Age(h) = a + 4
  BY <1>2, <1>3, <1>6, <1>7, AgeSteps, SMTT(30), ZenonT(60)
<1>9. h \in 0 .. GenMod - 1
  BY <1>7, GenSteps, Zenon
<1> QED
  BY <1>1, <1>3, <1>5, <1>7, <1>8, <1>9, ZenonT(60)

LEMMA AgesInstallUpdated ==
  ASSUME MemInv, MemInv', Ages, 8 * MaxUpdates < GenMod, InstallUpdated
  PROVE  Ages'
<1>1. PICK as : as = writer.as
  BY Zenon
<1>2. PICK gen : gen = AdvanceGeneration(Installed(as).generation)
  BY Zenon
<1>3. /\ writer.pc = "sync_invalid" /\ as \in AddressSpaces /\ OthersKept(as)
      /\ Installed(as)'.generation = (gen + 1) % GenMod
      /\ writer' = [writer EXCEPT !.pc = "sync_new", !.wait = InSection]
      /\ mmio' = [g \in Gfn |-> None] /\ updates' = updates
  BY <1>1, <1>2, InstallUpdatedIs
<1>4. writer'.pc = "sync_new" /\ writer'.as = as
  BY <1>1, <1>3, Zenon DEF MemInv, Shape
<1>5. \A gfn \in Gfn : mmio'[gfn] = None
  BY <1>3, Zenon
<1>6. updates \in Nat /\ updates' \in Nat
  BY <1>3, UpdatesNat, ZenonT(60)
<1>7. CASE as = 0
  <2>1. Updating(0) /\ 8 = Left /\ Left' = 4
    BY <1>1, <1>3, <1>4, <1>7, SMTT(30), Zenon DEF Updating, Left
  <2>2. PICK g \in 0 .. GenMod - 1, h \in 0 .. GenMod - 1, a \in Nat :
          /\ g = Installed(0).generation /\ h = AdvanceGeneration(g)
          /\ a + 8 <= 8 * updates
          /\ h % 4 = 2 /\ h % 2 = 0 /\ EvenPart(h) = h /\ Age(h) = a + 4
    BY <2>1, AgeAdvances, SMTT(30), ZenonT(60)
  <2>3. h = gen
    BY <1>2, <1>7, <2>2, SMTT(30), Zenon
  <2>4. (h + 1) % GenMod = h + 1 /\ EvenPart(h + 1) = h
    <3>1. h + 1 < GenMod
      BY <2>2, GenFacts
    <3>2. (h + 1) % GenMod = IF h + 1 < GenMod THEN h + 1 ELSE 0
      BY OddIs, SMTT(30), ZenonT(60)
    <3>3. EvenPart(h + 1) = EvenPart(h)
      BY <2>2, AgeSteps, Zenon
    <3> QED
      BY <2>2, <3>1, <3>2, <3>3, SMTT(30), Zenon
  <2>5. Age(EvenPart(Installed(0)'.generation)) = a + 4
    BY <1>3, <1>7, <2>2, <2>3, <2>4, SMTT(30), ZenonT(60)
  <2>6. a + 4 <= 8 * updates' - 4
    BY <1>3, <1>6, <2>2, SMTT(30), ZenonT(60)
  <2>7. MmioSpteFresh'
    BY <1>5, Zenon DEF MmioSpteFresh, CheckMmioSpte
  <2> QED
    BY <1>5, <2>1, <2>5, <2>6, <2>7, SMTT(30), ZenonT(60) DEF Ages
<1>8. CASE as # 0
  <2>1. Installed(0)' = Installed(0)
    BY <1>3, <1>8, SpaceFacts, InstalledKept, Zenon
  <2>2. Left' = Left
    BY <1>1, <1>4, <1>8, ZenonT(60) DEF Left, Updating
  <2> QED
    BY <1>3, <1>5, <1>6, <2>1, <2>2, AgesKept, SMTT(30), ZenonT(60)
<1> QED
  BY <1>7, <1>8, Zenon

LEMMA AgesFinishUpdate ==
  ASSUME MemInv, MemInv', Ages, 8 * MaxUpdates < GenMod, FinishUpdate
  PROVE  Ages'
<1>1. PICK as : as = writer.as
  BY Zenon
<1>2. PICK gen : gen = AdvanceGeneration(Installed(as).generation)
  BY Zenon
<1>3. /\ writer.pc = "sync_new" /\ as \in AddressSpaces /\ OthersKept(as)
      /\ Same(Installed(as), Installed(as)')
      /\ Installed(as)'.generation = gen
      /\ writer' = Idle /\ mmio' = InvalidateMmioSptes(gen, mmio) /\ updates' = updates
  BY <1>1, <1>2, FinishUpdateIs
<1>4. ~Updating(0)' /\ Left' = 0
  BY <1>3, SMTT(30), ZenonT(60) DEF Idle, Updating, Left
<1>5. \A gfn \in Gfn : mmio'[gfn] = None \/ mmio'[gfn] = mmio[gfn]
  BY <1>3, SMTT(30), Zenon DEF InvalidateMmioSptes
<1>6. updates \in Nat /\ updates' \in Nat
  BY <1>3, UpdatesNat, Zenon
<1>7. CASE as = 0
  <2>1. Updating(0) /\ 4 = Left
    BY <1>1, <1>3, <1>7, SMTT(30), Zenon DEF Updating, Left
  <2>2. PICK g \in 0 .. GenMod - 1, h \in 0 .. GenMod - 1, a \in Nat :
          /\ g = Installed(0).generation /\ h = AdvanceGeneration(g)
          /\ a = Age(EvenPart(g)) /\ a + 4 <= 8 * updates
          /\ h % 2 = 0 /\ EvenPart(h) = h /\ Age(h) = a + 4
    BY <2>1, AgeAdvances, SMTT(30), Zenon
  <2>3. Installed(0)'.generation = h
    BY <1>2, <1>3, <1>7, <2>2, SMTT(30), Zenon
  <2>4. Age(EvenPart(Installed(0)'.generation)) = a + 4
    BY <2>2, <2>3, SMTT(30), Zenon
  <2>5. a + 4 <= 8 * updates' - 0
    BY <1>3, <1>6, <2>2, SMTT(30)
  <2>6. ASSUME NEW gfn \in Gfn, mmio'[gfn] # None
        PROVE  mmio'[gfn] % 2 = 0 /\ Age(mmio'[gfn]) <= a + 4 /\ mmio'[gfn] # h
    <3>1. mmio[gfn] = mmio'[gfn] /\ mmio[gfn] # None
      BY <1>5, <2>6, Zenon
    <3>2. PICK m \in 0 .. GenMod - 1 : m = mmio[gfn]
      BY <3>1, ZenonT(60) DEF MemInv, Shape
    <3>3. m % 2 = 0 /\ Age(m) <= a
      BY <2>2, <3>1, <3>2, SMTT(30), ZenonT(60) DEF Ages
    <3>4. PICK x \in Nat : x = Age(m)
      BY AgeIs, GenFacts
    <3>5. x <= a /\ x <= a + 4 /\ x # a + 4
      BY <3>3, <3>4
    <3> QED
      BY <2>2, <3>1, <3>2, <3>3, <3>4, <3>5, Zenon
  <2>7. MmioSpteFresh'
    BY <2>3, <2>6, ZenonT(60) DEF MmioSpteFresh, CheckMmioSpte
  <2> QED
    BY <1>4, <2>4, <2>5, <2>6, <2>7, SMTT(30), Zenon DEF Ages
<1>8. CASE as # 0
  <2>1. Installed(0)' = Installed(0)
    BY <1>3, <1>8, SpaceFacts, InstalledKept, Zenon
  <2>2. Left' = Left
    BY <1>1, <1>4, <1>8, Zenon DEF Left, Updating
  <2> QED
    BY <1>3, <1>5, <1>6, <2>1, <2>2, AgesKept, SMTT(30)
<1> QED
  BY <1>7, <1>8, Zenon

LEMMA AgesRead ==
  ASSUME MemInv, MemInv', Ages, NEW r \in Readers, Read(r)
  PROVE  Ages'
<1>1. /\ arr' = arr /\ memslots' = memslots /\ updates' = updates
      /\ writer'.pc = writer.pc /\ writer'.as = writer.as
  BY ReadInv, Zenon DEF ReaderStep
<1>2. Installed(0)' = Installed(0) /\ Left' = Left
  BY <1>1, SMTT(30), Zenon DEF Installed, Left, Updating
<1>3. updates \in Nat /\ updates' \in Nat /\ updates' >= updates
  BY <1>1, UpdatesNat
<1>4. CASE mmio' = mmio
  BY <1>2, <1>3, <1>4, AgesKept, ZenonT(60)
<1>5. CASE MarkMmioSpte(r)
  <2>1. PICK g \in 0 .. GenMod - 1 : g = Installed(0).generation
    BY SpaceFacts, ShapeFacts, Zenon DEF MemInv
  <2>2. PICK e \in 0 .. GenMod - 1 : e = EvenPart(g) /\ e % 2 = 0 /\ (g % 2 = 1 => e # g)
    <3>1. /\ EvenPart(g) \in 0 .. GenMod - 1 /\ EvenPart(g) % 2 = 0
          /\ g % 2 = 1 => EvenPart(g) = g - 1
      BY AgeIs, Zenon
    <3>2. g - 1 # g
      BY GenFacts
    <3> QED
      BY <3>1, <3>2, Zenon
  <2>3. PICK a \in Nat : a = Age(e)
    BY AgeIs, GenFacts
  <2>4. reader[r].gfn # None /\ mmio' = [mmio EXCEPT ![reader[r].gfn] = e]
    BY <1>5, <2>1, <2>2, ZenonT(60) DEF MarkMmioSpte
  <2>5. \A gfn \in Gfn : mmio'[gfn] # None => mmio'[gfn] % 2 = 0 /\ Age(mmio'[gfn]) <= a
    <3>1. a <= a
      OBVIOUS
    <3>2. \A gfn \in Gfn : mmio[gfn] # None => mmio[gfn] % 2 = 0 /\ Age(mmio[gfn]) <= a
      BY <2>1, <2>2, <2>3, ZenonT(60) DEF Ages
    <3>3. \A gfn \in Gfn : mmio'[gfn] = e \/ mmio'[gfn] = mmio[gfn]
      BY <2>4, Zenon DEF MemInv, Shape
    <3> QED
      BY <2>2, <2>3, <3>1, <3>2, <3>3, SMTT(30), Zenon
  <2>6. ASSUME NEW gfn \in Gfn, CheckMmioSpte(gfn)' PROVE ~HasSlot(Installed(0)', gfn)
    <3>1. mmio'[gfn] # None /\ mmio'[gfn] = g
      BY <1>2, <2>1, <2>6, Zenon DEF CheckMmioSpte
    <3>2. CASE gfn = reader[r].gfn
      <4>1. mmio'[gfn] = e
        BY <2>4, <3>2, Zenon DEF MemInv, Shape
      <4>2. g % 2 # 1
        BY <2>2, <3>1, <4>1, Zenon
      <4>3. ~Updating(0)
        <5>1. Updating(0) => g % 4 = 2 + 1
          BY <2>1, SpaceFacts, Zenon DEF MemInv, Generations
        <5>2. g % 4 = 3 => g % 2 = 1
          OBVIOUS
        <5> QED
          BY <4>2, <5>1, <5>2, SMTT(30), Zenon
      <4> QED
        <5>1. ~Waited(r)
          BY <4>3, Zenon DEF Waited
        <5>2. ~HasSlot(Installed(0), reader[r].gfn) \/ Waited(r)
          BY <2>4, Zenon DEF MemInv, Grace
        <5> QED
          BY <1>2, <3>2, <5>1, <5>2, Zenon
    <3>3. CASE gfn # reader[r].gfn
      <4>1. mmio'[gfn] = mmio[gfn]
        BY <2>4, <3>3, Zenon DEF MemInv, Shape
      <4>2. CheckMmioSpte(gfn)
        BY <2>1, <3>1, <4>1, ZenonT(60) DEF CheckMmioSpte
      <4> QED
        BY <1>2, <4>2, ZenonT(60) DEF Ages, MmioSpteFresh
    <3> QED
      BY <3>2, <3>3, Zenon
  <2>7. Age(EvenPart(Installed(0)'.generation)) <= 8 * updates' - Left'
    BY <1>1, <1>2, SMTT(30), Zenon DEF Ages
  <2>8. Age(EvenPart(Installed(0)'.generation)) = a /\ MmioSpteFresh'
    BY <1>2, <2>1, <2>2, <2>3, <2>6, SMTT(30), Zenon DEF MmioSpteFresh
  <2> QED
    BY <2>5, <2>7, <2>8, SMTT(30), Zenon DEF Ages
<1>6. CASE EnterSection(r) \/ LeaveSection(r) \/ \E gfn \in FaultGfns : Lookup(r, gfn)
  BY <1>4, <1>6, Zenon DEF EnterSection, LeaveSection, Lookup
<1> QED
  BY <1>5, <1>6, ZenonT(60) DEF Read

\* Until the generations wrap around, an MMIO spte that check_mmio_spte accepts
\* never hides memory, although the lookup behind it and the generation it
\* stores are read at different moments.  An update adds at most eight to the
\* generation.  The hypothesis cannot be dropped: the run mmio_wrap.
THEOREM MemMmioFresh ==
  ASSUME 8 * MaxUpdates < GenMod
  PROVE  Spec => []MmioSpteFresh
<1>1. MemInv /\ MemInv' /\ Ages /\ [Next]_vars => Ages'
  <2> SUFFICES ASSUME MemInv, MemInv', Ages, [Next]_vars PROVE Ages'
    BY Zenon
  <2>1. CASE Write
    BY <2>1, AgesSet, AgesInstallUpdated, AgesFinishUpdate, SMTT(30), ZenonT(60) DEF Write
  <2>2. ASSUME NEW r \in Readers, Read(r) PROVE Ages'
    BY <2>2, AgesRead, Zenon
  <2>3. CASE UNCHANGED vars
    BY <2>3, Zenon DEF vars, Ages, Left, Updating, Installed, MmioSpteFresh, CheckMmioSpte
  <2> QED
    BY <2>1, <2>2, <2>3, Zenon DEF Next
<1>2. Ages => MmioSpteFresh
  BY Zenon DEF Ages
<1> QED
  BY <1>1, <1>2, AgesInit, MemInit, MemNext, PTL DEF Spec

=============================================================================
