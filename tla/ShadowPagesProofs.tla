------------------------- MODULE ShadowPagesProofs --------------------------
(***************************************************************************)
(* Every safety property of ShadowPages, for any pool of page structures,  *)
(* any tables, entries, vCPUs and zappers.  ShadowInv is the inductive     *)
(* invariant; each action has a lemma of its own (...Inv).                 *)
(***************************************************************************)
EXTENDS ShadowPageOpsProofs, FiniteSetTheorems

-----------------------------------------------------------------------------
(* The roots: vmrun_mmu_load and mmu_free_roots.                           *)

\* The invariant of the pages says nothing about root_count and the requests.
LEMMA RootsKeep ==
    ASSUME NEW m, MmuInv(m), NEW n \in MmuType,
           n.spt = m.spt, n.bits = m.bits, n.active = m.active, n.older = m.older,
           n.zapped = m.zapped, n.key = m.key, n.gen = m.gen, n.invalid = m.invalid,
           n.unsync = m.unsync, n.used = m.used, n.valid = m.valid, n.writable = m.writable
    PROVE  MmuInv(n) /\ ValidSp(n) = ValidSp(m)
<1>1. /\ Allocated(n) = Allocated(m) /\ ValidSp(n) = ValidSp(m)
  BY Zenon DEF Allocated, ValidSp, IsObsolete
<1>2. Lists(n) /\ Clean(n)
  BY <1>1, Zenon DEF MmuInv, Lists, Clean
<1>3. Levels(n)
  BY <1>1 DEF MmuInv, Levels, Level
<1>4. Links(n)
  BY Zenon DEF MmuInv, Links, Level
<1>5. Marks(n)
  BY Zenon DEF MmuInv, Marks
<1>6. Unique(n)
  BY <1>1, Zenon DEF MmuInv, Unique
<1>7. Protected(n)
  BY <1>1, Zenon DEF MmuInv, Protected, Level
<1>8. Ages(n)
  BY Zenon DEF MmuInv, Ages
<1> QED
  BY <1>1, <1>2, <1>3, <1>4, <1>5, <1>6, <1>7, <1>8, ZenonT(60) DEF MmuInv

\* mmu_alloc_roots: one more vCPU on a usable page, and one more in its count.
LEMMA RootUp ==
    ASSUME NEW m, MmuInv(m), NEW rt, RootInv(m, rt), NEW v \in Vcpus, rt[v] = None,
           NEW p \in ValidSp(m), Level(m, p) = RootLevel
    PROVE  /\ MmuInv([m EXCEPT !.roots[p] = @ + 1])
           /\ RootInv([m EXCEPT !.roots[p] = @ + 1], [rt EXCEPT ![v] = p])
           /\ [m EXCEPT !.roots[p] = @ + 1].used = m.used
<1> DEFINE n == [m EXCEPT !.roots[p] = @ + 1]
           f == [m.roots EXCEPT ![p] = m.roots[p] + 1]
           new == [rt EXCEPT ![v] = p]
           on(r, q) == {w \in Vcpus : r[w] = q}
<1>1. m \in MmuType /\ m.roots \in [Sp -> Int] /\ m.reload \in SUBSET Vcpus
      /\ m.active \in SUBSET Sp
  BY Zenon DEF MmuInv, MmuType
<1>2. p \in m.active /\ p \in Sp /\ p # None
  BY <1>1, ValidSpIs, ShadowAssumption, ZenonT(60)
<1>3. f \in [Sp -> Int]
  BY <1>1, <1>2
<1>4. /\ n.spt = m.spt /\ n.bits = m.bits
      /\ n.active = m.active /\ n.older = m.older /\ n.zapped = m.zapped
      /\ n.key = m.key /\ n.gen = m.gen /\ n.invalid = m.invalid
      /\ n.unsync = m.unsync /\ n.roots = f
      /\ n.used = m.used /\ n.valid = m.valid /\ n.writable = m.writable
      /\ n.reload = m.reload /\ n \in MmuType
  <2>1. n = [m EXCEPT !.roots = f]
    BY <1>1, Zenon DEF MmuType
  <2> HIDE DEF n, f
  <2>2. n = [active |-> m.active, older |-> m.older, zapped |-> m.zapped, key |-> m.key,
             gen |-> m.gen, invalid |-> m.invalid, unsync |-> m.unsync, roots |-> f,
             spt |-> m.spt, bits |-> m.bits, used |-> m.used, valid |-> m.valid,
             writable |-> m.writable, reload |-> m.reload]
    BY <1>1, <2>1, Zenon DEF MmuType
  <2>3. n \in MmuType
    BY <1>1, <1>3, <2>2, Zenon DEF MmuType
  <2> QED
    BY <2>2, <2>3, Zenon
<1>5. /\ rt \in [Vcpus -> Sp \cup {None}]
      /\ \A q \in Sp : m.roots[q] = Cardinality(on(rt, q))
      /\ \A w \in Vcpus : rt[w] # None => rt[w] \in m.active /\ Level(m, rt[w]) = RootLevel
      /\ \A w \in Vcpus : rt[w] # None /\ rt[w] \notin ValidSp(m) => w \in m.reload
  BY Zenon DEF RootInv
<1>6. new \in [Vcpus -> Sp \cup {None}] /\ new[v] = p
      /\ \A w \in Vcpus \ {v} : new[w] = rt[w]
  BY <1>2, <1>5, Zenon
<1>7. ASSUME NEW q \in Sp PROVE f[q] = Cardinality(on(new, q))
  <2>1. IsFiniteSet(on(rt, q))
    BY ShadowAssumption, FS_Subset, Zenon
  <2>2. CASE q = p
    <3>1. on(new, q) = on(rt, q) \cup {v} /\ v \notin on(rt, q)
      BY <1>2, <1>6, <2>2, Zenon
    <3>2. Cardinality(on(new, q)) = Cardinality(on(rt, q)) + 1
      BY <2>1, <3>1, FS_AddElement, Zenon
    <3> QED
      BY <1>1, <1>5, <2>2, <3>2, Zenon
  <2>3. CASE q # p
    <3>1. on(new, q) = on(rt, q)
      <4>1. rt[v] # q
        BY ShadowAssumption, Zenon
      <4> QED
        BY <1>6, <2>3, <4>1, Zenon
    <3> QED
      BY <1>1, <1>5, <2>3, <3>1, Zenon
  <2> QED
    BY <2>2, <2>3, Zenon
<1>8. /\ MmuInv(n) /\ n.roots = f /\ n.reload = m.reload /\ n.active = m.active
      /\ n.key = m.key /\ n.used = m.used /\ ValidSp(n) = ValidSp(m)
  <2> HIDE DEF f, n
  <2> QED
    BY <1>4, RootsKeep, Zenon
<1> HIDE DEF f, new, n
<1>9. ASSUME NEW w \in Vcpus, new[w] # None
      PROVE  /\ new[w] \in n.active /\ n.key[new[w]].level = RootLevel
             /\ new[w] \notin ValidSp(n) => w \in n.reload
  BY <1>2, <1>5, <1>6, <1>8, <1>9, Zenon DEF Level
<1>10. RootInv(n, new)
  BY <1>6, <1>7, <1>8, <1>9, Zenon DEF RootInv, Level
<1> QED
  BY <1>8, <1>10, Zenon DEF new, n

\* mmu_free_roots before it looks at the page
FreeRoot(m, p, v) == [m EXCEPT !.roots[p] = @ - 1, !.reload = @ \ {v}]

\* mmu_free_roots: one vCPU less on its root, one less in the count, and the request
\* to reload is answered.
LEMMA RootDown ==
    ASSUME NEW m, MmuInv(m), NEW rt, RootInv(m, rt), NEW v \in Vcpus, rt[v] # None,
           NEW p, p = rt[v]
    PROVE  /\ MmuInv(FreeRoot(m, p, v))
           /\ RootInv(FreeRoot(m, p, v), [rt EXCEPT ![v] = None])
           /\ FreeRoot(m, p, v).used = m.used
           /\ FreeRoot(m, p, v).active = m.active
<1> DEFINE n == FreeRoot(m, p, v)
           f == [m.roots EXCEPT ![p] = m.roots[p] - 1]
           new == [rt EXCEPT ![v] = None]
           on(r, q) == {w \in Vcpus : r[w] = q}
<1>1. m \in MmuType /\ m.roots \in [Sp -> Int] /\ m.reload \in SUBSET Vcpus
      /\ m.active \in SUBSET Sp
  BY Zenon DEF MmuInv, MmuType
<1>2. /\ rt \in [Vcpus -> Sp \cup {None}]
      /\ \A q \in Sp : m.roots[q] = Cardinality(on(rt, q))
      /\ \A w \in Vcpus : rt[w] # None => rt[w] \in m.active /\ Level(m, rt[w]) = RootLevel
      /\ \A w \in Vcpus : rt[w] # None /\ rt[w] \notin ValidSp(m) => w \in m.reload
  BY Zenon DEF RootInv
<1>3. p \in Sp /\ f \in [Sp -> Int]
  BY <1>1, <1>2
<1>4. /\ n.spt = m.spt /\ n.bits = m.bits
      /\ n.active = m.active /\ n.older = m.older /\ n.zapped = m.zapped
      /\ n.key = m.key /\ n.gen = m.gen /\ n.invalid = m.invalid
      /\ n.unsync = m.unsync /\ n.roots = f
      /\ n.used = m.used /\ n.valid = m.valid /\ n.writable = m.writable
      /\ n.reload = m.reload \ {v} /\ n \in MmuType
  <2>1. n = [m EXCEPT !.roots = f, !.reload = m.reload \ {v}]
    BY <1>1, Zenon DEF MmuType, FreeRoot
  <2> HIDE DEF n, f
  <2>2. n = [active |-> m.active, older |-> m.older, zapped |-> m.zapped, key |-> m.key,
             gen |-> m.gen, invalid |-> m.invalid, unsync |-> m.unsync, roots |-> f,
             spt |-> m.spt, bits |-> m.bits, used |-> m.used, valid |-> m.valid,
             writable |-> m.writable, reload |-> m.reload \ {v}]
    BY <1>1, <2>1, Zenon DEF MmuType
  <2>3. n \in MmuType
    BY <1>1, <1>3, <2>2, Zenon DEF MmuType
  <2> QED
    BY <2>2, <2>3, Zenon
<1>5. new \in [Vcpus -> Sp \cup {None}] /\ new[v] = None
      /\ \A w \in Vcpus \ {v} : new[w] = rt[w]
  BY <1>2, Zenon
<1>6. ASSUME NEW q \in Sp PROVE f[q] = Cardinality(on(new, q))
  <2>1. IsFiniteSet(on(rt, q)) /\ q # None
    BY ShadowAssumption, FS_Subset, Zenon
  <2>2. CASE q = p
    <3>1. on(new, q) = on(rt, q) \ {v} /\ v \in on(rt, q)
      BY <1>5, <2>1, <2>2, Zenon
    <3>2. Cardinality(on(new, q)) = Cardinality(on(rt, q)) - 1
      BY <2>1, <3>1, FS_RemoveElement, Zenon
    <3> QED
      BY <1>1, <1>2, <2>2, <3>2, Zenon
  <2>3. CASE q # p
    <3>1. on(new, q) = on(rt, q)
      BY <1>5, <2>1, <2>3, Zenon
    <3> QED
      BY <1>1, <1>2, <2>3, <3>1, Zenon
  <2> QED
    BY <2>2, <2>3, Zenon
<1>7. /\ MmuInv(n) /\ n.roots = f /\ n.reload = m.reload \ {v} /\ n.active = m.active
      /\ n.key = m.key /\ n.used = m.used /\ ValidSp(n) = ValidSp(m)
  <2> HIDE DEF f, n
  <2> QED
    BY <1>4, RootsKeep, Zenon
<1> HIDE DEF f, new, n
<1>8. ASSUME NEW w \in Vcpus, new[w] # None
      PROVE  /\ new[w] \in n.active /\ n.key[new[w]].level = RootLevel
             /\ new[w] \notin ValidSp(n) => w \in n.reload
  <2>1. w # v /\ new[w] = rt[w]
    BY <1>5, <1>8, Zenon
  <2> QED
    BY <1>2, <1>7, <1>8, <2>1, Zenon DEF Level
<1>9. RootInv(n, new)
  BY <1>5, <1>6, <1>7, <1>8, ZenonT(60) DEF RootInv, Level
<1> QED
  BY <1>7, <1>9, Zenon DEF new, n

-----------------------------------------------------------------------------
(* The invariant of the whole specification.                               *)

\* A root has a level below it.
LEMMA RootLevelIs == RootLevel \in Int /\ RootLevel >= 2
BY ShadowAssumption

\* The pages and the vCPUs are finite sets, so the counts mean something.
LEMMA FiniteCounting == Counting
<1>1. ASSUME NEW S \in SUBSET Sp PROVE IsFiniteSet(S) /\ Cardinality(S) \in Nat
  BY ShadowAssumption, FS_Subset, FS_CardinalityType, Zenon
<1>2. ASSUME NEW S \in SUBSET Sp, NEW T \in SUBSET Sp, T \subseteq S
      PROVE  Cardinality(S \ T) = Cardinality(S) - Cardinality(T)
  <2>1. IsFiniteSet(S) /\ S \cap T = T
    BY <1>1, <1>2, Zenon
  <2> QED
    BY <2>1, FS_Difference, ZenonT(60)
<1>3. ASSUME NEW S \in SUBSET Sp, NEW p \in Sp, p \notin S
      PROVE  Cardinality(S \cup {p}) = Cardinality(S) + 1
  BY <1>1, <1>3, FS_AddElement, Zenon
<1>4. ASSUME NEW V \in SUBSET Vcpus, V # {} PROVE Cardinality(V) # 0
  BY <1>4, ShadowAssumption, FS_Subset, FS_EmptySet, Zenon
<1> QED
  BY <1>1, <1>2, <1>3, <1>4, Zenon DEF Counting

\* A VM starts without pages, roots or walks.
LEMMA ShadowInit == Init => ShadowInv
<1> SUFFICES ASSUME Init PROVE ShadowInv
  BY Zenon
<1>1. /\ mmu.active = {} /\ mmu.older = {} /\ mmu.zapped = {}
      /\ mmu.key = [p \in Sp |-> NoKey] /\ mmu.gen = [p \in Sp |-> 0]
      /\ mmu.invalid = {} /\ mmu.unsync = {} /\ mmu.roots = [p \in Sp |-> 0]
      /\ mmu.spt = [p \in Sp |-> [i \in Slots |-> None]]
      /\ mmu.bits = [p \in Sp |-> {}] /\ mmu.used = 0 /\ mmu.valid = 0
      /\ mmu.writable = {} /\ mmu.reload = {}
  BY Zenon DEF Init, EmptyMmu
<1>2. mmu \in MmuType
  BY DEF Init, EmptyMmu, MmuType
<1>3. Allocated(mmu) = {} /\ ValidSp(mmu) = {}
  BY <1>1, Zenon DEF Allocated, ValidSp
<1>4. Cardinality({}) = 0
  BY FS_EmptySet, Zenon
<1>5. Lists(mmu) /\ Levels(mmu) /\ Clean(mmu)
  BY <1>1, <1>3, <1>4, Zenon DEF Lists, Levels, Clean
<1>6. Links(mmu) /\ Marks(mmu)
  BY <1>1 DEF Links, Marks
<1>7. Unique(mmu) /\ Protected(mmu) /\ Ages(mmu)
  BY <1>1, <1>3, ShadowAssumption DEF Unique, Protected, Ages
<1>8. root = [v \in Vcpus |-> None]
  BY Zenon DEF Init
<1>9. \A p \in Sp : {v \in Vcpus : root[v] = p} = {}
  BY <1>8, ShadowAssumption, Zenon
<1>10. RootInv(mmu, root)
  BY <1>1, <1>4, <1>8, <1>9, Zenon DEF RootInv
<1>11. ThreadInv
  BY ShadowAssumption DEF Init, ThreadInv
<1>12. LimitInv
  BY <1>1, ShadowAssumption DEF Init, LimitInv
<1> QED
  BY <1>2, <1>5, <1>6, <1>7, <1>10, <1>11, <1>12, FiniteCounting, SMTT(30) DEF ShadowInv, MmuInv

\* A step with no walk in progress that takes no page on and leaves the roots.
LEMMA ReducedStep ==
    ASSUME ShadowInv, Reduced(mmu, mmu'), root' = root, n_max' = n_max,
           walk' = None
    PROVE  MmuInv(mmu') /\ RootInv(mmu', root') /\ LimitInv'
<1>1. MmuInv(mmu') /\ mmu'.used <= mmu.used /\ RootInv(mmu', root')
  BY Zenon DEF ShadowInv, Reduced
<1>2. mmu.used \in Int /\ mmu'.used \in Int /\ n_max \in Nat
  BY <1>1, Zenon DEF ShadowInv, ThreadInv, MmuInv, MmuType
<1>3. mmu.used <= n_max + RootLevel - 2
  BY Zenon DEF ShadowInv, LimitInv
<1>4. LimitInv'
  BY <1>1, <1>2, <1>3, ShadowAssumption DEF LimitInv
<1> QED
  BY <1>1, <1>4, Zenon

\* While nobody is in the walk of a fault, whoever may take the lock.
LEMMA NoWalk ==
    ASSUME ThreadInv, NEW t \in Threads, lock \in {None, t}, pc[t] # "fault"
    PROVE  walk = None /\ \A u \in Threads : pc[u] # "fault"
BY ShadowAssumption, Zenon DEF ThreadInv, Threads

\* Who takes pages away under the lock, between the others, keeps the invariant.
LEMMA UnderLockKeeps ==
    ASSUME ShadowInv, UnderLock, Reduced(mmu, mmu'), root' = root, n_max' = n_max
    PROVE  ShadowInv'
<1>1. walk = None /\ walk' = None /\ pc' = pc /\ lock' = lock /\ batch' = batch
  BY Zenon DEF ShadowInv, ThreadInv, UnderLock
<1>2. MmuInv(mmu') /\ RootInv(mmu', root') /\ LimitInv'
  BY <1>1, ReducedStep, Zenon
<1>3. ThreadInv'
  BY <1>1, Zenon DEF ShadowInv, ThreadInv
<1> QED
  BY <1>2, <1>3, Zenon DEF ShadowInv

\* vmrun_mmu_unprotect_page keeps the invariant.
LEMMA UnprotectPageInv ==
    ASSUME ShadowInv, NEW g, UnprotectPage(g)
    PROVE  ShadowInv'
<1>1. MmuInv(mmu)
  BY Zenon DEF ShadowInv
<1>2. ValidSpOf(mmu, g) \in SUBSET mmu.active
  BY <1>1, ValidSpIs, Zenon DEF ValidSpOf
<1>3. Reduced(mmu, ZapPages(mmu, ValidSpOf(mmu, g)))
  BY <1>1, <1>2, ZapPagesReduces, Zenon
<1>4. UnderLock /\ mmu' = ZapPages(mmu, ValidSpOf(mmu, g)) /\ root' = root /\ n_max' = n_max
  BY Zenon DEF UnprotectPage
<1> QED
  BY <1>3, <1>4, UnderLockKeeps, Zenon

\* vmrun_mmu_pte_write keeps the invariant.
LEMMA PteWriteInv ==
    ASSUME ShadowInv, NEW g, NEW i \in Slots, PteWrite(g, i)
    PROVE  ShadowInv'
<1>1. MmuInv(mmu)
  BY Zenon DEF ShadowInv
<1>2. UnderLock /\ root' = root /\ n_max' = n_max
  BY Zenon DEF PteWrite
<1> DEFINE of == ValidSpOf(mmu, g)
<1>3. of \in SUBSET mmu.active
  BY <1>1, ValidSpIs, Zenon DEF ValidSpOf
<1>4. PICK zapped \in {of} \cup SUBSET {p \in of : Level(mmu, p) > 1} :
          mmu' = [ZapPages(mmu, zapped) EXCEPT !.spt = [p \in Sp |->
                      IF p \in ValidSpOf(ZapPages(mmu, zapped), g)
                      THEN [@[p] EXCEPT ![i] = None] ELSE @[p]]]
  BY Zenon DEF PteWrite
<1>5. zapped \in SUBSET mmu.active
  BY <1>3, Zenon
<1> DEFINE m == ZapPages(mmu, zapped)
           left == ValidSpOf(m, g)
           t == [p \in Sp |-> IF p \in left THEN [m.spt[p] EXCEPT ![i] = None] ELSE m.spt[p]]
<1>6. Reduced(mmu, m)
  BY <1>1, <1>5, ZapPagesReduces, Zenon
<1> HIDE DEF m
<1>7. mmu' = [m EXCEPT !.spt = t]
  BY <1>4, Zenon DEF m
<1>8. MmuInv(m)
  BY <1>6, Zenon DEF Reduced
<1>9. left \in SUBSET Sp
  BY <1>8, ValidSpIs, Zenon DEF ValidSpOf, MmuInv, MmuType
<1>10. t = [p \in Sp |-> IF p \in left THEN [m.spt[p] EXCEPT ![i] = None] ELSE m.spt[p]]
  BY Zenon
<1> HIDE DEF t, left
<1>11. MmuInv(mmu') /\ SameLists(m, mmu')
  BY <1>7, <1>8, <1>9, <1>10, DropEntryKeeps, ZenonT(60)
<1>12. Reduced(mmu, mmu')
  <2>1. mmu'.used <= mmu.used
    BY <1>6, <1>11, Zenon DEF Reduced, SameLists
  <2>2. ASSUME NEW rt, RootInv(mmu, rt) PROVE RootInv(mmu', rt)
    <3>1. RootInv(m, rt)
      BY <1>6, <2>2, Zenon DEF Reduced
    <3> QED
      BY <1>11, <3>1, SameListsRoots, Zenon
  <2> QED
    BY <1>11, <2>1, <2>2, Zenon DEF Reduced
<1> QED
  BY <1>2, <1>12, UnderLockKeeps, ZenonT(60)

\* vmrun_mmu_change_mmu_pages keeps the invariant, the new limit included.
LEMMA ChangeMmuPagesInv ==
    ASSUME ShadowInv, NEW goal \in Limits, ChangeMmuPages(goal)
    PROVE  ShadowInv'
<1> DEFINE m == ZapOldestAbove(mmu, goal)
<1>1. MmuInv(mmu) /\ mmu.used \in Int
  BY Zenon DEF ShadowInv, MmuInv, MmuType
<1>2. /\ UnderLock /\ mmu' = m /\ root' = root
      /\ n_max' = IF mmu.used > goal THEN m.used ELSE goal
  BY Zenon DEF ChangeMmuPages
<1>3. Reduced(mmu, m)
  BY <1>1, ZapOldestReduces, Zenon
<1> HIDE DEF m
<1>4. MmuInv(mmu') /\ RootInv(mmu', root') /\ mmu'.used <= mmu.used
  BY <1>2, <1>3, Zenon DEF Reduced, ShadowInv
<1>5. goal \in Nat
  BY ShadowAssumption, Zenon
<1>6. mmu'.used \in Nat
  <2>1. IsFiniteSet(mmu'.active) /\ mmu'.used = Cardinality(mmu'.active)
    BY <1>4, ShadowAssumption, FS_Subset, Zenon DEF MmuInv, MmuType, Lists
  <2> QED
    BY <2>1, FS_CardinalityType, Zenon
<1>7. n_max' \in Nat /\ mmu'.used <= n_max'
  BY <1>1, <1>2, <1>4, <1>5, <1>6
<1>8. walk = None /\ walk' = None /\ pc' = pc /\ lock' = lock /\ batch' = batch
  BY <1>2, Zenon DEF ShadowInv, ThreadInv, UnderLock
<1>9. LimitInv'
  BY <1>6, <1>7, <1>8, ShadowAssumption DEF LimitInv
<1>10. ThreadInv'
  BY <1>7, <1>8, Zenon DEF ShadowInv, ThreadInv
<1> QED
  BY <1>4, <1>9, <1>10, Zenon DEF ShadowInv

\* mmu_shrink_scan keeps the invariant.
LEMMA ShrinkInv ==
    ASSUME ShadowInv, Shrink
    PROVE  ShadowInv'
<1>1. MmuInv(mmu) /\ mmu.used \in Int /\ mmu \in MmuType /\ mmu.zapped \in SUBSET Sp
  BY Zenon DEF ShadowInv, MmuInv, MmuType
<1>2. UnderLock /\ root' = root /\ n_max' = n_max
  BY Zenon DEF Shrink
<1>3. CASE mmu.zapped # {}
  <2>1. mmu' = FreePages(mmu, mmu.zapped)
    BY <1>3, Zenon DEF Shrink
  <2>2. MmuInv(mmu') /\ \A rt : RootInv(mmu, rt) => RootInv(mmu', rt)
    BY <1>1, <2>1, FreePagesKeep, Zenon
  <2>3. mmu'.used = mmu.used
    BY <1>1, <2>1, FreePagesIs, Zenon
  <2>4. Reduced(mmu, mmu')
    BY <1>1, <2>2, <2>3, SMTT(30) DEF Reduced
  <2> QED
    BY <1>2, <2>4, UnderLockKeeps, Zenon
<1>4. CASE mmu.zapped = {}
  <2>1. mmu' = ZapPages(mmu, OldestOf(mmu, mmu.active))
    BY <1>4, Zenon DEF Shrink
  <2>2. OldestOf(mmu, mmu.active) \in SUBSET mmu.active
    BY Zenon DEF OldestOf
  <2>3. Reduced(mmu, mmu')
    BY <1>1, <2>1, <2>2, ZapPagesReduces, ZenonT(60)
  <2> QED
    BY <1>2, <2>3, UnderLockKeeps, Zenon
<1> QED
  BY <1>3, <1>4, Zenon

\* vmrun_mmu_invalidate_zap_all_pages starts a generation and asks every vCPU to
\* reload.
LEMMA InvalidateZapAllInv ==
    ASSUME ShadowInv, NEW z \in Zappers, InvalidateZapAll(z)
    PROVE  ShadowInv'
<1>1. MmuInv(mmu) /\ mmu.used \in Int
  BY Zenon DEF ShadowInv, MmuInv, MmuType
<1>2. /\ lock = None /\ mmu.valid < MaxGen
      /\ mmu' = [mmu EXCEPT !.valid = mmu.valid + 1, !.reload = Vcpus]
      /\ pc' = [pc EXCEPT ![z] = "zap"] /\ lock' = z
      /\ root' = root /\ n_max' = n_max /\ walk' = walk /\ batch' = batch
  BY Zenon DEF InvalidateZapAll, Idle, ReloadRemoteMmus
<1>3. walk = None /\ walk' = None
  BY <1>2, Zenon DEF ShadowInv, ThreadInv
<1>4. MmuInv(mmu') /\ mmu'.used = mmu.used /\ \A rt : RootInv(mmu, rt) => RootInv(mmu', rt)
  BY <1>1, <1>2, NewGenerationKeeps, Zenon
<1>5. Reduced(mmu, mmu')
  BY <1>1, <1>4 DEF Reduced
<1>6. MmuInv(mmu') /\ RootInv(mmu', root') /\ LimitInv'
  BY <1>2, <1>3, <1>5, ReducedStep, Zenon
<1>7. ThreadInv'
  BY <1>2, <1>3, ShadowAssumption, ZenonT(60) DEF ShadowInv, ThreadInv, Threads
<1> QED
  BY <1>6, <1>7, ZenonT(60) DEF ShadowInv

\* A round of vmrun_zap_obsolete_pages keeps the invariant.
LEMMA ZapObsoleteInv ==
    ASSUME ShadowInv, NEW z \in Zappers, ZapObsolete(z)
    PROVE  ShadowInv'
<1> DEFINE S == OldestOf(mmu, ObsoleteAtTail(mmu))
           m == PrepareZap(mmu, S)
           b == batch + mmu.used - m.used
<1>1. MmuInv(mmu) /\ mmu.used \in Int
  BY Zenon DEF ShadowInv, MmuInv, MmuType
<1>2. S \in SUBSET mmu.active
  BY Zenon DEF OldestOf, ObsoleteAtTail
<1>3. /\ lock \in {None, z} /\ pc[z] = "zap" /\ mmu' = m /\ lock' = z
      /\ batch' = IF b < Batch THEN b ELSE Batch
      /\ root' = root /\ n_max' = n_max /\ walk' = walk /\ pc' = pc
  BY Zenon DEF ZapObsolete, Locks
<1>4. MmuInv(m) /\ m.used <= mmu.used /\ \A rt : RootInv(mmu, rt) => RootInv(m, rt)
  BY <1>1, <1>2, PrepareZapKeeps, Zenon
<1>5. m.used \in Int
  BY <1>4, Zenon DEF MmuInv, MmuType
<1> HIDE DEF m
<1>6. batch' \in 0..Batch
  <2>1. batch \in 0..Batch /\ Batch \in Nat
    BY ShadowAssumption, Zenon DEF ShadowInv, ThreadInv
  <2> QED
    BY <1>1, <1>3, <1>4, <1>5, <2>1, SMTT(30)
<1>7. walk = None /\ \A u \in Threads : pc[u] # "fault"
  BY <1>3, NoWalk, Zenon DEF ShadowInv, Threads
<1>8. Reduced(mmu, mmu')
  BY <1>3, <1>4, Zenon DEF Reduced
<1>9. MmuInv(mmu') /\ RootInv(mmu', root') /\ LimitInv'
  BY <1>3, <1>7, <1>8, ReducedStep, ZenonT(60)
<1>10. ThreadInv'
  BY <1>3, <1>6, <1>7, ZenonT(60) DEF ShadowInv, ThreadInv, Threads
<1> QED
  BY <1>9, <1>10, ZenonT(60) DEF ShadowInv

\* The yield of vmrun_zap_obsolete_pages leaves the zapped pages listed and unused.
LEMMA ZapYieldInv ==
    ASSUME ShadowInv, NEW z \in Zappers, ZapYield(z)
    PROVE  ShadowInv'
<1>1. /\ lock = z /\ pc[z] = "zap" /\ lock' = None /\ batch' = 0 /\ mmu' = mmu
      /\ root' = root /\ n_max' = n_max /\ walk' = walk /\ pc' = pc
  BY Zenon DEF ZapYield
<1>2. walk = None /\ \A u \in Threads : pc[u] # "fault"
  BY <1>1, NoWalk, ZenonT(60) DEF ShadowInv, Threads
<1>3. Reduced(mmu, mmu')
  BY <1>1 DEF Reduced, ShadowInv, MmuInv, MmuType
<1>4. MmuInv(mmu') /\ RootInv(mmu', root') /\ LimitInv'
  BY <1>1, <1>2, <1>3, ReducedStep, ZenonT(60)
<1>5. ThreadInv'
  BY <1>1, <1>2, ShadowAssumption, SMTT(30) DEF ShadowInv, ThreadInv
<1> QED
  BY <1>4, <1>5, ZenonT(60) DEF ShadowInv

\* The commit at the end of vmrun_zap_obsolete_pages keeps the invariant.
LEMMA ZapEndInv ==
    ASSUME ShadowInv, NEW z \in Zappers, ZapEnd(z)
    PROVE  ShadowInv'
<1>1. MmuInv(mmu) /\ mmu.used \in Int /\ mmu \in MmuType /\ mmu.zapped \in SUBSET Sp
  BY Zenon DEF ShadowInv, MmuInv, MmuType
<1>2. /\ lock \in {None, z} /\ pc[z] = "zap" /\ lock' = None /\ batch' = 0
      /\ mmu' = FreePages(mmu, mmu.zapped)
      /\ pc' = [pc EXCEPT ![z] = "idle"]
      /\ root' = root /\ n_max' = n_max /\ walk' = walk
  BY Zenon DEF ZapEnd, Locks
<1>3. walk = None /\ \A u \in Threads : pc[u] # "fault"
  BY <1>2, NoWalk, Zenon DEF ShadowInv, Threads
<1>4. MmuInv(mmu') /\ \A rt : RootInv(mmu, rt) => RootInv(mmu', rt)
  BY <1>1, <1>2, FreePagesKeep, Zenon
<1>5. mmu'.used = mmu.used
  BY <1>1, <1>2, FreePagesIs, Zenon
<1>6. Reduced(mmu, mmu')
  BY <1>1, <1>4, <1>5 DEF Reduced
<1>7. MmuInv(mmu') /\ RootInv(mmu', root') /\ LimitInv'
  BY <1>2, <1>3, <1>6, ReducedStep, ZenonT(60)
<1>8. ThreadInv'
  BY <1>2, <1>3, ShadowAssumption, SMTT(30) DEF ShadowInv, ThreadInv, Threads
<1> QED
  BY <1>7, <1>8, ZenonT(60) DEF ShadowInv

\* What a vCPU that found room holds: make_mmu_pages_available left at least one
\* page below the limit.
LEMMA EnoughIs ==
    ASSUME NEW m, MmuInv(m), n_max \in Nat, Enough(m)
    PROVE  m.used <= n_max - 1
BY DEF Enough, AvailablePages, MmuInv, MmuType

\* A frame of a level is that of a table.
LEMMA GfnsAtIs ==
    ASSUME NEW l, NEW g \in GfnsAt(l)
    PROVE  [gfn |-> g, level |-> l] \in Tables
<1>1. PICK t \in Tables : t.level = l /\ g = t.gfn
  BY Zenon DEF GfnsAt
<1>2. t = [gfn |-> t.gfn, level |-> t.level]
  BY ShadowAssumption, Zenon
<1> QED
  BY <1>1, <1>2, Zenon

\* vmrun_mmu_load keeps the invariant.
LEMMA MmuLoadInv ==
    ASSUME ShadowInv, NEW v \in Vcpus, NEW g \in GfnsAt(RootLevel), MmuLoad(v, g)
    PROVE  ShadowInv'
<1> DEFINE m == MakePagesAvailable(mmu)
<1>1. MmuInv(mmu) /\ RootInv(mmu, root) /\ n_max \in Nat /\ mmu.used \in Int
  BY Zenon DEF ShadowInv, ThreadInv, MmuInv, MmuType
<1>2. Reduced(mmu, m)
  BY <1>1, MakePagesAvailableReduces, Zenon
<1>3. /\ lock = None /\ pc[v] = "idle" /\ root[v] = None
      /\ n_max' = n_max /\ lock' = lock /\ walk' = walk /\ batch' = batch
  BY Zenon DEF MmuLoad, Idle
<1>4. walk = None /\ walk' = None /\ \A u \in Threads : pc[u] # "fault"
  BY <1>3, NoWalk, Zenon DEF ShadowInv, Threads
<1>5. MmuInv(m) /\ RootInv(m, root) /\ m.used \in Int
  BY <1>1, <1>2, Zenon DEF Reduced, MmuInv, MmuType
<1>6. CASE Enough(m)
  <2>1. PICK r \in GetPage(m, g, RootLevel) :
            /\ mmu' = [r.m EXCEPT !.roots[r.sp] = @ + 1]
            /\ root' = [root EXCEPT ![v] = r.sp]
            /\ pc' = [pc EXCEPT ![v] = "sync"]
    BY <1>6, Zenon DEF MmuLoad
  <2> HIDE DEF m
  <2>2. [gfn |-> g, level |-> RootLevel] \in Tables
    BY GfnsAtIs, Zenon
  <2>3. Got(m, r.m, r.sp, g, RootLevel)
    BY <1>5, <2>2, GetPageIs, ZenonT(60)
  <2>4. /\ MmuInv(r.m) /\ r.m.used <= m.used + 1 /\ r.sp \in ValidSp(r.m)
        /\ Level(r.m, r.sp) = RootLevel /\ RootInv(r.m, root)
    BY <1>5, <2>3 DEF Got, Level
  <2>5. MmuInv(mmu') /\ RootInv(mmu', root') /\ mmu'.used = r.m.used
    BY <1>3, <2>1, <2>4, RootUp, ZenonT(60)
  <2>6. m.used <= n_max - 1
    BY <1>1, <1>5, <1>6, EnoughIs, ZenonT(60)
  <2>7. mmu'.used \in Int
    BY <2>5, Zenon DEF MmuInv, MmuType
  <2>8. LimitInv'
    <3>1. mmu'.used <= n_max' + RootLevel - 2
      BY <1>1, <1>3, <1>5, <2>4, <2>5, <2>6, <2>7, RootLevelIs, SMTT(30)
    <3> QED
      BY <1>4, <3>1, Zenon DEF LimitInv
  <2>9. ThreadInv'
    BY <1>3, <1>4, <2>1 DEF ShadowInv, ThreadInv, Threads
  <2> QED
    BY <2>5, <2>8, <2>9, Zenon DEF ShadowInv
<1>7. CASE ~Enough(m)
  <2>1. mmu' = m /\ root' = root /\ pc' = pc
    BY <1>7, Zenon DEF MmuLoad
  <2>2. Reduced(mmu, mmu')
    BY <1>2, <2>1, Zenon
  <2>3. MmuInv(mmu') /\ RootInv(mmu', root') /\ LimitInv'
    BY <1>3, <1>4, <2>1, <2>2, ReducedStep, ZenonT(60)
  <2>4. ThreadInv'
    BY <1>3, <1>4, <2>1, ZenonT(60) DEF ShadowInv, ThreadInv
  <2> QED
    BY <2>3, <2>4, Zenon DEF ShadowInv
<1> QED
  BY <1>6, <1>7, ZenonT(60)

\* vmrun_mmu_unload keeps the invariant, whether or not the root is freed.
LEMMA MmuUnloadInv ==
    ASSUME ShadowInv, NEW v \in Vcpus, MmuUnload(v)
    PROVE  ShadowInv'
<1> DEFINE p == root[v]
           m == [mmu EXCEPT !.roots[p] = @ - 1, !.reload = @ \ {v}]
           rt == [root EXCEPT ![v] = None]
<1>1. MmuInv(mmu) /\ RootInv(mmu, root) /\ n_max \in Nat /\ mmu.used \in Int
  BY Zenon DEF ShadowInv, ThreadInv, MmuInv, MmuType
<1>2. /\ lock = None /\ pc[v] = "idle" /\ p # None /\ root' = rt
      /\ n_max' = n_max /\ lock' = lock /\ walk' = walk /\ batch' = batch /\ pc' = pc
  BY Zenon DEF MmuUnload, Idle
<1>3. walk = None /\ walk' = None /\ \A u \in Threads : pc[u] # "fault"
  BY <1>2, NoWalk, Zenon DEF ShadowInv, Threads
<1>4. mmu' = IF m.roots[p] = 0 /\ p \in m.invalid THEN ZapPages(m, {p}) ELSE m
  BY Zenon DEF MmuUnload
<1>5. MmuInv(m) /\ RootInv(m, rt) /\ m.used = mmu.used /\ m.active = mmu.active
  <2>1. p = root[v] /\ m = FreeRoot(mmu, p, v)
    BY Zenon DEF FreeRoot
  <2> HIDE DEF p, m
  <2>2. root[v] # None
    BY <1>2, <2>1, Zenon
  <2> QED
    BY <1>1, <2>1, <2>2, RootDown
<1>6. {p} \in SUBSET m.active
  BY <1>1, <1>2, <1>5, ZenonT(60) DEF RootInv
<1> HIDE DEF m, p, rt
<1>7. MmuInv(mmu') /\ RootInv(mmu', root') /\ mmu'.used <= mmu.used
  <2>1. Reduced(m, ZapPages(m, {p}))
    BY <1>5, <1>6, ZapPagesReduces, Zenon
  <2>2. CASE mmu' = ZapPages(m, {p})
    BY <1>2, <1>5, <2>1, <2>2, ZenonT(60) DEF Reduced
  <2>3. CASE mmu' = m
    BY <1>1, <1>2, <1>5, <2>3, SMTT(30)
  <2> QED
    BY <1>4, <2>2, <2>3, Zenon
<1>8. LimitInv'
  <2>1. mmu'.used \in Int
    BY <1>7, Zenon DEF MmuInv, MmuType
  <2> QED
    BY <1>1, <1>2, <1>3, <1>7, <2>1, RootLevelIs, SMTT(30) DEF LimitInv, ShadowInv
<1>9. ThreadInv'
  BY <1>2, <1>3, Zenon DEF ShadowInv, ThreadInv
<1> QED
  BY <1>7, <1>8, <1>9, Zenon DEF ShadowInv

\* The start of a fault, with the pages it makes available, keeps the invariant.
LEMMA FaultBeginInv ==
    ASSUME ShadowInv, NEW v \in Vcpus, FaultBegin(v)
    PROVE  ShadowInv'
<1> DEFINE m == MakePagesAvailable(mmu)
<1>1. MmuInv(mmu) /\ RootInv(mmu, root) /\ n_max \in Nat /\ mmu.used \in Int
  BY Zenon DEF ShadowInv, ThreadInv, MmuInv, MmuType
<1>2. Reduced(mmu, m)
  BY <1>1, MakePagesAvailableReduces, Zenon
<1>3. /\ lock = None /\ pc[v] = "idle" /\ root[v] # None /\ mmu' = m
      /\ n_max' = n_max /\ root' = root /\ batch' = batch
  BY Zenon DEF FaultBegin, Idle
<1>4. walk = None /\ \A u \in Threads : pc[u] # "fault"
  BY <1>3, NoWalk, Zenon DEF ShadowInv, Threads
<1>5. MmuInv(m) /\ RootInv(m, root) /\ m.used \in Int
  BY <1>1, <1>2, Zenon DEF Reduced, MmuInv, MmuType
<1>6. CASE Enough(m)
  <2>1. pc' = [pc EXCEPT ![v] = "fault"] /\ lock' = v /\ walk' = root[v]
    BY <1>6, Zenon DEF FaultBegin
  <2> HIDE DEF m
  <2>2. m.used <= n_max - 1
    BY <1>1, <1>5, <1>6, EnoughIs, ZenonT(60)
  <2>3. root[v] \in m.active /\ Level(m, root[v]) = RootLevel /\ root[v] \in Sp
    BY <1>3, <1>5, ZenonT(60) DEF RootInv
  <2>4. LimitInv'
    BY <1>1, <1>3, <1>5, <2>1, <2>2, <2>3, RootLevelIs, SMTT(30) DEF LimitInv
  <2>5. ThreadInv'
    BY <1>3, <1>4, <2>1, <2>3, ShadowAssumption, SMTT(30) DEF ShadowInv, ThreadInv, Threads
  <2> QED
    BY <1>3, <1>5, <2>4, <2>5, ZenonT(60) DEF ShadowInv
<1>7. CASE ~Enough(m)
  <2>1. lock' = lock /\ walk' = walk /\ pc' = pc
    BY <1>7, Zenon DEF FaultBegin
  <2>2. Reduced(mmu, mmu')
    BY <1>2, <1>3, Zenon
  <2>3. MmuInv(mmu') /\ RootInv(mmu', root') /\ LimitInv'
    BY <1>3, <1>4, <2>1, <2>2, ReducedStep, ZenonT(60)
  <2>4. ThreadInv'
    BY <1>3, <1>4, <2>1, ZenonT(60) DEF ShadowInv, ThreadInv
  <2> QED
    BY <2>3, <2>4, ZenonT(60) DEF ShadowInv
<1> QED
  BY <1>6, <1>7, ZenonT(60)

\* A vCPU in the walk of a fault stands on a page in use.
LEMMA FaultStands ==
    ASSUME ShadowInv, NEW v \in Vcpus, lock = v, pc[v] = "fault"
    PROVE  /\ walk \in Sp /\ walk \in mmu.active
           /\ Level(mmu, walk) \in 1..RootLevel
           /\ mmu.used <= n_max - 1 + RootLevel - Level(mmu, walk)
           /\ \A u \in Threads : pc[u] = "fault" => u = v
<1>1. v \in Threads /\ walk \in Sp \cup {None}
  BY Zenon DEF Threads, ShadowInv, ThreadInv
<1>2. walk # None /\ \A u \in Threads : pc[u] = "fault" => u = v
  BY <1>1, Zenon DEF ShadowInv, ThreadInv
<1>3. walk \in mmu.active
  BY <1>2, Zenon DEF ShadowInv, ThreadInv
<1>4. mmu.key[walk] \in Tables
  BY <1>3, Zenon DEF ShadowInv, MmuInv, Levels, Allocated
<1>5. Level(mmu, walk) \in 1..RootLevel
  BY <1>4, ShadowAssumption, Zenon DEF Level
<1>6. mmu.used <= n_max - 1 + RootLevel - Level(mmu, walk)
  BY <1>2, Zenon DEF ShadowInv, LimitInv
<1> QED
  BY <1>1, <1>2, <1>3, <1>5, <1>6, ZenonT(60)

\* A step of the walk to a page one level down, for which at most one page was
\* taken on.
LEMMA FaultStep ==
    ASSUME ShadowInv, NEW v \in Vcpus, lock = v, pc[v] = "fault",
           MmuInv(mmu'), RootInv(mmu', root'), mmu'.used <= mmu.used + 1,
           walk' \in mmu'.active, Level(mmu', walk') = Level(mmu, walk) - 1,
           UNCHANGED <<n_max, root, pc, lock, batch>>
    PROVE  ShadowInv'
<1>1. /\ n_max \in Nat /\ mmu.used \in Int /\ mmu'.used \in Int /\ mmu'.active \in SUBSET Sp
  BY Zenon DEF ShadowInv, ThreadInv, MmuInv, MmuType
<1>2. /\ Level(mmu, walk) \in 1..RootLevel
      /\ mmu.used <= n_max - 1 + RootLevel - Level(mmu, walk)
      /\ \A u \in Threads : pc[u] = "fault" => u = v
  BY FaultStands, Zenon
<1>3. walk' \in Sp /\ walk' # None /\ v # None /\ v \in Threads
  BY <1>1, ShadowAssumption, Zenon DEF Threads
<1>4. Level(mmu', walk') \in 1..RootLevel
  <2>1. mmu'.key[walk'] \in Tables
    BY Zenon DEF MmuInv, Levels, Allocated
  <2> QED
    BY <2>1, ShadowAssumption, Zenon DEF Level
<1>5. mmu'.used <= n_max - 1 + RootLevel - Level(mmu', walk')
  <2>1. RootLevel \in Int /\ Level(mmu, walk) \in Int
    BY <1>2, RootLevelIs
  <2>2. \A a, b, c, d, e \in Int :
            a <= b + 1 /\ b <= c - 1 + d - e => a <= c - 1 + d - (e - 1)
    OBVIOUS
  <2> QED
    BY <1>1, <1>2, <2>1, <2>2
<1>6. mmu'.used <= n_max + RootLevel - 2
  BY <1>1, <1>4, <1>5, RootLevelIs
<1>7. LimitInv'
  BY <1>5, <1>6, Zenon DEF LimitInv
<1>8. ThreadInv'
  BY <1>2, <1>3, Zenon DEF ShadowInv, ThreadInv
<1> QED
  BY <1>7, <1>8, ZenonT(60) DEF ShadowInv

\* A step of the walk over an existing entry keeps the invariant.
LEMMA FaultWalkInv ==
    ASSUME ShadowInv, NEW v \in Vcpus, NEW i \in Slots, FaultWalk(v, i)
    PROVE  ShadowInv'
<1>1. /\ lock = v /\ pc[v] = "fault" /\ mmu.spt[walk][i] # None
      /\ walk' = mmu.spt[walk][i] /\ mmu' = mmu
      /\ UNCHANGED <<n_max, root, pc, lock, batch>>
  BY Zenon DEF FaultWalk
<1>2. walk \in Sp
  BY <1>1, FaultStands, Zenon
<1>3. walk' \in mmu'.active /\ Level(mmu', walk') = Level(mmu, walk) - 1
  BY <1>1, <1>2, ZenonT(60) DEF ShadowInv, MmuInv, Links
<1>4. MmuInv(mmu') /\ RootInv(mmu', root') /\ mmu'.used <= mmu.used + 1
  BY <1>1 DEF ShadowInv, MmuInv, MmuType
<1> QED
  BY <1>1, <1>3, <1>4, FaultStep, Zenon

\* A step of the walk that allocates and links a page keeps the invariant.
LEMMA FaultLinkInv ==
    ASSUME ShadowInv, NEW v \in Vcpus, NEW i \in Slots, NEW g, FaultLink(v, i, g)
    PROVE  ShadowInv'
<1> DEFINE l == Level(mmu, walk) - 1
<1>1. /\ lock = v /\ pc[v] = "fault" /\ Level(mmu, walk) > 1 /\ g \in GfnsAt(l)
      /\ UNCHANGED <<n_max, root, pc, lock, batch>>
  BY Zenon DEF FaultLink
<1>2. PICK r \in GetPage(mmu, g, l) :
          mmu' = LinkShadowPage(r.m, walk, i, r.sp) /\ walk' = r.sp
  BY Zenon DEF FaultLink
<1>3. MmuInv(mmu) /\ RootInv(mmu, root)
  BY Zenon DEF ShadowInv
<1>4. walk \in mmu.active /\ Level(mmu, walk) \in 1..RootLevel
  BY <1>1, FaultStands, Zenon
<1>5. [gfn |-> g, level |-> l] \in Tables
  BY <1>1, GfnsAtIs, Zenon
<1>6. Got(mmu, r.m, r.sp, g, l)
  BY <1>3, <1>5, GetPageIs, ZenonT(60)
<1>7. /\ MmuInv(r.m) /\ RootInv(r.m, root) /\ r.m.used <= mmu.used + 1
      /\ r.sp \in ValidSp(r.m) /\ r.m.key[r.sp].level = l
      /\ walk \in r.m.active /\ r.m.key[walk] = mmu.key[walk]
  BY <1>1, <1>3, <1>4, <1>6 DEF Got
<1>8. r.sp \in r.m.active \ r.m.invalid
  BY <1>7, ValidSpIs, Zenon
<1>9. Level(r.m, r.sp) = Level(r.m, walk) - 1
  BY <1>7, Zenon DEF Level
<1>10. MmuInv(mmu') /\ SameLists(r.m, mmu')
  BY <1>2, <1>7, <1>8, <1>9, LinkShadowPageKeeps, SMTT(30)
<1>11. RootInv(mmu', root')
  BY <1>1, <1>7, <1>10, SameListsRoots, Zenon
<1>12. /\ mmu'.used <= mmu.used + 1 /\ walk' \in mmu'.active
       /\ Level(mmu', walk') = Level(mmu, walk) - 1
  BY <1>2, <1>7, <1>8, <1>10, Zenon DEF SameLists, Level
<1> QED
  BY <1>1, <1>10, <1>11, <1>12, FaultStep, SMTT(30)

\* The end of a fault keeps the invariant.
LEMMA FaultUnlockInv ==
    ASSUME ShadowInv, NEW v \in Vcpus, FaultUnlock(v),
           MmuInv(mmu'), RootInv(mmu', root), mmu'.used = mmu.used
    PROVE  ShadowInv'
<1>1. /\ lock = v /\ pc[v] = "fault" /\ pc' = [pc EXCEPT ![v] = "idle"]
      /\ lock' = None /\ walk' = None /\ n_max' = n_max /\ root' = root /\ batch' = batch
  BY Zenon DEF FaultUnlock
<1>2. \A u \in Threads : pc[u] = "fault" => u = v
  BY <1>1, FaultStands, Zenon
<1>3. LimitInv'
  BY <1>1, Zenon DEF ShadowInv, LimitInv
<1>4. ThreadInv'
  BY <1>1, <1>2, ZenonT(60) DEF ShadowInv, ThreadInv, Threads
<1> QED
  BY <1>1, <1>3, <1>4, ZenonT(60) DEF ShadowInv

\* A fault that maps a frame for reading keeps the invariant.
LEMMA FaultReadInv ==
    ASSUME ShadowInv, NEW v \in Vcpus, FaultRead(v) \/ FaultOutOfPool(v)
    PROVE  ShadowInv'
<1>1. FaultUnlock(v) /\ mmu' = mmu
  BY Zenon DEF FaultRead, FaultDone, FaultOutOfPool
<1>2. MmuInv(mmu') /\ RootInv(mmu', root)
  BY <1>1, Zenon DEF ShadowInv
<1> QED
  BY <1>1, <1>2, FaultUnlockInv, Zenon

\* A fault that maps a frame for writing, and takes its leaves out of step, keeps
\* the invariant.
LEMMA FaultWriteInv ==
    ASSUME ShadowInv, NEW v \in Vcpus, NEW g \in Gfns, FaultWrite(v, g)
    PROVE  ShadowInv'
<1>1. MmuInv(mmu) /\ RootInv(mmu, root) /\ FaultUnlock(v)
  BY Zenon DEF ShadowInv, FaultWrite, FaultDone
<1>2. CASE PageTrackIsActive(mmu, g)
  <2>1. mmu' = mmu
    BY <1>2, Zenon DEF FaultWrite
  <2> QED
    BY <1>1, <2>1, FaultUnlockInv, Zenon
<1>3. CASE ~PageTrackIsActive(mmu, g)
  <2> DEFINE u == [mmu EXCEPT !.writable = mmu.writable \cup {g}]
  <2>1. mmu' = UnsyncPages(u, ValidSpOf(u, g) \ u.unsync)
    BY <1>3, Zenon DEF FaultWrite
  <2>2. u = [mmu EXCEPT !.writable = mmu.writable \cup {g}]
    BY Zenon
  <2> HIDE DEF u
  <2>3. MmuInv(mmu') /\ SameLists(mmu, mmu')
    BY <1>1, <1>3, <2>1, <2>2, UnsyncPagesKeep, ZenonT(60)
  <2>4. RootInv(mmu', root) /\ mmu'.used = mmu.used
    BY <1>1, <2>3, SameListsRoots, ZenonT(60) DEF SameLists
  <2> QED
    BY <1>1, <2>3, <2>4, FaultUnlockInv, ZenonT(60)
<1> QED
  BY <1>2, <1>3, Zenon

\* A round of mmu_sync_children, yielding or not, keeps the invariant.
LEMMA SyncChildrenInv ==
    ASSUME ShadowInv, NEW v \in Vcpus, NEW yield \in BOOLEAN, SyncChildren(v, yield)
    PROVE  ShadowInv'
<1> DEFINE p == root[v]
           m == Walked(mmu, p)
           leaves == {LeafOf(m, path) : path \in FirstPaths(m, p)}
<1>1. /\ lock \in {None, v} /\ p # None /\ pc[v] \in {"sync", "idle"}
      /\ pc' = [pc EXCEPT ![v] = "sync"] /\ lock' \in {None, v}
      /\ n_max' = n_max /\ root' = root /\ walk' = walk /\ batch' = batch
  BY Zenon DEF SyncChildren, Syncs, Locks
<1>2. walk = None /\ \A u \in Threads : pc[u] # "fault"
  BY <1>1, NoWalk, Zenon DEF ShadowInv, Threads
<1>3. MmuInv(mmu) /\ p \in Sp
  BY <1>1, Zenon DEF ShadowInv, RootInv
<1>4. MmuInv(m) /\ SameLists(mmu, m)
  BY <1>3, WalkedKeeps, Zenon
<1>5. PICK bad \in SUBSET leaves : mmu' = SyncRound(m, p, bad)
  BY Zenon DEF SyncChildren, SyncRound
<1> HIDE DEF m, p
<1>6. Reduced(m, mmu')
  BY <1>3, <1>4, <1>5, SyncRoundKeeps, ZenonT(60)
<1>7. Reduced(mmu, mmu')
  <2>1. m.used = mmu.used /\ \A rt : RootInv(mmu, rt) => RootInv(m, rt)
    BY <1>4, SameListsRoots, Zenon DEF SameLists
  <2> QED
    BY <1>6, <2>1, Zenon DEF Reduced
<1>8. MmuInv(mmu') /\ RootInv(mmu', root') /\ LimitInv'
  BY <1>1, <1>2, <1>7, ReducedStep, ZenonT(60)
<1>9. ThreadInv'
  BY <1>1, <1>2, ShadowAssumption, ZenonT(60) DEF ShadowInv, ThreadInv, Threads
<1> QED
  BY <1>8, <1>9, Zenon DEF ShadowInv

\* The end of mmu_sync_children keeps the invariant.
LEMMA SyncEndInv ==
    ASSUME ShadowInv, NEW v \in Vcpus, SyncEnd(v)
    PROVE  ShadowInv'
<1> DEFINE p == root[v]
<1>1. /\ lock \in {None, v} /\ p # None /\ pc[v] \in {"sync", "idle"}
      /\ mmu' = Walked(mmu, p)
      /\ pc' = [pc EXCEPT ![v] = "idle"] /\ lock' = None
      /\ n_max' = n_max /\ root' = root /\ walk' = walk /\ batch' = batch
  BY Zenon DEF SyncEnd, Syncs, Locks
<1>2. walk = None /\ \A u \in Threads : pc[u] # "fault"
  BY <1>1, NoWalk, ZenonT(60) DEF ShadowInv, Threads
<1>3. MmuInv(mmu) /\ mmu.used \in Int /\ p \in Sp
  BY <1>1, ZenonT(60) DEF ShadowInv, RootInv, MmuInv, MmuType
<1>4. MmuInv(mmu') /\ SameLists(mmu, mmu')
  BY <1>1, <1>3, WalkedKeeps, Zenon
<1>5. Reduced(mmu, mmu')
  <2>1. mmu'.used = mmu.used /\ \A rt : RootInv(mmu, rt) => RootInv(mmu', rt)
    BY <1>4, SameListsRoots, Zenon DEF SameLists
  <2> QED
    BY <1>3, <1>4, <2>1 DEF Reduced
<1>6. MmuInv(mmu') /\ RootInv(mmu', root') /\ LimitInv'
  BY <1>1, <1>2, <1>5, ReducedStep, ZenonT(60)
<1>7. ThreadInv'
  BY <1>1, <1>2, ShadowAssumption, ZenonT(60) DEF ShadowInv, ThreadInv, Threads
<1> QED
  BY <1>6, <1>7, ZenonT(60) DEF ShadowInv

\* Every step of every thread keeps the invariant.
LEMMA ShadowNext == ShadowInv /\ [Next]_vars => ShadowInv'
<1> SUFFICES ASSUME ShadowInv, [Next]_vars PROVE ShadowInv'
  BY Zenon
<1>1. CASE UNCHANGED vars
  BY <1>1, Zenon DEF vars, ShadowInv, ThreadInv, LimitInv
<1>2. ASSUME NEW v \in Vcpus, NEW g \in GfnsAt(RootLevel), MmuLoad(v, g) PROVE ShadowInv'
  BY <1>2, MmuLoadInv, Zenon
<1>3. ASSUME NEW v \in Vcpus, MmuUnload(v) PROVE ShadowInv'
  BY <1>3, MmuUnloadInv, Zenon
<1>4. ASSUME NEW v \in Vcpus, FaultBegin(v) PROVE ShadowInv'
  BY <1>4, FaultBeginInv, Zenon
<1>5. ASSUME NEW v \in Vcpus, NEW i \in Slots, FaultWalk(v, i) PROVE ShadowInv'
  BY <1>5, FaultWalkInv, Zenon
<1>6. ASSUME NEW v \in Vcpus, NEW i \in Slots, NEW g \in Gfns, FaultLink(v, i, g)
      PROVE  ShadowInv'
  BY <1>6, FaultLinkInv, Zenon
<1>7. ASSUME NEW v \in Vcpus, FaultRead(v) \/ FaultOutOfPool(v) PROVE ShadowInv'
  BY <1>7, FaultReadInv, Zenon
<1>8. ASSUME NEW v \in Vcpus, NEW g \in Gfns, FaultWrite(v, g) PROVE ShadowInv'
  BY <1>8, FaultWriteInv, Zenon
<1>9. ASSUME NEW v \in Vcpus, NEW yield \in BOOLEAN, SyncChildren(v, yield) PROVE ShadowInv'
  BY <1>9, SyncChildrenInv, ZenonT(60)
<1>10. ASSUME NEW v \in Vcpus, SyncEnd(v) PROVE ShadowInv'
  BY <1>10, SyncEndInv, Zenon
<1>11. ASSUME NEW g \in Gfns, UnprotectPage(g) PROVE ShadowInv'
  BY <1>11, UnprotectPageInv, Zenon
<1>12. ASSUME NEW g \in Gfns, NEW i \in Slots, PteWrite(g, i) PROVE ShadowInv'
  BY <1>12, PteWriteInv, ZenonT(60)
<1>13. ASSUME NEW goal \in Limits, ChangeMmuPages(goal) PROVE ShadowInv'
  BY <1>13, ChangeMmuPagesInv, Zenon
<1>14. CASE Shrink
  BY <1>14, ShrinkInv, ZenonT(60)
<1>15. ASSUME NEW z \in Zappers, InvalidateZapAll(z) PROVE ShadowInv'
  BY <1>15, InvalidateZapAllInv, Zenon
<1>16. ASSUME NEW z \in Zappers, ZapObsolete(z) PROVE ShadowInv'
  BY <1>16, ZapObsoleteInv, Zenon
<1>17. ASSUME NEW z \in Zappers, ZapYield(z) PROVE ShadowInv'
  BY <1>17, ZapYieldInv, Zenon
<1>18. ASSUME NEW z \in Zappers, ZapEnd(z) PROVE ShadowInv'
  BY <1>18, ZapEndInv, Zenon
<1> QED
  BY <1>1, <1>2, <1>3, <1>4, <1>5, <1>6, <1>7, <1>8, <1>9, <1>10, <1>11, <1>12, <1>13,
     <1>14, <1>15, <1>16, <1>17, <1>18, ZenonT(60) DEF Next

\* The inductive invariant holds in every behaviour.
LEMMA ShadowAlways == Spec => []ShadowInv
BY ShadowInit, ShadowNext, PTL DEF Spec

-----------------------------------------------------------------------------
(* The theorems, for any number of pages, tables, entries, vCPUs and       *)
(* zappers.                                                                *)

\* Type correctness of the shadow pages: a page structure is handed out, counted
\* and freed within the bounds of its fields, whatever zapped it.
THEOREM ShadowTypes == Spec => []TypeOK
<1>1. ShadowInv => TypeOK
  <2> SUFFICES ASSUME ShadowInv PROVE TypeOK
    BY Zenon
  <2>1. /\ mmu.active \in SUBSET Sp /\ mmu.zapped \in SUBSET Sp
        /\ mmu.key \in [Sp -> Tables \cup {NoKey}] /\ mmu.gen \in [Sp -> Nat]
        /\ mmu.valid \in Nat
        /\ mmu.spt \in [Sp -> [Slots -> Sp \cup {None}]] /\ mmu.bits \in [Sp -> SUBSET Slots]
        /\ mmu.writable \in SUBSET Gfns /\ mmu.reload \in SUBSET Vcpus
        /\ mmu.roots \in [Sp -> Int]
    BY Zenon DEF ShadowInv, MmuInv, MmuType
  <2>2. /\ mmu.invalid \subseteq Allocated(mmu) /\ mmu.unsync \subseteq Allocated(mmu)
        /\ mmu.used = Cardinality(mmu.active)
    BY Zenon DEF ShadowInv, MmuInv, Lists, Allocated
  <2>3. mmu.used \in Nat
    BY <2>1, <2>2, ShadowAssumption, FS_Subset, FS_CardinalityType, SMTT(30)
  <2>4. mmu.valid \in 0..MaxGen /\ mmu.gen \in [Sp -> 0..MaxGen]
    <3>1. mmu.valid <= MaxGen /\ \A p \in Sp : mmu.gen[p] <= mmu.valid
      BY Zenon DEF ShadowInv, MmuInv, Ages
    <3>2. \A p \in Sp : mmu.gen[p] \in 0..MaxGen
      BY <2>1, <3>1, ShadowAssumption
    <3> QED
      BY <2>1, <3>1, <3>2, ShadowAssumption, SMTT(30)
  <2>5. mmu.roots \in [Sp -> 0..Cardinality(Vcpus)]
    <3>1. ASSUME NEW p \in Sp PROVE mmu.roots[p] \in 0..Cardinality(Vcpus)
      <4> DEFINE S == {v \in Vcpus : root[v] = p}
      <4>1. mmu.roots[p] = Cardinality(S) /\ S \subseteq Vcpus
        BY Zenon DEF ShadowInv, RootInv
      <4>2. IsFiniteSet(Vcpus) /\ IsFiniteSet(S) /\ Cardinality(S) <= Cardinality(Vcpus)
        BY <4>1, ShadowAssumption, FS_Subset, ZenonT(60)
      <4>3. Cardinality(S) \in Nat /\ Cardinality(Vcpus) \in Nat
        BY <4>2, FS_CardinalityType, ZenonT(60)
      <4> QED
        BY <4>1, <4>2, <4>3
    <3> QED
      BY <2>1, <3>1, Zenon
  <2> QED
    BY <2>1, <2>2, <2>3, <2>4, <2>5, SMTT(30) DEF TypeOK, ShadowInv, ThreadInv, RootInv
<1> QED
  BY <1>1, ShadowAlways, PTL

\* No entry points to a page vmrun_mmu_prepare_zap_page took away, no vCPU runs
\* on a root that left the active list, and the walk of a fault stands on a page
\* of it.
THEOREM ShadowNoDangling == Spec => []NoDangling
<1>1. ShadowInv => NoDangling
  <2> SUFFICES ASSUME ShadowInv PROVE NoDangling
    BY Zenon
  <2>1. Allocated(mmu) \subseteq Sp
    BY ZenonT(60) DEF ShadowInv, MmuInv, MmuType, Allocated
  <2> QED
    BY <2>1, ZenonT(60) DEF ShadowInv, MmuInv, Links, RootInv, ThreadInv, NoDangling
<1> QED
  BY <1>1, ShadowAlways, PTL

\* n_used_mmu_pages and root_count are exact, however often a page is zapped and
\* whoever zaps it.
THEOREM ShadowCounts == Spec => []CountsExact
<1>1. ShadowInv => CountsExact
  BY ZenonT(60) DEF ShadowInv, MmuInv, Lists, RootInv, CountsExact
<1> QED
  BY <1>1, ShadowAlways, PTL

\* A guest table has at most one usable page of a role, so that the lookup of
\* vmrun_mmu_get_page is complete.
THEOREM ShadowValidUnique == Spec => []ValidUnique
<1>1. ShadowInv => ValidUnique
  BY ZenonT(60) DEF ShadowInv, MmuInv, Unique, ValidUnique
<1> QED
  BY <1>1, ShadowAlways, PTL

\* The marks lead from every root down to each page that is out of step, through
\* every interleaving of links, writes, walks and zaps.
THEOREM ShadowUnsyncMarked == Spec => []UnsyncMarked
<1>1. ShadowInv => UnsyncMarked
  <2> SUFFICES ASSUME ShadowInv PROVE UnsyncMarked
    BY Zenon
  <2>1. Allocated(mmu) \subseteq Sp
    BY ZenonT(60) DEF ShadowInv, MmuInv, MmuType, Allocated
  <2> QED
    BY <2>1, ZenonT(60) DEF ShadowInv, MmuInv, Marks, UnsyncMarked
<1> QED
  BY <1>1, ShadowAlways, PTL

\* mmu_need_write_protect: the guest writes a table only while its usable pages
\* are leaves known to be out of step.
THEOREM ShadowWritable == Spec => []WritableUnsync
<1>1. ShadowInv => WritableUnsync
  BY ZenonT(60) DEF ShadowInv, MmuInv, Protected, WritableUnsync
<1> QED
  BY <1>1, ShadowAlways, PTL

\* vmrun_reload_remote_mmus, taken to ask every vCPU, is called whenever a root in
\* use is invalidated or becomes obsolete.
THEOREM ShadowReload == Spec => []ReloadRequested
<1>1. ShadowInv => ReloadRequested
  BY Zenon DEF ShadowInv, RootInv, ReloadRequested
<1> QED
  BY <1>1, ShadowAlways, PTL

\* A fault passes n_max_mmu_pages by less than the levels below the root, with
\* all the others, the shrinker and a new limit in between.
THEOREM ShadowLimit == Spec => []LimitKept
<1>1. ShadowInv => LimitKept
  BY Zenon DEF ShadowInv, LimitInv, LimitKept
<1> QED
  BY <1>1, ShadowAlways, PTL

\* vmrun_zap_obsolete_pages stops at the first page that is not obsolete, and
\* still leaves no usable page of an old generation: the list is ordered by age
\* but for the invalid pages.
THEOREM ShadowZapComplete == Spec => ZapComplete
<1> DEFINE Done == \A z \in Zappers : pc[z] = "zap" /\ pc'[z] = "idle" =>
                      \A p \in mmu'.active : IsObsolete(mmu', p) => p \in mmu'.invalid
<1>1. ShadowInv /\ [Next]_vars => [Done]_vars
  <2> SUFFICES ASSUME ShadowInv, Next, NEW z \in Zappers, pc[z] = "zap", pc'[z] = "idle",
                      NEW p \in mmu'.active, IsObsolete(mmu', p)
               PROVE  p \in mmu'.invalid
    BY Zenon
  <2>1. pc \in [Threads -> {"idle", "fault", "sync", "zap"}] /\ z \in Threads
    BY Zenon DEF ShadowInv, ThreadInv, Threads
  <2>2. \E y \in Zappers : ZapEnd(y)
    <3>1. ASSUME NEW v \in Threads, NEW s, pc[v] # "zap" \/ s # "idle",
                 pc' = [pc EXCEPT ![v] = s]
          PROVE  FALSE
      BY <2>1, <3>1, Zenon
    <3>2. ASSUME NEW v \in Vcpus
          PROVE  /\ ~MmuUnload(v) /\ ~FaultBegin(v) /\ ~FaultOutOfPool(v) /\ ~FaultRead(v)
                 /\ ~SyncEnd(v)
                 /\ \A g : ~MmuLoad(v, g) /\ ~FaultWrite(v, g)
                 /\ \A i : ~FaultWalk(v, i) /\ \A g : ~FaultLink(v, i, g)
                 /\ \A yield : ~SyncChildren(v, yield)
      <4>1. v \in Threads /\ pc' # pc
        BY Zenon DEF Threads
      <4>2. ~MmuUnload(v) /\ \A i : ~FaultWalk(v, i) /\ \A g : ~FaultLink(v, i, g)
        BY <4>1, Zenon DEF MmuUnload, FaultWalk, FaultLink
      <4>3. ~FaultBegin(v) /\ \A g : ~MmuLoad(v, g)
        BY <3>1, <4>1, Zenon DEF FaultBegin, MmuLoad
      <4>4. ~FaultUnlock(v)
        BY <3>1, <4>1, Zenon DEF FaultUnlock
      <4>5. ~SyncEnd(v) /\ \A yield : ~SyncChildren(v, yield)
        BY <3>1, <4>1, Zenon DEF SyncEnd, SyncChildren, Syncs
      <4> QED
        BY <4>2, <4>3, <4>4, <4>5, ZenonT(60) DEF FaultOutOfPool, FaultRead, FaultWrite, FaultDone
    <3>3. /\ ~Shrink /\ \A g : ~UnprotectPage(g)
          /\ \A g, i : ~PteWrite(g, i) /\ \A goal : ~ChangeMmuPages(goal)
      BY Zenon DEF Shrink, UnprotectPage, PteWrite, ChangeMmuPages, UnderLock
    <3>4. ASSUME NEW y \in Zappers
          PROVE  ~InvalidateZapAll(y) /\ ~ZapObsolete(y) /\ ~ZapYield(y)
      <4>1. y \in Threads
        BY Zenon DEF Threads
      <4> QED
        BY <3>1, <4>1, Zenon DEF InvalidateZapAll, ZapObsolete, ZapYield
    <3> QED
      BY <3>2, <3>3, <3>4, Zenon DEF Next
  <2>3. mmu' = FreePages(mmu, mmu.zapped) /\ ObsoleteAtTail(mmu) = {}
    BY <2>2, Zenon DEF ZapEnd
  <2>4. /\ mmu \in MmuType /\ mmu.zapped \in SUBSET Sp /\ mmu.active \in SUBSET Sp
        /\ mmu.gen \in [Sp -> Nat] /\ mmu.valid \in Nat
        /\ mmu.zapped \cap mmu.active = {}
    BY Zenon DEF ShadowInv, MmuInv, MmuType, Lists
  <2>5. /\ mmu'.active = mmu.active /\ mmu'.invalid = mmu.invalid \ mmu.zapped
        /\ mmu'.valid = mmu.valid
        /\ mmu'.gen = [q \in Sp |-> IF q \in mmu.zapped THEN 0 ELSE mmu.gen[q]]
    BY <2>3, <2>4, FreePagesIs, ZenonT(60)
  <2>6. p \in mmu.active /\ mmu.gen[p] # mmu.valid
    BY <2>4, <2>5, Zenon DEF IsObsolete
  <2>7. SUFFICES ASSUME p \notin mmu.invalid PROVE FALSE
    BY <2>4, <2>5, <2>6, Zenon
  <2>8. /\ \A q \in Sp : mmu.gen[q] <= mmu.valid
        /\ \A q \in Sp : <<q, p>> \in mmu.older => mmu.gen[q] <= mmu.gen[p]
    BY <2>4, <2>6, <2>7, SMTT(30) DEF ShadowInv, MmuInv, Ages
  <2>9. \A q \in mmu.active : q = p \/ <<q, p>> \in mmu.older => mmu.gen[q] # mmu.valid
    BY <2>4, <2>6, <2>8
  <2> QED
    BY <2>3, <2>6, <2>7, <2>9, Zenon DEF ObsoleteAtTail, IsObsolete
<1> QED
  BY <1>1, ShadowAlways, PTL DEF Spec, ZapComplete
=============================================================================
