------------------------------- MODULE Rmaps -------------------------------
(***************************************************************************)
(* Reverse maps (kernel/mmu.c): the sptes that map a guest frame, kept as  *)
(* nothing, as one pointer, or as a chain of descriptors of PTE_LIST_EXT   *)
(* pointers each; the iterator over them and the loops that drop entries   *)
(* under it; and the per-vCPU cache the descriptors come from.  The        *)
(* parent_ptes of a shadow page are kept by the same functions.            *)
(*                                                                         *)
(* Everything but filling the cache happens under mmu_lock.  Loops are     *)
(* taken step by step, so that their course can be compared with RmapSet.  *)
(***************************************************************************)
EXTENDS Integers, Sequences, FiniteSets

CONSTANTS
    Frames,         \* guest frames, with the rmap_head of each
    Pages,          \* shadow pages, with parent_ptes
    Sptes,          \* the places of sptes
    PTE_LIST_EXT,
    RMAP_RECYCLE_THRESHOLD,
    CacheSize,      \* objects a cache holds
    CacheMin,       \* what mmu_topup_memory_caches asks for
    FaultAdds,      \* entries one fault adds at most: links, mapping and prefetch
    NULL, NoHead

ASSUME RmapAssumption ==
    /\ PTE_LIST_EXT \in Nat \ {0, 1}
    /\ RMAP_RECYCLE_THRESHOLD \in Nat
    /\ CacheSize \in Nat /\ CacheMin \in 0 .. CacheSize /\ FaultAdds \in 0 .. CacheMin
    /\ NULL \notin Sptes /\ NoHead \notin Frames \cup Pages /\ Frames \cap Pages = {}

Heads == Frames \cup Pages

VARIABLES
    head,       \* rmap_head->val: NULL, an spte, or a chain
    target,     \* the frame a present spte maps (vmrun_mmu_page_get_gfn) or the page
                \* it links; NoHead for an spte that is not present
    nobjs,      \* objects in the cache of the vCPU
    left,       \* entries the fault in progress may still add
    at,         \* the head of the loop in progress, or NoHead
    doomed,     \* the sptes that loop drops
    iter,       \* its rmap_iterator; desc 0 stands for NULL
    sptep,      \* its current spte, or NULL when it is about to end
    bug         \* the BUG that was hit, or "none"

vars == <<head, target, nobjs, left, at, doomed, iter, sptep, bug>>
loopVars == <<at, doomed, iter, sptep>>

-----------------------------------------------------------------------------
(* Values of a head.  A chain is the sequence of its descriptors, a descriptor
   the function of its slots. *)

Slots == 1 .. PTE_LIST_EXT
Descs == [Slots -> Sptes \cup {NULL}]
IsOne(v) == v \in Sptes
IsMany(v) == v # NULL /\ v \notin Sptes

\* Bit 0 of rmap_head->val tells a chain from the address of an spte.
ASSUME TagAssumption == \A s \in Sptes \cup {NULL} : s \notin Seq(Descs)

Full(desc) == desc[PTE_LIST_EXT] # NULL

Entries(v) ==
    IF v = NULL THEN {}
    ELSE IF IsOne(v) THEN {v}
    ELSE {v[k][i] : k \in DOMAIN v, i \in Slots} \ {NULL}

\* The number of pointers, counted with repetitions.
Pointers(v) ==
    IF v = NULL THEN 0
    ELSE IF IsOne(v) THEN 1
    ELSE Cardinality({p \in (DOMAIN v) \X Slots : v[p[1]][p[2]] # NULL})

\* The smallest number of a set that is not empty.
Least(S) == CHOOSE n \in S : \A m \in S : n <= m
Greatest(S) == CHOOSE n \in S : \A m \in S : m <= n
FreshDesc == [i \in Slots |-> NULL]

-----------------------------------------------------------------------------
(* pte_list_add *)

\* The descriptor the search stops at: the first that is not full, else the last.
AddDesc(v) == Least({k \in DOMAIN v : ~Full(v[k])} \cup {Len(v)})
NeedsDesc(v) == IsOne(v) \/ (IsMany(v) /\ Full(v[AddDesc(v)]))

FreeSlot(desc) == Least({i \in Slots : desc[i] = NULL})
Put(desc, s) == [desc EXCEPT ![FreeSlot(desc)] = s]

PteListAdd(s, v) ==
    IF v = NULL THEN s
    ELSE IF IsOne(v)
    THEN << [i \in Slots |-> IF i = 1 THEN v ELSE IF i = 2 THEN s ELSE NULL] >>
    ELSE IF Full(v[AddDesc(v)]) THEN Append(v, Put(FreshDesc, s))
    ELSE [v EXCEPT ![AddDesc(v)] = Put(@, s)]

\* Its result: PTE_LIST_EXT for each descriptor passed over, and the entries before
\* the new one in its descriptor.  A last descriptor that was full is not counted.
AddCount(v) ==
    IF v = NULL THEN 0
    ELSE IF IsOne(v) THEN 1
    ELSE PTE_LIST_EXT * (AddDesc(v) - 1)
         + (IF Full(v[AddDesc(v)]) THEN 0 ELSE FreeSlot(v[AddDesc(v)]) - 1)

-----------------------------------------------------------------------------
(* pte_list_remove *)

\* The search sees the slots of a descriptor up to the first that is empty.
Sees(desc, i) == \A j \in 1 .. i : desc[j] # NULL
FoundIn(s, desc) == {i \in Slots : Sees(desc, i) /\ desc[i] = s}
Found(s, v) ==
    \/ v = s
    \/ IsMany(v) /\ \E k \in DOMAIN v : FoundIn(s, v[k]) # {}

\* The last used slot, if it is behind i, else i.
LastUsed(desc, i) == Greatest({i} \cup {j \in Slots : j > i /\ desc[j] # NULL})

\* Mutant: the entry is cleared where it is, and leaves a gap.
WithoutLeavesGap(desc, i) == [desc EXCEPT ![i] = NULL]

\* The last entry takes the place of the one removed.
Without(desc, i) ==
    [desc EXCEPT ![i] = desc[LastUsed(desc, i)], ![LastUsed(desc, i)] = NULL]

\* Mutant: a descriptor at the end of a chain is not unlinked when it is empty.
UnlinkKeepsLast(v, k) == IF k = Len(v) /\ k > 1 THEN [v EXCEPT ![k] = FreshDesc]
                         ELSE [n \in 1 .. Len(v) - 1 |-> IF n < k THEN v[n] ELSE v[n + 1]]

\* An empty descriptor is unlinked from the chain and freed.
Unlink(v, k) == [n \in 1 .. Len(v) - 1 |-> IF n < k THEN v[n] ELSE v[n + 1]]

\* pte_list_desc_remove_entry.
RemoveEntry(v, k, i) ==
    IF LastUsed(v[k], i) # 1 THEN [v EXCEPT ![k] = Without(@, i)]
    ELSE IF Len(v) = 1 THEN NULL
    ELSE Unlink(v, k)

PteListRemove(s, v) ==
    IF v = s THEN NULL
    ELSE IF ~Found(s, v) THEN v
    ELSE LET k == Least({n \in DOMAIN v : FoundIn(s, v[n]) # {}})
         IN  RemoveEntry(v, k, Least(FoundIn(s, v[k])))

-----------------------------------------------------------------------------
(* The iterator *)

NoIter == [desc |-> 0, pos |-> 0]

GetFirstIter(v) == [desc |-> IF IsMany(v) THEN 1 ELSE 0, pos |-> IF IsMany(v) THEN 1 ELSE 0]
GetFirst(v) == IF IsMany(v) THEN v[1][1] ELSE v

MoreInDesc(v, it) == it.desc # 0 /\ it.pos < PTE_LIST_EXT /\ v[it.desc][it.pos + 1] # NULL
MoreDescs(v, it) == it.desc # 0 /\ it.desc < Len(v)

GetNextIter(v, it) ==
    IF MoreInDesc(v, it) THEN [it EXCEPT !.pos = @ + 1]
    ELSE IF MoreDescs(v, it) THEN [desc |-> it.desc + 1, pos |-> 1]
    ELSE NoIter

IterSpte(v, it) == IF it.desc = 0 THEN NULL ELSE v[it.desc][it.pos]

-----------------------------------------------------------------------------
Init ==
    /\ head = [h \in Heads |-> NULL]
    /\ target = [s \in Sptes |-> NoHead]
    /\ nobjs = 0 /\ left = 0
    /\ at = NoHead /\ doomed = {} /\ iter = NoIter /\ sptep = NULL
    /\ bug = "none"

\* mmu_lock is free, and no BUG has stopped the kernel.
Running == at = NoHead /\ bug = "none"

-----------------------------------------------------------------------------
(* Entries come and go *)

\* Mutant: the loop fills one slot more than the cache has.
TopupResultsOver == IF nobjs >= CacheMin THEN {nobjs} ELSE nobjs .. CacheSize + 1

\* mmu_topup_memory_cache: enough objects, or one allocation after the other until
\* the cache is full or one fails.
TopupResults == IF nobjs >= CacheMin THEN {nobjs} ELSE nobjs .. CacheSize
ToppedUp(n) == nobjs >= CacheMin \/ n = CacheSize

\* A fault starts with mmu_topup_memory_caches and gives up when that fails.
BeginFault(n) ==
    /\ Running
    /\ nobjs' = n
    /\ left' = IF ToppedUp(n) THEN FaultAdds ELSE 0
    /\ UNCHANGED <<head, target, loopVars, bug>>

Present(s) == target[s] # NoHead

\* drop_spte and drop_parent_pte: an spte that is not present is not on a chain.
DropBug(s) == Present(s) /\ ~Found(s, head[target[s]])
HeadsWithout(s) ==
    IF Present(s) THEN [head EXCEPT ![target[s]] = PteListRemove(s, @)] ELSE head

\* The iterator at the first entry of v; its BUG_ON wants a present spte.
StartLoop(h, v, drop) ==
    /\ at' = h
    /\ doomed' = drop
    /\ iter' = GetFirstIter(v)
    /\ sptep' = GetFirst(v)

\* Mutant: the count is not compared with the threshold.
RecyclesNever(v) == FALSE

Recycles(v) == AddCount(v) > RMAP_RECYCLE_THRESHOLD

\* s becomes present and is added to the chain v of h, with n objects in the cache.
Insert(s, h, heads, n) ==
    LET v == heads[h] IN
    /\ head' = [heads EXCEPT ![h] = PteListAdd(s, v)]
    /\ target' = [target EXCEPT ![s] = h]
    /\ nobjs' = IF NeedsDesc(v) /\ n > 0 THEN n - 1 ELSE n
    /\ bug' = IF DropBug(s) THEN "remove" ELSE IF NeedsDesc(v) /\ n = 0 THEN "cache"
              ELSE "none"

\* mmu_set_spte: a mapping of another page is dropped first.  The chain may be
\* recycled at once.
MmuSetSpte(s, f, heads, n) ==
    /\ Insert(s, f, heads, n)
    /\ IF Recycles(heads[f]) THEN StartLoop(f, head'[f], Entries(head'[f])) ELSE UNCHANGED loopVars

\* __direct_map and the prefetch after it.
MapFrame(s, f) ==
    /\ Running
    /\ left > 0
    /\ target[s] \in {NoHead, f}
    /\ MmuSetSpte(s, f, HeadsWithout(s), nobjs)
    /\ left' = left - 1

\* link_shadow_page, for an spte that is not present.
LinkShadowPage(s, p) ==
    /\ Running
    /\ left > 0
    /\ ~Present(s)
    /\ Insert(s, p, head, nobjs)
    /\ left' = left - 1
    /\ UNCHANGED loopVars

\* vmrun_mmu_pte_write for one spte: it is zapped and, if rmap_can_add, set anew,
\* whether or not the cache could be filled.
PteWrite(s, f, n) ==
    /\ Running
    /\ n > 0
    /\ MmuSetSpte(s, f, HeadsWithout(s), n)
    /\ left' = 0

\* Mutant: the spte is cleared and stays on its chain.
DropSpteKeepsRmap(s) ==
    /\ Running
    /\ Present(s)
    /\ target' = [target EXCEPT ![s] = NoHead]
    /\ UNCHANGED <<head, nobjs, left, loopVars, bug>>

\* mmu_page_zap_pte: drop_spte or drop_parent_pte.
DropSpte(s) ==
    /\ Running
    /\ Present(s)
    /\ head' = HeadsWithout(s)
    /\ target' = [target EXCEPT ![s] = NoHead]
    /\ bug' = IF DropBug(s) THEN "remove" ELSE "none"
    /\ UNCHANGED <<nobjs, left, loopVars>>

-----------------------------------------------------------------------------
(* Loops over a head *)

Begin(h, drop) ==
    /\ Running
    /\ StartLoop(h, head[h], drop)
    /\ UNCHANGED <<head, target, nobjs, left, bug>>

\* __rmap_write_protect, and the loops that clear or set the dirty bit or test or
\* clear the accessed bit.
RmapWriteProtect(f) == Begin(f, {})

\* vmrun_zap_rmapp.
ZapRmapp(f) == Begin(f, Entries(head[f]))

\* vmrun_mmu_unlink_parents.
UnlinkParents(p) == Begin(p, Entries(head[p]))

\* vmrun_mmu_mark_parents_unsync.
MarkParentsUnsync(p) == Begin(p, {})

\* vmrun_mmu_zap_collapsible_spte drops some; vmrun_set_pte_rmapp drops all or none.
ZapCollapsibleSpte(f, drop) == Begin(f, drop)

\* The BUG_ON of the iterator.
IteratorBug == sptep # NULL /\ ~Present(sptep)

LoopVisit ==
    /\ at # NoHead /\ bug = "none"
    /\ sptep # NULL /\ sptep \notin doomed
    /\ iter' = GetNextIter(head[at], iter)
    /\ sptep' = IterSpte(head[at], iter')
    /\ bug' = IF IteratorBug THEN "iterator" ELSE "none"
    /\ UNCHANGED <<head, target, nobjs, left, at, doomed>>

\* Mutant: after a drop the loop goes on with the iterator it has.
LoopDropGoesOn ==
    /\ at # NoHead /\ bug = "none"
    /\ sptep \in doomed
    /\ head' = HeadsWithout(sptep)
    /\ target' = [target EXCEPT ![sptep] = NoHead]
    /\ iter' = IF IsMany(head'[at]) /\ iter.desc \in DOMAIN head'[at]
               THEN GetNextIter(head'[at], iter) ELSE NoIter
    /\ sptep' = IF IsMany(head'[at]) THEN IterSpte(head'[at], iter') ELSE NULL
    /\ bug' = "none"
    /\ UNCHANGED <<nobjs, left, at, doomed>>

\* The entry is dropped and the loop starts over.
LoopDrop ==
    /\ at # NoHead /\ bug = "none"
    /\ sptep \in doomed
    /\ head' = HeadsWithout(sptep)
    /\ target' = [target EXCEPT ![sptep] = NoHead]
    /\ iter' = GetFirstIter(head'[at])
    /\ sptep' = GetFirst(head'[at])
    /\ bug' = IF IteratorBug THEN "iterator" ELSE IF DropBug(sptep) THEN "remove" ELSE "none"
    /\ UNCHANGED <<nobjs, left, at, doomed>>

LoopEnd ==
    /\ at # NoHead /\ bug = "none"
    /\ sptep = NULL
    /\ at' = NoHead /\ doomed' = {} /\ iter' = NoIter
    /\ UNCHANGED <<head, target, nobjs, left, sptep, bug>>

Next ==
    \/ \E n \in TopupResults : BeginFault(n) \/ (\E s \in Sptes, f \in Frames : PteWrite(s, f, n))
    \/ \E s \in Sptes, f \in Frames : MapFrame(s, f)
    \/ \E s \in Sptes, p \in Pages : LinkShadowPage(s, p)
    \/ \E s \in Sptes : DropSpte(s)
    \/ \E f \in Frames : RmapWriteProtect(f) \/ ZapRmapp(f)
    \/ \E f \in Frames : \E drop \in SUBSET Entries(head[f]) : ZapCollapsibleSpte(f, drop)
    \/ \E p \in Pages : UnlinkParents(p) \/ MarkParentsUnsync(p)
    \/ LoopVisit \/ LoopDrop \/ LoopEnd

Spec == Init /\ [][Next]_vars

-----------------------------------------------------------------------------
(* Properties *)

TypeOK ==
    /\ \A h \in Heads : head[h] \in {NULL} \cup Sptes \/ head[h] \in Seq(Descs)
    /\ target \in [Sptes -> Heads \cup {NoHead}]
    /\ nobjs \in 0 .. CacheSize
    /\ left \in 0 .. FaultAdds
    /\ at \in Heads \cup {NoHead}
    /\ doomed \in SUBSET Sptes
    /\ iter \in [desc : Nat, pos : 0 .. PTE_LIST_EXT]
    /\ sptep \in Sptes \cup {NULL}
    /\ bug \in {"none", "remove", "cache", "iterator"}

\* No BUG of pte_list_remove, of the iterator or of mmu_memory_cache_alloc is ever
\* reached, whatever sequence of faults, writes, drops and loops: the cache is never
\* empty when a descriptor is needed, an entry to remove is always found, and an
\* iterator never meets an spte that is not present.
NoBug == bug = "none" /\ ~(at # NoHead /\ IteratorBug)

\* A present spte is on the chain of what it points to, once, and on no other; an spte
\* that is not present is on none.
RmapsExact ==
    \A h \in Heads :
        /\ Entries(head[h]) = {s \in Sptes : target[s] = h}
        /\ Pointers(head[h]) = Cardinality(Entries(head[h]))

\* Every descriptor of a chain has its pointers at the front and has at least one:
\* what the searches of pte_list_remove and rmap_get_next ("desc->sptes[0] cannot be
\* NULL", mmu.c:1210) rely on.
ChainsPacked ==
    \A h \in Heads : IsMany(head[h]) =>
        /\ head[h] # << >>
        /\ \A k \in DOMAIN head[h] :
              /\ head[h][k][1] # NULL
              /\ \A i \in Slots \ {1} : head[h][k][i] # NULL => head[h][k][i - 1] # NULL

\* Recycling bounds the chain of a frame although pte_list_add's count leaves a full
\* last descriptor out: there are at most two descriptors more than the threshold fills.
ChainBounded ==
    \A f \in Frames : IsMany(head[f]) =>
        Len(head[f]) <= (RMAP_RECYCLE_THRESHOLD \div PTE_LIST_EXT) + 2

\* "Returns the number of pointers in the rmap chain, not counting the new one"
\* (mmu.c:1004).
AddReturnsLength == \A h \in Heads : AddCount(head[h]) = Pointers(head[h])

\* The entries before the iterator.
Passed ==
    IF at = NoHead THEN {}
    ELSE IF sptep = NULL THEN Entries(head[at])
    ELSE IF iter.desc = 0 THEN {}
    ELSE ({head[at][k][i] : k \in 1 .. iter.desc - 1, i \in Slots}
          \cup {head[at][iter.desc][i] : i \in 1 .. iter.pos - 1}) \ {NULL}

RmapAsSet == INSTANCE RmapSet WITH
    members <- [h \in Heads |-> Entries(head[h])], seen <- Passed

\* Chains and iterator implement RmapSet: additions and removals change the set by
\* just that spte, and a loop visits every member, none twice between two drops, and
\* ends only when all it is to drop are gone.
ImplementsSet == RmapAsSet!SetSpec
=============================================================================
