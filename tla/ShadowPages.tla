---------------------------- MODULE ShadowPages -----------------------------
(***************************************************************************)
(* The shadow pages of one virtual machine (kernel/mmu.c): finding or      *)
(* allocating a page for a guest page table, linking it below its parent,  *)
(* letting the guest write a leaf table (the page is then "unsync") and    *)
(* bringing it back in step, and the many ways a page is zapped: the page  *)
(* limit, the shrinker, a write to a shadowed table, an unprotect, the     *)
(* last vCPU leaving an invalid root, and the generation bump that makes   *)
(* every page obsolete and zaps them in batches, giving mmu_lock up in     *)
(* between.                                                                *)
(*                                                                         *)
(* `mmu' holds what mmu_lock protects.  Steps of one critical section that *)
(* leave the lock held keep it in `lock', so that nothing interleaves with *)
(* them; the lock is given up in the middle of an operation only where the *)
(* code calls cond_resched_lock.                                           *)
(*                                                                         *)
(* Every page is indirect (role.direct = 0): a page shadows the guest      *)
(* table at its gfn.  The reverse chains of the entries are module Rmaps;  *)
(* here parent_ptes is read off the entries themselves.                    *)
(***************************************************************************)
EXTENDS Integers, Sequences, FiniteSets

CONSTANTS
    Vcpus,
    Zappers,       \* threads in vmrun_mmu_invalidate_zap_all_pages
    Sp,            \* the page structures the caches can hand out
    Tables,        \* the guest's page tables: records [gfn, level]
    Slots,         \* entries of one page (512 in the code), numbered
    InUse,         \* InUse[l]: the entries the guest uses of a table of level l
    RootLevel,     \* shadow_root_level
    MinFree,       \* KVM_MIN_FREE_MMU_PAGES
    Refill,        \* KVM_REFILL_PAGES
    Limits,        \* values of n_max_mmu_pages
    Batch,         \* BATCH_ZAP_PAGES
    MaxGen,        \* bound on mmu_valid_gen
    None           \* no page, no thread

ASSUME ShadowAssumption ==
    /\ RootLevel \in Nat \ {0, 1} /\ Slots \subseteq Nat
    /\ InUse \in [1..RootLevel -> SUBSET Slots]
    /\ \A t \in Tables : t.level \in 1..RootLevel /\ t = [gfn |-> t.gfn, level |-> t.level]
    /\ MinFree \in Nat \ {0} /\ Refill >= MinFree
    /\ Limits \subseteq Nat \ {0} /\ Batch \in Nat \ {0} /\ MaxGen \in Nat
    /\ IsFiniteSet(Sp) /\ IsFiniteSet(Vcpus)
    /\ None \notin Sp \cup Vcpus \cup Zappers

VARIABLES
    mmu,       \* the state mmu_lock protects
    n_max,     \* n_max_mmu_pages
    root,      \* root[v]: the page of arch.mmu.root_hpa, None when INVALID_PAGE
    pc,        \* what each thread is in the middle of
    lock,      \* the holder of mmu_lock between two steps
    walk,      \* the page for_each_shadow_entry stands on
    batch      \* vmrun_zap_obsolete_pages' count of the holder

vars == <<mmu, n_max, root, pc, lock, walk, batch>>

Gfns == {t.gfn : t \in Tables}

GfnsAt(l) == {t.gfn : t \in {u \in Tables : u.level = l}}

Threads == Vcpus \cup Zappers

NoKey == [gfn |-> None, level |-> 0]

EmptyMmu ==
    [active   |-> {},                    \* active_mmu_pages
     older    |-> {},                    \* <<p, q>>: p is nearer its tail than q
     zapped   |-> {},                    \* zapped_obsolete_pages
     key      |-> [p \in Sp |-> NoKey],  \* gfn and role.level
     gen      |-> [p \in Sp |-> 0],      \* sp->mmu_valid_gen
     invalid  |-> {},                    \* role.invalid
     unsync   |-> {},                    \* sp->unsync
     roots    |-> [p \in Sp |-> 0],      \* root_count
     spt      |-> [p \in Sp |-> [i \in Slots |-> None]],
     bits     |-> [p \in Sp |-> {}],     \* unsync_child_bitmap
     used     |-> 0,                     \* n_used_mmu_pages
     valid    |-> 0,                     \* mmu_valid_gen
     writable |-> {},                    \* frames some entry maps writable
     reload   |-> {}]                    \* vCPUs with KVM_REQ_MMU_RELOAD

Init ==
    /\ mmu = EmptyMmu
    /\ n_max \in Limits
    /\ root = [v \in Vcpus |-> None]
    /\ pc = [t \in Threads |-> "idle"]
    /\ lock = None
    /\ walk = None
    /\ batch = 0

-----------------------------------------------------------------------------
(* Reading the pages.                                                      *)

Allocated(m) == m.active \cup m.zapped

\* Of the pages in S the one nearest the tail of the active list, as a set.
OldestOf(m, S) == {p \in S : \A q \in S : <<q, p>> \notin m.older}

Level(m, p) == m.key[p].level

IsObsolete(m, p) == m.gen[p] # m.valid

\* for_each_valid_sp
ValidSp(m) == {p \in Allocated(m) : ~IsObsolete(m, p) /\ p \notin m.invalid}

ValidSpOf(m, g) == {p \in ValidSp(m) : m.key[p].gfn = g}

\* The entries that point to a page in S: their parent_ptes.
ParentPtes(m, S) == {e \in Allocated(m) \X Slots : m.spt[e[1]][e[2]] \in S}

\* vmrun_page_track_is_active: account_shadowed counts a page of a level above
\* the leaves, and unaccount_shadowed takes it back when it is first zapped.
PageTrackIsActive(m, g) ==
    \E p \in Allocated(m) \ m.invalid : m.key[p].gfn = g /\ Level(m, p) > 1

AvailablePages(m) == IF n_max > m.used THEN n_max - m.used ELSE 0

-----------------------------------------------------------------------------
(* The unsync bits: a page that is out of step with the guest's table is   *)
(* found again from the root through the bits of its ancestors.            *)

\* The pages whose parent entries a walk of vmrun_mmu_mark_parents_unsync from S
\* marks: it goes on above a page that had no marked entry.
MarkedFrom(m, S) ==
    LET closed == {T \in SUBSET Sp :
                      /\ S \subseteq T
                      /\ \A e \in ParentPtes(m, T) : m.bits[e[1]] = {} => e[1] \in T}
    IN {p \in Sp : \A T \in closed : p \in T}

MarkParentsUnsync(m, S) ==
    LET ptes == ParentPtes(m, MarkedFrom(m, S))
    IN [m EXCEPT !.bits = [p \in Sp |-> @[p] \cup {i \in Slots : <<p, i>> \in ptes}]]

MarkUnsync(m, p, i) ==
    LET marked == [m EXCEPT !.bits[p] = @ \cup {i}]
    IN IF m.bits[p] = {} THEN MarkParentsUnsync(marked, {p}) ELSE marked

\* vmrun_unsync_page of every page in S
UnsyncPages(m, S) == MarkParentsUnsync([m EXCEPT !.unsync = @ \cup S], S)

\* The entries __mmu_unsync_walk follows, and the pages they lead to from S.
MarkedPtes(m) ==
    {e \in UNION {{p} \X m.bits[p] : p \in Sp} : m.spt[e[1]][e[2]] # None}

Below(m, S) ==
    LET down == MarkedPtes(m)
        closed == {T \in SUBSET Sp :
                      /\ S \subseteq T
                      /\ \A e \in down : e[1] \in T => m.spt[e[1]][e[2]] \in T}
    IN {p \in Sp : \A T \in closed : p \in T}

\* Where the walk ends: an unsync page without marked entries.
UnsyncLeaves(m) == {p \in m.unsync : m.bits[p] = {}}

\* The walk clears on its way every marked entry that leads to no unsync page.
Walked(m, p) ==
    LET below == Below(m, {p})
    IN [m EXCEPT !.bits = [q \in Sp |->
           IF q \notin below THEN @[q]
           ELSE {i \in @[q] : /\ m.spt[q][i] # None
                              /\ Below(m, {m.spt[q][i]}) \cap UnsyncLeaves(m) # {}}]]

\* The ways from p down marked entries to an unsync page.
LeafOf(m, path) == LET e == path[Len(path)] IN m.spt[e[1]][e[2]]

UnsyncPaths(m, p) ==
    {s \in UNION {[1..k -> MarkedPtes(m)] : k \in 1..(RootLevel - 1)} :
        /\ s[1][1] = p
        /\ \A k \in 2..Len(s) : s[k][1] = m.spt[s[k - 1][1]][s[k - 1][2]]
        /\ LeafOf(m, s) \in UnsyncLeaves(m)}

\* The first path of the walk, entry by entry, to each leaf: mmu_pages_add
\* takes an unsync page once.
Before(s, t) ==
    \E k \in DOMAIN s : /\ s[k][2] < t[k][2]
                        /\ \A j \in 1..(k - 1) : s[j][2] = t[j][2]

FirstPaths(m, p) ==
    LET ways == UnsyncPaths(m, p)
    IN {s \in ways : \A t \in ways :
            LeafOf(m, t) = LeafOf(m, s) /\ t # s => Before(s, t)}

\* mmu_pages_clear_parents of all the paths: an entry is cleared once every
\* marked entry below it was.
Cleared(m, paths) ==
    LET on == UNION {{s[k] : k \in DOMAIN s} : s \in paths}
    IN {e \in on : \A q \in Below(m, {m.spt[e[1]][e[2]]}) :
                      \A i \in m.bits[q] : <<q, i>> \in on}

-----------------------------------------------------------------------------
(* Zapping.                                                                *)

\* vmrun_mmu_free_page
FreePages(m, S) ==
    [m EXCEPT !.zapped = @ \ S, !.invalid = @ \ S,
              !.key = [p \in Sp |-> IF p \in S THEN NoKey ELSE @[p]],
              !.gen = [p \in Sp |-> IF p \in S THEN 0 ELSE @[p]],
              !.bits = [p \in Sp |-> IF p \in S THEN {} ELSE @[p]]]

\* Mutant: the parents keep their entries.
UnlinkChildren(spt, Z) ==
    [q \in Sp |-> [i \in Slots |-> IF q \in Z THEN None ELSE spt[q][i]]]

\* vmrun_mmu_page_unlink_children and vmrun_mmu_unlink_parents of the pages in Z
Unlink(spt, Z) ==
    [q \in Sp |-> [i \in Slots |-> IF q \in Z \/ spt[q][i] \in Z THEN None ELSE spt[q][i]]]

\* vmrun_reload_remote_mmus, external: src/ calls it and does not define it, and the
\* request primitives it would use are commented out.  Assumed to ask every vCPU.
ReloadRemoteMmus == Vcpus

\* Mutant: the vCPUs are not asked.
ReloadNobody(m, kept) == {}

\* vmrun_reload_remote_mmus is called when a page that was valid stays a root.
ReloadAfterZap(m, kept) ==
    IF \E p \in kept : p \notin m.invalid /\ ~IsObsolete(m, p) THEN ReloadRemoteMmus ELSE {}

\* The active list without the pages in gone, and with the ones in kept moved to
\* its head: list_move, of the oldest first.
Moved(m, gone, kept) ==
    {e \in (m.active \ gone) \X (m.active \ gone) :
        IF e[1] \in kept <=> e[2] \in kept THEN e \in m.older ELSE e[2] \in kept}

\* Mutant: a root in use is taken off the count too.
ZapSelfUncountsRoot(m, Z) ==
    LET kept == {p \in Z : m.roots[p] # 0}
        gone == Z \ kept
    IN [m EXCEPT
          !.spt = Unlink(@, Z),
          !.unsync = @ \ Z,
          !.invalid = @ \cup Z,
          !.active = @ \ gone,
          !.older = Moved(m, gone, kept),
          !.zapped = @ \cup gone,
          !.used = @ - Cardinality(Z),
          !.reload = @ \cup ReloadAfterZap(m, kept)]

\* The part of vmrun_mmu_prepare_zap_page after the unsync children, for the
\* pages in Z.  A page goes to the list of the caller; a root in use goes to the
\* head of the active list and stays counted.
ZapSelf(m, Z) ==
    LET kept == {p \in Z : m.roots[p] # 0}
        gone == Z \ kept
    IN [m EXCEPT
          !.spt = Unlink(@, Z),
          !.unsync = @ \ Z,
          !.invalid = @ \cup Z,
          !.active = @ \ gone,
          !.older = Moved(m, gone, kept),
          !.zapped = @ \cup gone,
          !.used = @ - Cardinality(gone),
          !.reload = @ \cup ReloadAfterZap(m, kept)]

\* vmrun_mmu_prepare_zap_page of the pages in S onto zapped_obsolete_pages.
\* mmu_zap_unsync_children walks and zaps what it finds until a walk finds
\* nothing, and so clears every marked entry on the way.
Unmark(m, S) == [m EXCEPT !.bits = [p \in Sp |-> IF p \in S THEN {} ELSE @[p]]]

PrepareZap(m, S) ==
    LET below == Below(m, S)
    IN ZapSelf(Unmark(m, below), S \cup (below \cap UnsyncLeaves(m)))

\* The same onto a list of the caller's, which it commits before it gives the
\* lock up: vmrun_mmu_commit_zap_page frees what was zapped.
ZapPages(m, S) ==
    LET n == PrepareZap(m, S) IN FreePages(n, n.zapped \ m.zapped)

\* prepare_zap_oldest_mmu_page while more than goal pages are in use.  It takes
\* the pages from the tail up to the first that meets the goal or frees nothing;
\* one that an older page took with it is not met.  When only roots in use are
\* left, the oldest is zapped again and frees nothing.
UpTo(m, p) == {q \in m.active : <<q, p>> \in m.older}

LastZapped(m, goal) ==
    {p \in m.active :
        LET n == ZapPages(m, UpTo(m, p))
            o == ZapPages(m, UpTo(m, p) \cup {p})
        IN p \in n.active /\ (o.used <= goal \/ o.used = n.used)}

ZapOldestAbove(m, goal) ==
    LET last == LastZapped(m, goal)
        n == ZapPages(m, {p \in m.active : \A q \in last : <<q, p>> \notin m.older})
    IN IF m.used <= goal THEN m
       ELSE IF last = {} THEN ZapPages(n, OldestOf(n, n.active))
       ELSE n

MakePagesAvailable(m) ==
    IF AvailablePages(m) >= MinFree THEN m ELSE ZapOldestAbove(m, n_max - Refill)

\* Mutant: the result of make_mmu_pages_available is not looked at.
EnoughAlways(m) == TRUE

\* make_mmu_pages_available returned 0
Enough(m) == AvailablePages(m) > 0

-----------------------------------------------------------------------------
(* Finding, allocating and linking a page.                                 *)

\* Mutant: the sptes of the new table keep their writable bit.
WriteProtectNot(m, g) == m

\* account_shadowed and rmap_write_protect: the guest may no longer write the
\* table.
WriteProtect(m, g) == [m EXCEPT !.writable = @ \ {g}]

\* The page structures the cache may hand out.
NextPage(m) == Sp \ Allocated(m)

\* vmrun_mmu_alloc_page and the new page's fields in vmrun_mmu_get_page
AllocPage(m, p, g, l) ==
    WriteProtect([m EXCEPT !.active = @ \cup {p},
                           !.older = @ \cup (m.active \X {p}),
                           !.used = @ + 1,
                           !.key[p] = [gfn |-> g, level |-> l],
                           !.gen[p] = m.valid], g)

\* vmrun_sync_page of the pages in S; sync_page fails for the ones in bad.
SyncPages(m, S, bad) ==
    ZapPages([m EXCEPT !.unsync = @ \ S], bad)

\* Mutant: only the head of the hash chain, the newest page, is looked at.
MatchingNewest(m, g, l) ==
    {p \in ValidSpOf(m, g) : Level(m, p) = l /\ m.active \X {p} \subseteq m.older \cup {<<p, p>>}}

\* The lookup of vmrun_mmu_get_page.
Matching(m, g, l) == {p \in ValidSpOf(m, g) : Level(m, p) = l}

\* What vmrun_mmu_get_page may return: the state and the page.
GetPage(m, g, l) ==
    LET match == Matching(m, g, l)
        others == IF l > 1 THEN ValidSpOf(m, g) \cap m.unsync ELSE {}
        found == {[m |-> m, sp |-> p] : p \in match}
        rebuilt == UNION {LET n == ZapPages(m, {p})
                          IN {[m |-> AllocPage(n, q, g, l), sp |-> q] : q \in NextPage(n)} :
                             p \in match \cap m.unsync}
        fresh == UNION {{[m |-> SyncPages(AllocPage(m, q, g, l), others, bad), sp |-> q] :
                            bad \in SUBSET others} : q \in NextPage(m)}
    IN IF match # {} THEN found \cup rebuilt ELSE fresh

\* Mutant: the parents of a page that is out of step are not told.
LinkUnmarked(m, p, i, child) == [m EXCEPT !.spt[p][i] = child]

\* link_shadow_page
LinkShadowPage(m, p, i, child) ==
    LET linked == [m EXCEPT !.spt[p][i] = child]
    IN IF child \in m.unsync \/ m.bits[child] # {} THEN MarkUnsync(linked, p, i) ELSE linked

-----------------------------------------------------------------------------
(* The operations.                                                         *)

Idle(t) == pc[t] = "idle" /\ lock = None

\* An operation that takes and gives back mmu_lock in one step.
UnderLock == lock = None /\ UNCHANGED <<pc, lock, walk, batch>>

\* Bound: no page structure is left in the instance.
PoolEmpty == Allocated(mmu) = Sp

\* vmrun_mmu_load up to mmu_alloc_shadow_roots; vmrun_mmu_sync_roots follows.
MmuLoad(v, g) ==
    LET m == MakePagesAvailable(mmu)
    IN /\ Idle(v) /\ root[v] = None
       /\ IF Enough(m)
          THEN \E r \in GetPage(m, g, RootLevel) :
                  /\ mmu' = [r.m EXCEPT !.roots[r.sp] = @ + 1]
                  /\ root' = [root EXCEPT ![v] = r.sp]
                  /\ pc' = [pc EXCEPT ![v] = "sync"]
          ELSE mmu' = m /\ UNCHANGED <<root, pc>>
       /\ UNCHANGED <<n_max, lock, walk, batch>>

\* mmu_free_roots, which a vCPU with a reload request does before it enters
MmuUnload(v) ==
    LET p == root[v]
        m == [mmu EXCEPT !.roots[p] = @ - 1, !.reload = @ \ {v}]
    IN /\ Idle(v) /\ p # None
       /\ mmu' = IF m.roots[p] = 0 /\ p \in m.invalid THEN ZapPages(m, {p}) ELSE m
       /\ root' = [root EXCEPT ![v] = None]
       /\ UNCHANGED <<n_max, pc, lock, walk, batch>>

\* The page fault handler: room for the pages first, then the walk of
\* for_each_shadow_entry from the root.
FaultBegin(v) ==
    LET m == MakePagesAvailable(mmu)
    IN /\ Idle(v) /\ root[v] # None
       /\ mmu' = m
       /\ IF Enough(m)
          THEN /\ pc' = [pc EXCEPT ![v] = "fault"]
               /\ lock' = v /\ walk' = root[v]
          ELSE UNCHANGED <<pc, lock, walk>>
       /\ UNCHANGED <<n_max, root, batch>>

FaultWalk(v, i) ==
    /\ lock = v /\ pc[v] = "fault" /\ Level(mmu, walk) > 1
    /\ mmu.spt[walk][i] # None
    /\ walk' = mmu.spt[walk][i]
    /\ UNCHANGED <<mmu, n_max, root, pc, lock, batch>>

FaultLink(v, i, g) ==
    /\ lock = v /\ pc[v] = "fault" /\ Level(mmu, walk) > 1
    /\ mmu.spt[walk][i] = None
    /\ i \in InUse[Level(mmu, walk)] /\ g \in GfnsAt(Level(mmu, walk) - 1)
    /\ \E r \in GetPage(mmu, g, Level(mmu, walk) - 1) :
          mmu' = LinkShadowPage(r.m, walk, i, r.sp) /\ walk' = r.sp
    /\ UNCHANGED <<n_max, root, pc, lock, batch>>

FaultUnlock(v) ==
    /\ lock = v /\ pc[v] = "fault"
    /\ pc' = [pc EXCEPT ![v] = "idle"]
    /\ lock' = None /\ walk' = None
    /\ UNCHANGED <<n_max, root, batch>>

\* The instance has no page for the next level: the walk is followed no further.
FaultOutOfPool(v) ==
    FaultUnlock(v) /\ PoolEmpty /\ Level(mmu, walk) > 1 /\ UNCHANGED mmu

FaultDone(v) == FaultUnlock(v) /\ Level(mmu, walk) = 1

FaultRead(v) == FaultDone(v) /\ UNCHANGED mmu

\* mmu_set_spte of a write: mmu_need_write_protect refuses a tracked frame, and
\* lets the pages that shadow an untracked one go unsync.
FaultWrite(v, g) ==
    /\ FaultDone(v)
    /\ mmu' = IF PageTrackIsActive(mmu, g) THEN mmu
              ELSE LET m == [mmu EXCEPT !.writable = @ \cup {g}]
                   IN UnsyncPages(m, ValidSpOf(m, g) \ m.unsync)

\* The lock is free for t, or t has it from its last step.
Locks(t) == lock \in {None, t}

\* vmrun_mmu_sync_roots: mmu_sync_children of the root, one walk per step, with
\* the lock given up after a walk that found something.
Syncs(v) ==
    /\ Locks(v)
    /\ root[v] # None
    /\ pc[v] = "sync" \/ (pc[v] = "idle" /\ mmu.bits[root[v]] # {})
    /\ UNCHANGED <<n_max, root, walk, batch>>

SyncChildren(v, yield) ==
    LET m == Walked(mmu, root[v])
        paths == FirstPaths(m, root[v])
        leaves == {LeafOf(m, path) : path \in paths}
    IN /\ Syncs(v) /\ paths # {}
       /\ \E bad \in SUBSET leaves :
             LET n == SyncPages([m EXCEPT !.writable = @ \ {m.key[p].gfn : p \in leaves}],
                                leaves, bad)
             IN mmu' = [n EXCEPT !.bits = [p \in Sp |->
                           {i \in @[p] : <<p, i>> \notin Cleared(m, paths)}]]
       /\ pc' = [pc EXCEPT ![v] = "sync"]
       /\ lock' = IF yield THEN None ELSE v

SyncEnd(v) ==
    LET m == Walked(mmu, root[v])
    IN /\ Syncs(v) /\ FirstPaths(m, root[v]) = {}
       /\ mmu' = m
       /\ pc' = [pc EXCEPT ![v] = "idle"]
       /\ lock' = None

\* vmrun_mmu_unprotect_page
UnprotectPage(g) ==
    /\ UnderLock
    /\ ValidSpOf(mmu, g) # {}
    /\ mmu' = ZapPages(mmu, ValidSpOf(mmu, g))
    /\ UNCHANGED <<n_max, root>>

\* vmrun_mmu_pte_write: the guest wrote entry i of the table at g.  A misaligned
\* write zaps every page of g, flooding one above the leaves; the others lose
\* the entry.
PteWrite(g, i) ==
    LET of == ValidSpOf(mmu, g)
    IN /\ UnderLock
       /\ of # {}
       /\ \E zapped \in {of} \cup SUBSET {p \in of : Level(mmu, p) > 1} :
             LET m == ZapPages(mmu, zapped)
                 left == ValidSpOf(m, g)
             IN mmu' = [m EXCEPT !.spt = [p \in Sp |->
                           IF p \in left THEN [@[p] EXCEPT ![i] = None] ELSE @[p]]]
       /\ UNCHANGED <<n_max, root>>

\* vmrun_mmu_change_mmu_pages
ChangeMmuPages(goal) ==
    LET m == ZapOldestAbove(mmu, goal)
    IN /\ UnderLock
       /\ mmu' = m
       /\ n_max' = IF mmu.used > goal THEN m.used ELSE goal
       /\ UNCHANGED root

\* mmu_shrink_scan
Shrink ==
    /\ UnderLock
    /\ mmu.used > 0 \/ mmu.zapped # {}
    /\ mmu' = IF mmu.zapped # {} THEN FreePages(mmu, mmu.zapped)
              ELSE ZapPages(mmu, OldestOf(mmu, mmu.active))
    /\ UNCHANGED <<n_max, root>>

\* vmrun_mmu_invalidate_zap_all_pages
InvalidateZapAll(z) ==
    /\ Idle(z) /\ mmu.valid < MaxGen
    /\ mmu' = [mmu EXCEPT !.valid = @ + 1, !.reload = ReloadRemoteMmus]
    /\ pc' = [pc EXCEPT ![z] = "zap"]
    /\ lock' = z
    /\ UNCHANGED <<n_max, root, walk, batch>>

\* Mutant: the loop stops at an invalid page instead of passing over it.
ObsoleteUntilInvalid(m) ==
    {p \in m.active :
        \A q \in m.active : q = p \/ <<q, p>> \in m.older =>
            IsObsolete(m, q) /\ q \notin m.invalid}

\* The pages vmrun_zap_obsolete_pages still has to zap: from the oldest, up to
\* the first that is not obsolete, without the invalid ones.
ObsoleteAtTail(m) ==
    {p \in m.active :
        /\ p \notin m.invalid
        /\ \A q \in m.active : q = p \/ <<q, p>> \in m.older => IsObsolete(m, q)}

ZapObsolete(z) ==
    LET m == PrepareZap(mmu, OldestOf(mmu, ObsoleteAtTail(mmu)))
    IN /\ Locks(z) /\ pc[z] = "zap" /\ ObsoleteAtTail(mmu) # {}
       /\ mmu' = m
       /\ lock' = z
       /\ batch' = LET b == batch + mmu.used - m.used IN IF b < Batch THEN b ELSE Batch
       /\ UNCHANGED <<n_max, root, pc, walk>>

\* cond_resched_lock, once Batch pages were zapped
ZapYield(z) ==
    /\ lock = z /\ pc[z] = "zap" /\ ObsoleteAtTail(mmu) # {}
    /\ batch >= Batch
    /\ lock' = None /\ batch' = 0
    /\ UNCHANGED <<mmu, n_max, root, pc, walk>>

ZapEnd(z) ==
    /\ Locks(z) /\ pc[z] = "zap" /\ ObsoleteAtTail(mmu) = {}
    /\ mmu' = FreePages(mmu, mmu.zapped)
    /\ pc' = [pc EXCEPT ![z] = "idle"]
    /\ lock' = None /\ batch' = 0
    /\ UNCHANGED <<n_max, root, walk>>

Next ==
    \/ \E v \in Vcpus :
          \/ \E g \in GfnsAt(RootLevel) : MmuLoad(v, g)
          \/ MmuUnload(v)
          \/ FaultBegin(v)
          \/ \E i \in Slots : FaultWalk(v, i)
          \/ \E i \in Slots, g \in Gfns : FaultLink(v, i, g)
          \/ FaultOutOfPool(v)
          \/ FaultRead(v)
          \/ \E g \in Gfns : FaultWrite(v, g)
          \/ \E yield \in BOOLEAN : SyncChildren(v, yield)
          \/ SyncEnd(v)
    \/ \E g \in Gfns : UnprotectPage(g)
    \/ \E g \in Gfns, i \in Slots : PteWrite(g, i)
    \/ \E goal \in Limits : ChangeMmuPages(goal)
    \/ Shrink
    \/ \E z \in Zappers :
          \/ InvalidateZapAll(z)
          \/ ZapObsolete(z)
          \/ ZapYield(z)
          \/ ZapEnd(z)

Spec == Init /\ [][Next]_vars

-----------------------------------------------------------------------------
(* Properties.                                                             *)

\* The values of the fields of struct vmrun and struct vmrun_mmu_page: the
\* counts are never negative, and only pages on a list are invalid or unsync.
TypeOK ==
    /\ mmu.active \subseteq Sp /\ mmu.zapped \subseteq Sp
    /\ mmu.key \in [Sp -> Tables \cup {NoKey}]
    /\ mmu.gen \in [Sp -> 0..MaxGen] /\ mmu.valid \in 0..MaxGen
    /\ mmu.invalid \subseteq Allocated(mmu) /\ mmu.unsync \subseteq Allocated(mmu)
    /\ mmu.roots \in [Sp -> 0..Cardinality(Vcpus)]
    /\ mmu.spt \in [Sp -> [Slots -> Sp \cup {None}]]
    /\ mmu.bits \in [Sp -> SUBSET Slots]
    /\ mmu.used \in Nat
    /\ mmu.writable \subseteq Gfns /\ mmu.reload \subseteq Vcpus
    /\ n_max \in Nat
    /\ root \in [Vcpus -> Sp \cup {None}]
    /\ pc \in [Threads -> {"idle", "fault", "sync", "zap"}]
    /\ lock \in Threads \cup {None} /\ walk \in Sp \cup {None} /\ batch \in 0..Batch

\* Nothing points to a page that was zapped: every entry of every page names a
\* page of the active list, one level down and still usable, and a root a vCPU
\* runs on is on the active list however it was zapped in the meantime.
NoDangling ==
    /\ \A p \in Allocated(mmu), i \in Slots :
          mmu.spt[p][i] # None =>
              /\ mmu.spt[p][i] \in mmu.active \ mmu.invalid
              /\ Level(mmu, mmu.spt[p][i]) = Level(mmu, p) - 1
    /\ \A v \in Vcpus : root[v] # None => root[v] \in mmu.active
    /\ walk # None => walk \in mmu.active

\* n_used_mmu_pages counts the pages of the active list, each once, whatever
\* zapped them and however often; root_count counts the vCPUs on the page; and
\* the list of zapped obsolete pages holds only pages nobody counts any more.
CountsExact ==
    /\ mmu.used = Cardinality(mmu.active)
    /\ \A p \in Sp : mmu.roots[p] = Cardinality({v \in Vcpus : root[v] = p})
    /\ mmu.zapped \subseteq mmu.invalid \ mmu.active

\* vmrun_mmu_get_page finds a page if there is one: no guest table has two
\* usable shadow pages of one role, so that one lookup reaches every entry.
ValidUnique ==
    \A p, q \in ValidSp(mmu) : mmu.key[p] = mmu.key[q] => p = q

\* mmu_sync_children reaches every page that is out of step: above an unsync
\* page, and above a page with a marked entry, every entry is marked.
UnsyncMarked ==
    \A p \in Allocated(mmu), i \in Slots :
        /\ mmu.spt[p][i] # None
        /\ mmu.spt[p][i] \in mmu.unsync \/ mmu.bits[mmu.spt[p][i]] # {}
        => i \in mmu.bits[p]

\* A guest table may be writable only while each page in use that shadows it is
\* a leaf and known to be out of step.
WritableUnsync ==
    \A p \in ValidSp(mmu) :
        mmu.key[p].gfn \in mmu.writable => Level(mmu, p) = 1 /\ p \in mmu.unsync

\* A vCPU on a root that was invalidated, one way or the other, has been asked
\* to reload: vmrun_mmu_prepare_zap_page asks once and the generation bump asks
\* for all pages.  The calls are the code's; that vmrun_reload_remote_mmus asks
\* every vCPU is assumed (ReloadRemoteMmus).
ReloadRequested ==
    \A v \in Vcpus :
        root[v] # None /\ root[v] \notin ValidSp(mmu) => v \in mmu.reload

\* make_mmu_pages_available is asked once per fault and a fault takes a page for
\* each level below the root: the limit is passed by no more than that.
LimitKept == mmu.used <= n_max + RootLevel - 2

\* When the zapping of obsolete pages ends no usable page of an old generation
\* is left, though the walk stops at the first page that is not obsolete and
\* pages came and went while the lock was given up.
ZapComplete ==
    [][\A z \in Zappers : pc[z] = "zap" /\ pc'[z] = "idle" =>
          \A p \in mmu'.active : IsObsolete(mmu', p) => p \in mmu'.invalid]_vars

=============================================================================
