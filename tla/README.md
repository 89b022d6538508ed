# A TLA+ model of vmrun

vmrun is a Linux kernel module for AMD-V (SVM): a reduced KVM. It switches SVM on
on every CPU, creates VMs and vCPUs behind file descriptors, runs a vCPU with the
`VMRUN` instruction, keeps guest memory in slots, and shadows guest page tables.
This directory models its parts in TLA+, checks them with TLC on small instances,
and proves the main safety properties with TLAPS for instances of any size.

## The system

| Part | State | Operations | Where it gets hard |
|---|---|---|---|
| Driver load, SVM enable, hotplug (`vmrun.c` 137-468, 3360-3494) | `vmrun_usage_count`, `cpus_enabled`, `cpu_enable_failed`, EFER.SVME, per-CPU data | load, unload, first VM, last VM, CPU up, CPU down | one CPU of several fails; hotplug between two steps of an `on_each_cpu` |
| vCPU load and guest entry (762-1056, 1289-1333, 3386-3405) | ASID generations, VMCB, clean bits, host GS base | load, put, sched in/out, set sregs, run, exit | migration between CPUs, ASIDs run out |
| Memory slots (2184-2804) | two slot arrays per address space, generation | create, delete, move, change flags | readers under SRCU, in-place update of the old array |
| MMIO sptes (`mmu.c` 242-336, 3539-3587, 5256) | generation stored in the spte | create, check, zap | a stale lookup, wrap-around of the generation |
| Page faults, direct map (2579-3193, 3590-3800) | sptes, `mmu_notifier_seq/count` | slow path, lockless fast path | the page goes away during the fault |
| MMU notifier (`vmrun.c` 2917-3136) | same | range start/end, change_pte | faults under way |
| Page tracking (`page_track.c`) | `gfn_track` | add, remove | the fast path against write protection |
| Remote TLB flush (`vmrun.c` 2917) | processors' TLBs | flush | the request is commented out |
| VM and vCPU life cycle, ioctls (1350-2182, 2806-2840, 3138-3346) | reference counts, mutexes, descriptors | create, run, release | error paths, order of release |
| Reverse maps (`mmu.c` 1006-1250) | chains of descriptors | add, remove, iterate | removal under an iterator |
| Shadow pages (1757-2516, 3196-3440, 5170-5327) | pages, parents, roots, lists | get, link, zap, shrink | the lock is dropped while zapping |
| Unsynchronised pages (1822-2153, 4549-4746) | unsync flags, child bitmaps | unsync, sync, guest writes a page table | as above |
| Masks (3883-4266) | none, pure functions | permission, reserved bits, PKU | |

In the source as it is `vmrun_create_vm` always takes an error path (the `goto` at line
3158 is not guarded by the `if` above it), and the Makefile builds `vmrun.o` only, so the
code behind a VM descriptor is not yet reachable from user space. The components are
therefore modelled one by one, each from the state that its own initialisation code
produces; actions of its callers are what the code in `src/` would call.

How they interact: VmLifecycle says which threads may be in an ioctl at all and that what
they use exists; VcpuEntry is one such ioctl seen from the CPUs; CpuEnable is what creating
and destroying a VM does to them. Memslots is read by faults, PageFault and ShadowTlb are
the faults of a direct map with the host taking pages away, ShadowPages those of shadowed
page tables with pages coming and going, and Rmaps is the structure both keep about
their entries.

## Modules

**CpuEnable.** `vmrun_count_lock` is held exactly while `op # NoOp`. `on_each_cpu`
takes the CPUs of `op.todo` one by one (`EnableOn`, `DisableOn`), so that failures
and hotplug fall between them. A CPU comes up in two steps, `CpuStarting` (the
callback) and `CpuOnline` (the kernel marks it online). `Busy` are the CPUs where
`vmrun_cpu_enable_nolock` fails. `leaked` records per-CPU data that nothing can
free any more. Everything interleaves: the driver takes no hotplug lock, so a CPU may
be between the two steps when `on_each_cpu` is called, which then does not reach it.
`missed` is a history variable, which no action reads, that holds those CPUs. One leaves
it when a later disable reaches it and SVM is off there, or when it goes down with its bit
in `cpus_enabled` clear. `EnabledIffSvme`, `UsersHaveSvm` and `IdleIsOff` say what holds of
all other CPUs; on a CPU in `missed` the code guarantees none of the three (see
`hotplug_race` below). `vmrun_exit` is treated as if `unregister_cpu_notifier` did not
wait for a CPU on its way up.

**VcpuEntry.** A vCPU is used by the thread that holds its mutex (`loaded`), on a
CPU (`on`) or on none (preempted). `cd` is the ASID part of `vmrun_cpu_data`. The
processor is explicit where the code depends on it: `tlb` says which vCPUs have
entries under which ASID of a CPU, `hw` which copy of a VMCB a CPU kept, and
`Loads` lets `VMRUN` use that copy for a field whose clean bit is set. All
registers that `VMRUN_SET_SREGS` writes are one value. `npt_enabled` is constantly
false, so `vmrun_flush_tlb` is not called and not modelled.

**Memslots.** The two arrays of an address space are two buffers; `memslots` names
the installed one and `freed` says whether the other is allocated. A region update
is one to three actions, split where `synchronize_srcu_expedited` waits
(`SetMemoryRegion`, `InstallUpdated`, `FinishUpdate`). `UpdateMemslots` is the
insertion step of `vmrun_update_memslots`: the two loops as the position they stop
at and the entries they shift. A reader is a vCPU thread in an SRCU section; it
looks a frame up and, in a later step, stores an MMIO spte with the generation it
reads then. The generation is kept modulo `GenMod`, the number of values an spte
can tell apart (2^20 in the code).

**PageFault.** `pte` is the host's page table, `spte` the last-level entries of a
direct map with the three bits that decide about writing. The slow path is three steps
(`ReadSeq`, `GfnToPfn`, `MapPage`), the fast path two (`FastRead`, `FastFix`, a
compare-and-exchange), and adding a write tracker two under `mmu_lock`
(`TrackAdd`, `TrackProtect`), because the fast path does not take the lock. The host
changes its page table inside an open range (`HostChange`) or with `change_pte`.

**ShadowTlb** extends PageFault by what the processors have cached.

**RmapSet, Rmaps.** RmapSet is what a reverse map promises: a set of sptes per head, and
loops that go through it, dropping some. Rmaps is how the code keeps it: `head` is nothing,
one pointer or a sequence of descriptors; `PteListAdd`, `PteListRemove`, `GetFirst` and
`GetNextIter` are the functions of the same names. A loop is one step per iteration
(`LoopVisit`, `LoopDrop`, `LoopEnd`) and starts over after a drop, as the loops of the
code do. `target` is what the spte itself says. `nobjs` is the cache of descriptors; a
failed `mmu_topup_memory_cache` keeps the objects it got. `bug` records that one of the
`BUG`s of the code was reached. `ImplementsSet` maps the chains to their sets and the
position of the iterator to the entries already seen.

**ShadowPages.** `mmu` holds all that `mmu_lock` protects, as one record, so that a
function of the code is an operator from record to record (`ZapPages`, `GetPage`,
`SyncPages`). `lock` names the holder only between two steps of one critical section. A
fault is a step per level (`FaultWalk`, `FaultLink`), a synchronisation a step per walk,
zapping all pages a step per page; in the last two the lock may be given up in between
(`yield`, `ZapYield`). A page on the local list of an operation is freed before that
operation's step ends, as the code commits the list before it unlocks. `active_mmu_pages`
is the set `active` with the order `older`, since `vmrun_zap_obsolete_pages` and the page
limit rely on the order.

The recursive functions are given by what they reach. `vmrun_mmu_mark_parents_unsync` goes
on above a page that had no mark yet: `MarkedFrom` is the least set of pages closed under
that step. `__mmu_unsync_walk` follows marked entries: `Below` is the least set closed under
them, `UnsyncPaths` the ways through it, `FirstPaths` the one by which the walk meets each
leaf first, and `Cleared` the marks that `mmu_pages_clear_parents` takes back along them.
`PrepareZap` zaps a set of pages: `mmu_zap_unsync_children` repeats its walk until nothing
is found, so in the end all unsync leaves below are zapped and no mark is left on the way,
in whatever order the pages came; the only trace of the order, the place of roots in use on
the list, is kept by `Moved`. `ZapOldestAbove` is the loop over the oldest pages as the
page it stops at (`LastZapped`).

Pages are indirect, of 64-bit roots. `sync_page` is in `paging_tmpl.h`, which the
repository lacks: it succeeds or fails. The fault handler of shadow paging is there too;
the fault here is the one of `nonpaging_map` and `__direct_map`, with the frames of guest
tables in place of the pseudo frames. The request to reload has neither writer nor reader in
`src/`: `vmrun_reload_remote_mmus` is called and not defined, and the request primitives in
`vmrun.c` (2877-2915) are commented out. `ReloadRemoteMmus` assumes that it asks every vCPU
and a vCPU's `MmuUnload` stands for the answer; `ReloadRequested` is about where the code
makes the call. The array of a walk (`KVM_PAGE_ARRAY_NR`, 16 pages) has no
limit in the model: in the instance it never fills, and the theorems are about walks that fit
into it. A walk cut short by a full array is not modelled.

**VmLifecycle.** One machine, its descriptors, and threads with a program counter. A file is
open while a descriptor, a mapping or an ioctl in progress refers to it; the last
reference calls the release function (`Fput`). Creation is cut where `vmrun->lock` is
taken and given back, and between the descriptor and the table entry (`VcpuDescriptor`,
`VcpuPublish`), where another thread can already use the descriptor. `VcpuCreate` chooses
the allocation that fails. `leaked` remembers the vCPUs that an unknown ioctl left with the
mutex held (line 2036). With a signal pending the run loop goes round without entering
the guest and without returning, as its own check for signals is commented out: `EnterGuest`
is then disabled. A vCPU structure is used once.

**MC\*** modules hold the constants of the runs, **\*Proofs** modules the proofs. A
definition whose comment starts with "Mutant" is a deliberately wrong variant
of the one after it; no specification uses it, it shows that a property notices.

## Runs

| Run | Shows | States |
|---|---|---|
| `cpu_enable` | count, mask and EFER.SVME agree; SVM is on for users and off without, except on CPUs an `on_each_cpu` missed | 385,552 |
| `hotplug_race` | counterexample to README.md:7-9 | |
| `cpu_unsetup` | counterexample to the comment at `vmrun.c`:428 | |
| `vcpu_entry` | ASIDs are exclusive, VMCB copies current, GS base of this CPU | 1,010,054 |
| `memslots` | arrays well-formed at all times, no WARN_ON, readers undisturbed, MMIO sptes fresh, updates end | 99,398 |
| `mmio_wrap` | counterexample to the comment at `mmu.c`:5258 | |
| `page_fault` | sptes agree with the host; tracked frames stay read-only | 880,594 |
| `tlb_flush` | counterexample to the comment at `vmrun.c`:2990 | |
| `rmap` | chains implement sets, loops reach all entries, no `BUG`, chains stay short | 50,138 |
| `rmap_count` | counterexample to the comment at `mmu.c`:1004 | |
| `shadow_pages` | no dangling entry or root, exact counts, one page per table, unsync pages found again, limit kept, zapping complete | 104,657 |
| `lifecycle` | references keep things alive, failures give everything back, mutexes are held by those inside, the kernel's work ends | 157,840 |

The five counterexamples:

- `hotplug_race`: a CPU passes `CPU_STARTING` while there is no VM (nothing is
  done); the first VM enables the online CPUs, not this one; the CPU goes online
  with SVM off. The code does not exclude hotplug during `vmrun_cpu_enable_all`, nor
  during `vmrun_cpu_disable_all`, which leads to the same state on a longer way: a CPU
  that came up while there was a VM is missed by the `on_each_cpu` of the last VM
  (`vmrun.c`:363) and keeps SVM on without a VM; it goes down with the count at 0, so
  `vmrun_cpu_disable` (348) leaves its bit in `cpus_enabled`; when it comes up for the
  next VM, `vmrun_cpu_enable_nolock` returns at once (246) and SVM stays off.
- `cpu_unsetup`: `vmrun_exit`, and `vmrun_init` when a registration fails
  (`out_free_cpus`), call `vmrun_cpu_unsetup` for every possible CPU from one thread. It
  frees the data of the CPU that thread runs on. TLC's trace is the one of `vmrun_init`.
- `mmio_wrap`: the generation of address space 0 is 2 modulo 4 (it starts at -150 and
  advances by 4), so it never is 0 modulo the mask and the wrap-around is not noticed.
- `tlb_flush`: `invalidate_range_start` returns with translations of the range cached.
- `rmap_count`: when the last descriptor of a chain is full, `pte_list_add` goes on to a new
  one without counting the full one and returns `PTE_LIST_EXT` too little. Recycling is
  then late; `ChainBounded` of run `rmap` says by how much.

What the properties of `lifecycle` leave open, because the code does: `AllFreed` excepts
the hsave page, which nothing frees once `vmrun_vcpu_create` succeeded; `MutexHeld` and
`KernelReturns` except machines on which an unknown ioctl was called; and
`KernelReturns` says nothing of the run loop.

Bounds. `cpu_enable`: three CPUs (one to run on, one to fail, one to come and go) and two
VMs (first and not first). `vcpu_entry`: two vCPUs, two CPUs, two ASIDs and two generations:
enough for exhaustion, for a CPU whose generation equals that of another, and, as
`CpuEnable` resets the generation, for a number that comes back. CPUs, vCPUs and register
values are interchangeable (symmetry). `memslots`: four entries, of which user space may use
three, three frames, four updates, one reader; `GenMod` is 64, more than four updates can
use up, so no generation comes back in this run, and one does in `mmio_wrap` (`GenMod` 16).
`page_fault`: two vCPUs, frames, pages and notifiers, two increments of the sequence number,
one tracker per frame (so the counter also saturates). Every set of that run is
interchangeable. `rmap`: descriptors of two pointers and six sptes, so that a chain has a
first, a middle and a last descriptor; a threshold of one, so that chains are recycled
before and after a descriptor is full; a cache of three that may be filled in part. Sptes
are interchangeable. `shadow_pages`: three page structures and three levels, so a root, a
directory and a leaf or two roots; limits of one and two, below what a walk needs; batches
of one page; one generation bump. vCPUs and page structures are interchangeable. When no
structure is left the walk of a fault ends (`FaultOutOfPool`), a bound of the model; the
code allocates. ShadowPagesProofs proves the same properties for all values.
`lifecycle`: two threads, two vCPUs and two ids, so that ids collide and do not, and two
descriptors per file.

Fairness is assumed in `memslots` and `lifecycle`. In `memslots`: a vCPU thread leaves its
SRCU section (`vmrun_vcpu_enter_guest` and the loop of `vmrun_vcpu_ioctl_run` leave it on
every pass), and `synchronize_srcu` returns once the readers it waits for have left. Readers
may enter again at any time; `UpdateEnds` holds because a grace period does not wait for
those that entered after it began. In `lifecycle`: a thread inside the kernel is scheduled
and a mutex is handed to a waiter at some point (strong fairness of `KernelStep`, the steps
that wait for nothing but a mutex); nothing is assumed of user space, of the guest or of
signals. In `rmap` the end of a loop is not stated as a liveness property, since the run
uses symmetry; the refinement shows that each iteration adds to the entries seen or takes
one away. The passing runs check for deadlock, except `lifecycle`, where a process that has
closed everything is done.

## Proofs

| Module | Theorems | Assumptions |
|---|---|---|
| CpuEnableProofs | `CpuTypeOK`, `UsageCount`, `EnabledMask`, `SvmForUsers`, `SvmOffWhenIdle` | CPUs finite and not empty |
| VcpuEntryProofs | `EntryTypeOK`, `AsidExclusion`, `CleanBits`, `HostGs` | at least one ASID |
| PageFaultProofs | `FaultTypeOK`, `NoStaleSpte`, `TrackedStaysReadOnly` | finitely many notifiers |
| VmLifecycleProofs | `LifetimeSafe`, `MutexSafe`, `TableSafe`, `NothingKept`, `LifecycleTypes` | finitely many threads and vCPU structures |
| RmapsProofs | `RmapTypes`, `RmapNoBug`, `RmapExact`, `RmapPacked`, `RmapBounded`, `RmapRefinement` | `RmapAssumption` (a top-up covers what one fault adds; a frame is no page), `TagAssumption` |
| MemslotsProofs | `MemTypes`, `MemWellFormed`, `MemNoWarn`, `MemGenerations`, `MemReadersStable` | `SlotsAssumption` (one or two address spaces, `GenMod` a multiple of 4) |
| | `MemMmioFresh` | also `8 * MaxUpdates < GenMod` |
| ShadowPageOpsProofs | lemmas: what each function does to the pages, and that it keeps them consistent | finitely many pages and vCPUs (`Counting`) |
| ShadowPagesProofs | `ShadowTypes`, `ShadowNoDangling`, `ShadowCounts`, `ShadowValidUnique`, `ShadowUnsyncMarked`, `ShadowWritable`, `ShadowReload`, `ShadowLimit`, `ShadowZapComplete` | `ShadowAssumption` (at least two levels, the refill is not below the reserve, finitely many pages and vCPUs) |

Each proof rests on an inductive invariant.

- `CpuInv`: the count, mask and EFER.SVME are only related through the call that
  holds the lock, so `LockHolder` says how far it has got: during enable, the CPUs
  not yet visited are off and, unless one failed, the visited ones are on; during
  disable and rollback, what is still on is still to be visited. All of it is up to
  the CPUs in `missed`, and a CPU that comes online during the call is in `missed`.
- `EntryInv`: that an ASID is not shared follows from `UnusedAsids` (no entries in the
  TLB at or above `next_asid`) and `OwnsAsid` (two vCPUs on one CPU with its
  current generation have different ASIDs below `next_asid`). `CleanIsCurrent` says
  that a set clean bit implies a current copy on the CPU the thread runs on.
- `FaultInv`: `CountExact` (the count is the number of open ranges), `OpenUnmapped`
  (no spte inside one), `FaultSeen` (a looked-up page is still the host's unless
  the fault must retry), `FastSeen` and `TrackerSeen` (what a lockless fix can have
  done to a spte since a tracker read it).
- `FileInv` (VmLifecycleProofs): that `users_count` is the number of open files (`Counted`) is
  preserved only because a release finds its file open and a destruction begins once, so
  the invariant also says that the count is positive exactly while the machine is
  live (`Alive`), that an open vCPU file has all its parts (`Stocked`), which thread is
  attached to which vCPU (`Attached`), that a vCPU being created is seen by one thread
  only (`Private`), and that one thread destroys (`OneDestroyer`).
- `TableInv`, inductive together with `FileInv`: who holds a
  mutex (`Held`), why a `BUG_ON` can be reached (`BugLeaked`), `CountInv` for
  `created_vcpus`, and, for the ids, that a thread about to publish holds `vmrun->lock`
  and its id is not in the table (`Looked`, `Named`, `Distinct`).
- `Returned`: what `AllFreed` says of a machine that is gone and of a creation that failed,
  with the intermediate fact that a vCPU whose creation is about to decrement
  `created_vcpus` has nothing left but the hsave page. `Rest` has the types that neither of
  the other two needs.
- `RmapInv` (RmapsProofs): every chain is `Good` (packed, no pointer twice) and holds
  exactly the sptes whose `target` is its head (`Exact`); the cache covers what the fault
  may still add (`Stocked`); the iterator stands on a member of the chain and has passed no
  member that the loop was to drop (`Looping`); the longest chain a frame can have is full
  only while a loop drops all of it (`Short`). The first half of the module shows, for one
  chain, that adding and removing keep it good and change its set by one pointer, that
  `GetFirst` and `GetNextIter` go through it in order, and by how much a count can be short.
  `RmapRefinement` maps each step of `Rmaps` to the step of `RmapSet` with the same set, or
  to none.
- `MemInv` (MemslotsProofs). `UpdateGood` says of `UpdateMemslots` alone that a good array
  and an accepted region give a good array and no warning. Its proof shows that the two
  loops together are one insertion (`UpdateIs`: the other entries keep their order),
  then order (`SortedAfter`), `used_slots` (`UsedIs`), the index (`ReindexedIs`) and
  overlaps (`DisjointAfter`). `Good` is stronger than `WellFormed`: an entry without pages
  has frame number zero, which is what makes the loops stop at the end of the used
  entries; entries with pages are user slots, which is what makes the overlap check
  sufficient; and ids and positions are inverse to each other. `Slots` adds that the
  array kept aside during a delete or move is still good and the region still
  acceptable to it. `Generations` gives the generation modulo 4 of each address
  space in each phase, `Grace` that a reader with an old array or an old lookup
  is one the writer waits for.
- `Ages`, inductive together with `MemInv`: the age of a generation is its distance from the
  first one; no spte is older than the installed array, an update of address space 0 adds
  at most eight, and while the generation is odd nothing is accepted. Without
  `8 * MaxUpdates < GenMod` the age is not defined by the generation, and the property is
  false: run `mmio_wrap`.
- `ShadowInv` (ShadowPageOpsProofs, ShadowPagesProofs) is `MmuInv` of the pages, `RootInv`
  of the vCPUs' roots, `ThreadInv` and `LimitInv`. `MmuInv` strengthens the properties to
  all page structures and adds what they rest on: an unsync page is a usable leaf without
  marks (`Lists`, `Levels`), so that a zapped page, which leaves `unsync`, takes nothing out
  of sight; a free structure has no marks (`Clean`), so a new page starts unmarked; only
  pages on the active list have entries (`Links`). `Ages` is what `ZapComplete` needs: along
  the list no usable page of an old generation comes after one of the current generation,
  though a root in use is moved to the head, because such a root is invalid. So the loop may
  stop at the first page that is not obsolete. `LimitInv` has a second part for a fault
  under way: what it has used of its one call of `make_mmu_pages_available` depends on the
  level it has reached. The argument goes function by function: `ZapsKeep` and
  `FreePagesKeep` for zapping and freeing, `GetPageIs` for lookup and allocation,
  `LinkShadowPageKeeps` and `MarkParentsKeep` for marks going up, `WalkedKeeps`,
  `ClearKeeps` and `SyncRoundKeeps` for marks taken back. The delicate one is `ClearKeeps`:
  a mark may go only if no unsync page is left below it, and a leaf met on two ways is
  cleared on the first only, so the proof shows that an entry is cleared only when every
  mark below it is on a path of this walk. `Counting` are the facts about `Cardinality` that
  the lemmas use; they follow from the pages and vCPUs being finite (`FiniteCounting`).

Each of these invariants was checked by TLC on the instance of its run before it was proved.
The constants of the theorems may have any value that the named assumptions allow. That
includes the bounds `MaxVMs`, `MaxGen`, `MaxSeq`, `MaxFds` and, but for `MemMmioFresh`,
`MaxUpdates`. The assumptions are what the code has: descriptors of three pointers, 2^20
generations in an spte, caches topped up to at least what a fault uses.
`TagAssumption` says that an spte address is not a chain, which the code tells
by the low bit of `rmap_head->val`. Positions that a loop stops at are defined as a least or a
greatest element; that they exist follows from Nat being well-ordered (`LeastOfIs`, `MostOfIs`).

Every safety invariant and action property of the passing runs is proved. Only
model-checked: the liveness properties `UpdateEnds` and `KernelReturns`, as fairness is
beyond TLAPS, and the absence of deadlock, which is a statement about `ENABLED`.

## Not modelled

- `vmrun_create_vm` past the unguarded `goto`, as a sequence of steps that can fail: no
  execution reaches it. CpuEnable has its call of `vmrun_cpu_enable_all`, VmLifecycle and
  Memslots start from what it sets up.
- `paging_tmpl.h` and the parts of shadow paging in it (`sync_page`, `update_pte`, the
  walk of guest tables): not in the repository.
- Large pages, the PAE roots, access tracking and the dirty bitmap: variants of operations
  that are modelled, selected by the mode of the processor.
- The page-track notifier list, page ageing, `vmrun_zap_gfn_range` and the memslot variant
  for VM destruction.
- Permission, protection-key and reserved-bit masks: straight-line bit arithmetic without
  state.
- Unloading the module while descriptors are open: what a later call finds is
  code that is gone.
- Copying of registers and segments, VMCB dumps and logging, the exit handlers (they return
  a code), inline assembly, and the user-space demo.
