----------------------------- MODULE PageFault -----------------------------
(***************************************************************************)
(* Page faults against the host's memory management: last-level sptes of a *)
(* direct map, the slow path that looks up a page without mmu_lock and maps*)
(* it under the lock, the lockless fast path, the MMU notifier that tells  *)
(* of changes in the host's page table, and write tracking                 *)
(* (kernel/mmu.c, kernel/page_track.c, the notifiers in kernel/vmrun.c).   *)
(*                                                                         *)
(* All sptes of a guest frame are one spte here.  mmu_lock is held over    *)
(* several steps only by a tracker that is write-protecting (tracker); the *)
(* other critical sections are single actions, which wait for it.          *)
(***************************************************************************)
EXTENDS Naturals, FiniteSets

CONSTANTS
    Gfn,        \* guest frames, backed by host memory
    Page,       \* host page frames
    Vcpu,
    Notifier,   \* threads that change the host's page table
    MaxSeq,     \* bound on mmu_notifier_seq
    MaxTrack,   \* the largest gfn_track (USHRT_MAX)
    None

ASSUME FaultAssumption ==
    /\ IsFiniteSet(Notifier)
    /\ MaxSeq \in Nat /\ MaxTrack \in Nat
    /\ None \notin Gfn
    /\ None \notin [page : Page, perm : {"ro", "rw"}]

VARIABLES
    pte,        \* the host's page table, by guest frame
    open,       \* per notifier: the range between range_start and range_end
    mmu_notifier_count,
    mmu_notifier_seq,
    spte,
    gfn_track,
    tracker,    \* vmrun_slot_page_track_add_page in progress
    fault       \* per vCPU: the fault it handles

vars == <<pte, open, mmu_notifier_count, mmu_notifier_seq, spte, gfn_track,
          tracker, fault>>

Bits == {"HOST_WRITEABLE", "MMU_WRITEABLE", "WRITABLE"}
HostPte == [page : Page, perm : {"ro", "rw"}]
NoSpte == [page |-> None, bits |-> {}]
Spte == [page : Page, bits : SUBSET Bits] \cup {NoSpte}
NoTracker == [gfn |-> None, seen |-> NoSpte]
NoFault == [pc |-> "idle", gfn |-> None, seq |-> 0, pfn |-> None, seen |-> NoSpte]

TypeOK ==
    /\ pte \in [Gfn -> HostPte \cup {None}]
    /\ open \in [Notifier -> SUBSET Gfn]
    /\ mmu_notifier_count \in Nat
    /\ mmu_notifier_seq \in 0 .. MaxSeq
    /\ spte \in [Gfn -> Spte]
    /\ gfn_track \in [Gfn -> 0 .. MaxTrack]
    /\ tracker \in [gfn : Gfn, seen : Spte] \cup {NoTracker}
    /\ fault \in [Vcpu -> [pc : {"idle", "fast", "seq", "pfn"}, gfn : Gfn \cup {None},
                           seq : 0 .. MaxSeq, pfn : HostPte \cup {None}, seen : Spte]]

Init ==
    /\ pte = [g \in Gfn |-> None]
    /\ open = [n \in Notifier |-> {}]
    /\ mmu_notifier_count = 0
    /\ mmu_notifier_seq = 0
    /\ spte = [g \in Gfn |-> NoSpte]
    /\ gfn_track = [g \in Gfn |-> 0]
    /\ tracker = NoTracker
    /\ fault = [v \in Vcpu |-> NoFault]

LockFree == tracker = NoTracker
Present(g) == spte[g] # NoSpte

\* spte_can_locklessly_be_made_writable
LocklessWritable(s) == {"HOST_WRITEABLE", "MMU_WRITEABLE"} \subseteq s.bits

-----------------------------------------------------------------------------
(* The MMU notifier, called by the host's memory management *)

\* vmrun_mmu_notifier_invalidate_range_start.  vmrun_flush_remote_tlbs, whose
\* request to the vCPUs is commented out, does not touch their TLBs.
RangeStart(n, range) ==
    /\ open[n] = {}
    /\ LockFree
    /\ open' = [open EXCEPT ![n] = range]
    /\ mmu_notifier_count' = mmu_notifier_count + 1
    /\ spte' = [g \in Gfn |-> IF g \in range THEN NoSpte ELSE spte[g]]
    /\ UNCHANGED <<pte, mmu_notifier_seq, gfn_track, tracker, fault>>

\* Mutant: a range that is done leaves no trace for the faults it overlapped.
RangeEndKeepsSeq(n) ==
    /\ open[n] # {}
    /\ LockFree
    /\ open' = [open EXCEPT ![n] = {}]
    /\ mmu_notifier_count' = mmu_notifier_count - 1
    /\ UNCHANGED <<pte, mmu_notifier_seq, spte, gfn_track, tracker, fault>>

\* Mutant: the count drops twice, as for a range that was never started.
RangeEndTwice(n) ==
    /\ open[n] # {}
    /\ LockFree
    /\ mmu_notifier_seq < MaxSeq
    /\ open' = [open EXCEPT ![n] = {}]
    /\ mmu_notifier_seq' = mmu_notifier_seq + 1
    /\ mmu_notifier_count' = mmu_notifier_count - 2
    /\ UNCHANGED <<pte, spte, gfn_track, tracker, fault>>

\* vmrun_mmu_notifier_invalidate_range_end.
RangeEnd(n) ==
    /\ open[n] # {}
    /\ LockFree
    /\ mmu_notifier_seq < MaxSeq
    /\ open' = [open EXCEPT ![n] = {}]
    /\ mmu_notifier_seq' = mmu_notifier_seq + 1
    /\ mmu_notifier_count' = mmu_notifier_count - 1
    /\ UNCHANGED <<pte, spte, gfn_track, tracker, fault>>

\* The host changes its page table for g, inside a range that covers it.
HostChange(n, g, new) ==
    /\ g \in open[n]
    /\ pte' = [pte EXCEPT ![g] = new]
    /\ UNCHANGED <<open, mmu_notifier_count, mmu_notifier_seq, spte, gfn_track,
                   tracker, fault>>

\* vmrun_set_pte_rmapp: a writable page is unmapped, to be mapped by a fault; a
\* read-only one replaces the page.
SetPteRmapp(s, new) ==
    IF s = NoSpte \/ new.perm = "rw" THEN NoSpte
    ELSE [page |-> new.page, bits |-> s.bits \ {"WRITABLE", "HOST_WRITEABLE"}]

\* vmrun_mmu_notifier_change_pte: the host replaces the page of g, in one step with
\* the notification, whether or not a range is open.
ChangePte(g, new) ==
    /\ LockFree
    /\ mmu_notifier_seq < MaxSeq
    /\ pte' = [pte EXCEPT ![g] = new]
    /\ mmu_notifier_seq' = mmu_notifier_seq + 1
    /\ spte' = [spte EXCEPT ![g] = SetPteRmapp(@, new)]
    /\ UNCHANGED <<open, mmu_notifier_count, gfn_track, tracker, fault>>

-----------------------------------------------------------------------------
(* The slow path: tdp_page_fault and nonpaging_map *)

\* mmu_notifier_seq is read before the page is looked up.

ReadSeq(v, g) ==
    /\ fault[v].pc = "idle"
    /\ fault' = [fault EXCEPT ![v] = [pc |-> "seq", gfn |-> g, seq |-> mmu_notifier_seq,
                                      pfn |-> None, seen |-> NoSpte]]
    /\ UNCHANGED <<pte, open, mmu_notifier_count, mmu_notifier_seq, spte, gfn_track,
                   tracker>>

\* try_async_pf: the page now in the host's page table; the host faults one in if
\* there is none.
GfnToPfn(v, p) ==
    /\ fault[v].pc = "seq"
    /\ pte[fault[v].gfn] \in {None, p}
    /\ pte' = [pte EXCEPT ![fault[v].gfn] = p]
    /\ fault' = [fault EXCEPT ![v] = [pc |-> "pfn", gfn |-> @.gfn, seq |-> @.seq,
                                      pfn |-> p, seen |-> NoSpte]]
    /\ UNCHANGED <<open, mmu_notifier_count, mmu_notifier_seq, spte, gfn_track,
                   tracker>>

\* The page comes later (try_async_pf) or not at all (handle_abnormal_pfn).
GiveUp(v) ==
    /\ fault[v].pc = "seq"
    /\ fault' = [fault EXCEPT ![v] = NoFault]
    /\ UNCHANGED <<pte, open, mmu_notifier_count, mmu_notifier_seq, spte, gfn_track,
                   tracker>>

\* mmu_notifier_retry.
Retry(v) == mmu_notifier_count # 0 \/ mmu_notifier_seq # fault[v].seq

\* set_spte: writable if the host's page is and nothing needs the frame protected.
SetSpte(g, p) ==
    [page |-> p.page,
     bits |-> CASE p.perm = "ro" -> {}
                [] p.perm = "rw" /\ gfn_track[g] > 0 -> {"HOST_WRITEABLE"}
                [] p.perm = "rw" /\ gfn_track[g] = 0 -> Bits]

\* The part of the slow path under mmu_lock.  Nothing is mapped after a retry, or
\* when make_mmu_pages_available or __direct_map find no page for the tables
\* (enough = FALSE): the guest faults again.
MapPage(v, enough) ==
    /\ fault[v].pc = "pfn"
    /\ LockFree
    /\ spte' = IF Retry(v) \/ ~enough THEN spte
               ELSE [spte EXCEPT ![fault[v].gfn] = SetSpte(fault[v].gfn, fault[v].pfn)]
    /\ fault' = [fault EXCEPT ![v] = NoFault]
    /\ UNCHANGED <<pte, open, mmu_notifier_count, mmu_notifier_seq, gfn_track,
                   tracker>>

-----------------------------------------------------------------------------
(* The fast path: fast_page_fault, for a write to a present read-only spte.  The *)
(* lockless look at gfn_track before it (page_fault_handle_page_track) may be    *)
(* stale by now, and is left out.                                                *)

FastRead(v, g) ==
    /\ fault[v].pc = "idle"
    /\ Present(g)
    /\ "WRITABLE" \notin spte[g].bits
    /\ LocklessWritable(spte[g])
    /\ fault' = [fault EXCEPT ![v] = [pc |-> "fast", gfn |-> g, seq |-> 0,
                                      pfn |-> None, seen |-> spte[g]]]
    /\ UNCHANGED <<pte, open, mmu_notifier_count, mmu_notifier_seq, spte, gfn_track,
                   tracker>>

\* fast_pf_fix_direct_spte: cmpxchg; on failure the path is tried again or given up.
FastFix(v) ==
    /\ fault[v].pc = "fast"
    /\ spte' = IF spte[fault[v].gfn] = fault[v].seen
                 THEN [spte EXCEPT ![fault[v].gfn] = [page |-> @.page, bits |-> Bits]]
                 ELSE spte
    /\ fault' = [fault EXCEPT ![v] = NoFault]
    /\ UNCHANGED <<pte, open, mmu_notifier_count, mmu_notifier_seq, gfn_track,
                   tracker>>

-----------------------------------------------------------------------------
(* Write tracking, dirty logging, zapping *)

\* vmrun_slot_page_track_add_page up to the read of the spte in spte_write_protect.
\* A full counter stays (the WARN_ON in update_gfn_track); the frame is protected.
TrackAdd(g) ==
    /\ LockFree
    /\ gfn_track' = [gfn_track EXCEPT ![g] = IF @ < MaxTrack THEN @ + 1 ELSE @]
    /\ tracker' = [gfn |-> g, seen |-> spte[g]]
    /\ UNCHANGED <<pte, open, mmu_notifier_count, mmu_notifier_seq, spte, fault>>

\* Mutant: protected as for dirty logging, so that the fast path can undo it.
WriteProtectForLog(s) == [page |-> s.page, bits |-> s.bits \ {"WRITABLE"}]

\* What spte_write_protect writes, for a spte it found as s.
WriteProtect(s) == [page |-> s.page, bits |-> s.bits \ {"WRITABLE", "MMU_WRITEABLE"}]

\* The rest of it, until mmu_lock is dropped.
TrackProtect ==
    /\ ~LockFree
    /\ spte' = IF "WRITABLE" \in tracker.seen.bits \/ LocklessWritable(tracker.seen)
                 THEN [spte EXCEPT ![tracker.gfn] = WriteProtect(tracker.seen)]
                 ELSE spte
    /\ tracker' = NoTracker
    /\ UNCHANGED <<pte, open, mmu_notifier_count, mmu_notifier_seq, gfn_track, fault>>

\* vmrun_slot_page_track_remove_page; a counter of 0 stays.
TrackRemove(g) ==
    /\ LockFree
    /\ gfn_track' = [gfn_track EXCEPT ![g] = IF @ > 0 THEN @ - 1 ELSE @]
    /\ UNCHANGED <<pte, open, mmu_notifier_count, mmu_notifier_seq, spte, tracker,
                   fault>>

\* vmrun_mmu_write_protect_pt_masked.
LogProtect(g) ==
    /\ LockFree
    /\ "WRITABLE" \in spte[g].bits
    /\ spte' = [spte EXCEPT ![g] = [page |-> @.page, bits |-> @.bits \ {"WRITABLE"}]]
    /\ UNCHANGED <<pte, open, mmu_notifier_count, mmu_notifier_seq, gfn_track, tracker,
                   fault>>

\* drop_spte, when shadow pages or slots go away.
DropSpte(g) ==
    /\ LockFree
    /\ Present(g)
    /\ spte' = [spte EXCEPT ![g] = NoSpte]
    /\ UNCHANGED <<pte, open, mmu_notifier_count, mmu_notifier_seq, gfn_track, tracker,
                   fault>>

-----------------------------------------------------------------------------
NotifierStep ==
    \/ \E g \in Gfn, new \in HostPte : ChangePte(g, new)
    \/ \E n \in Notifier :
        \/ \E range \in (SUBSET Gfn) \ {{}} : RangeStart(n, range)
        \/ RangeEnd(n)
        \/ \E g \in Gfn, new \in HostPte \cup {None} : HostChange(n, g, new)

FaultStep ==
    \E v \in Vcpu :
        \/ \E g \in Gfn : ReadSeq(v, g) \/ FastRead(v, g)
        \/ \E p \in HostPte : GfnToPfn(v, p)
        \/ GiveUp(v)
        \/ \E enough \in BOOLEAN : MapPage(v, enough)
        \/ FastFix(v)

ProtectStep ==
    \/ TrackProtect
    \/ \E g \in Gfn : TrackAdd(g) \/ TrackRemove(g) \/ LogProtect(g) \/ DropSpte(g)

Next == NotifierStep \/ FaultStep \/ ProtectStep
Spec == Init /\ [][Next]_vars

-----------------------------------------------------------------------------
(* Properties *)

\* A translation s of g maps the page that the host maps there, writable only if
\* the host's entry is.
Backed(s, g) ==
    s # NoSpte =>
        /\ pte[g] # None
        /\ s.page = pte[g].page
        /\ s.bits \cap {"HOST_WRITEABLE", "WRITABLE"} # {} => pte[g].perm = "rw"

\* No spte maps a page that the host has taken away or write-protected, also when
\* the page was looked up before the change and the fault gets mmu_lock after it
\* (mmu_notifier_seq, mmu_notifier_count), or a lockless fix races with it.
SptesBacked == \A g \in Gfn : Backed(spte[g], g)

\* Once a write tracker has been added, the sptes of the frame are read-only and the
\* fast path cannot change that, whatever faults were under way when it was added
\* (vmrun_slot_page_track_add_page against fast_page_fault).
TrackedReadOnly ==
    \A g \in Gfn : gfn_track[g] > 0 /\ tracker.gfn # g =>
        "WRITABLE" \notin spte[g].bits /\ ~LocklessWritable(spte[g])

-----------------------------------------------------------------------------
(* FaultInv is inductive; its parts say why the two properties hold. *)

OpenRanges == {n \in Notifier : open[n] # {}}

\* mmu_notifier_count counts the open ranges, so BUG_ON(mmu_notifier_count < 0) in
\* vmrun_mmu_notifier_invalidate_range_end never fires.
CountExact == mmu_notifier_count = Cardinality(OpenRanges)

\* No spte appears in a range from its start to its end.
OpenUnmapped == \A n \in Notifier : \A g \in open[n] : spte[g] = NoSpte

\* A page looked up by a fault that need not retry is still the host's.
FaultSeen ==
    \A v \in Vcpu :
        /\ fault[v].pc # "idle" => fault[v].gfn \in Gfn
        /\ fault[v].seq <= mmu_notifier_seq
        /\ fault[v].pc = "pfn" =>
              /\ fault[v].pfn # None
              /\ Retry(v) \/ pte[fault[v].gfn] = fault[v].pfn

\* The fast path compares with a spte it may make writable.
FastSeen ==
    \A v \in Vcpu : fault[v].pc = "fast" => LocklessWritable(fault[v].seen)

\* The spte a tracker has read is still there, or was made writable since.
TrackerSeen ==
    tracker # NoTracker =>
        \/ spte[tracker.gfn] = tracker.seen
        \/ /\ LocklessWritable(tracker.seen)
           /\ spte[tracker.gfn] = [page |-> tracker.seen.page, bits |-> Bits]

FaultInv ==
    /\ TypeOK
    /\ CountExact
    /\ OpenUnmapped
    /\ FaultSeen
    /\ FastSeen
    /\ TrackerSeen
    /\ SptesBacked
    /\ TrackedReadOnly

=============================================================================
