----------------------------- MODULE ShadowTlb -----------------------------
(***************************************************************************)
(* PageFault composed with the translations the processors cache.          *)
(* vmrun_flush_remote_tlbs, which the notifiers and write protection call, *)
(* only resets tlbs_dirty: its request to the vCPUs is commented out.  A   *)
(* vCPU loses its translations when it gets a new ASID (module VcpuEntry). *)
(***************************************************************************)
EXTENDS PageFault

VARIABLE tlb    \* per vCPU: the cached translation of each frame

tvars == <<vars, tlb>>

TlbInit == Init /\ tlb = [v \in Vcpu |-> [g \in Gfn |-> NoSpte]]

\* The guest uses g and the processor caches its translation.
GuestAccess(v, g) ==
    /\ fault[v].pc = "idle"
    /\ Present(g)
    /\ tlb' = [tlb EXCEPT ![v] = [@ EXCEPT ![g] = spte[g]]]
    /\ UNCHANGED vars

\* vmrun_new_asid, on the first entry after every vmrun_svm_vcpu_load.
NewAsid(v) ==
    /\ tlb' = [tlb EXCEPT ![v] = [g \in Gfn |-> NoSpte]]
    /\ UNCHANGED vars

TlbNext ==
    \/ Next /\ UNCHANGED tlb
    \/ \E v \in Vcpu : NewAsid(v) \/ \E g \in Gfn : GuestAccess(v, g)

TlbSpec == TlbInit /\ [][TlbNext]_tvars

\* The comment in vmrun_mmu_notifier_invalidate_range_start, "we've to flush the tlb
\* before the pages can be freed": from its return to the end of the range, while the
\* host takes the pages away, no processor has a translation of the range cached.
RangeFlushed ==
    \A n \in Notifier : \A g \in open[n] : \A v \in Vcpu : tlb[v][g] = NoSpte

=============================================================================
