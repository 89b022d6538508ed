----------------------------- MODULE VcpuEntry -----------------------------
(***************************************************************************)
(* What a vCPU carries onto a physical CPU and into the guest              *)
(* (kernel/vmrun.c): ASIDs and their per-CPU generations, the VMCB and its *)
(* clean bits, and the host's GS base.                                     *)
(*                                                                         *)
(* A vCPU is used by the one thread that holds its mutex (loaded), on the  *)
(* CPU that thread runs on (on); the preempt notifier calls                *)
(* vmrun_sched_out and vmrun_sched_in when the thread is switched.  The    *)
(* processor is modelled by what VMRUN may do: fill the TLB under the      *)
(* current ASID, and take a VMCB field whose clean bit is set from the     *)
(* copy it kept when that VMCB last ran on this CPU.                       *)
(***************************************************************************)
EXTENDS Naturals

CONSTANTS
    CPU,
    Vcpu,
    Sregs,      \* values of the state that VMRUN_SET_SREGS writes to the VMCB
    MaxAsid,    \* cd->max_asid
    MaxGen,     \* bound: ASID generations (asid_generation is a u64)
    None

ASSUME EntryAssumption ==
    /\ MaxAsid \in Nat \ {0}
    /\ MaxGen \in Nat \ {0}
    /\ None \notin CPU /\ None \notin Vcpu /\ None \notin Sregs
    /\ Sregs # {}

VARIABLES
    cd,               \* per CPU: asid_generation and next_asid
    asid_generation,  \* per vCPU
    asid,             \* vmcb->control.asid; 0 until the first is assigned
    sregs,            \* the segment, table and control registers in the VMCB
    clean,            \* vmcb->control.clean
    cpu,              \* vcpu->cpu
    loaded,           \* vCPUs whose mutex is held
    on,               \* the CPU the holder of the mutex runs on
    host_gs,          \* vcpu->host.gs_base: the CPU whose GS base was saved
    guest,            \* per CPU: the vCPU in guest mode
    hw,               \* per CPU and vCPU: VMCB fields kept by the processor
    tlb               \* per CPU and ASID: vCPUs with entries in the TLB

vars == <<cd, asid_generation, asid, sregs, clean, cpu, loaded, on, host_gs,
          guest, hw, tlb>>

Asid == 0 .. MaxAsid      \* ASID 0 is the host's
SregGroups == {"INTERCEPTS", "CR", "DT", "SEG"}
Groups == SregGroups \cup {"ASID"}
NotCached == [asid |-> 0, sregs |-> None]

TypeOK ==
    /\ cd \in [CPU -> [gen : 1 .. MaxGen, next : 1 .. MaxAsid + 1]]
    /\ asid_generation \in [Vcpu -> 0 .. MaxGen]
    /\ asid \in [Vcpu -> Asid]
    /\ sregs \in [Vcpu -> Sregs]
    /\ clean \in [Vcpu -> SUBSET Groups]
    /\ cpu \in [Vcpu -> CPU \cup {None}]
    /\ loaded \subseteq Vcpu
    /\ on \in [Vcpu -> CPU \cup {None}]
    /\ host_gs \in [Vcpu -> CPU \cup {None}]
    /\ guest \in [CPU -> Vcpu \cup {None}]
    /\ hw \in [CPU -> [Vcpu -> [asid : Asid, sregs : Sregs \cup {None}]]]
    /\ tlb \in [CPU -> [Asid -> SUBSET Vcpu]]

\* Mutant: the first generation is also the one of a vCPU without an ASID.
FreshCpuDataGenZero == [gen |-> 0, next |-> MaxAsid + 1]

\* The ASID part of vmrun_cpu_enable_nolock.
FreshCpuData == [gen |-> 1, next |-> MaxAsid + 1]

\* CPUs as vmrun_cpu_enable_nolock leaves them, vCPUs as vmrun_vcpu_create and
\* vmrun_vmcb_init do.  Neither TLB nor processor caches are assumed empty of
\* other software's entries; none of them carries a vCPU's mark.
Init ==
    /\ cd = [c \in CPU |-> FreshCpuData]
    /\ asid_generation = [v \in Vcpu |-> 0]
    /\ asid = [v \in Vcpu |-> 0]
    /\ sregs \in [Vcpu -> Sregs]
    /\ clean = [v \in Vcpu |-> {}]
    /\ cpu = [v \in Vcpu |-> None]
    /\ loaded = {}
    /\ on = [v \in Vcpu |-> None]
    /\ host_gs = [v \in Vcpu |-> None]
    /\ guest = [c \in CPU |-> None]
    /\ hw = [c \in CPU |-> [v \in Vcpu |-> NotCached]]
    /\ tlb = [c \in CPU |-> [a \in Asid |-> {}]]

-----------------------------------------------------------------------------
(* Which thread runs where *)

\* The thread using v runs on a CPU, outside the guest and outside the
\* non-preemptible section around it.
Running(v) == on[v] # None /\ guest[on[v]] = None
FreeCpu(c) == \A v \in Vcpu : on[v] # c

\* SVM is enabled again on a CPU that went through hotplug; no thread runs there.
CpuEnable(c) ==
    /\ FreeCpu(c)
    /\ cd' = [cd EXCEPT ![c] = FreshCpuData]
    /\ UNCHANGED <<asid_generation, asid, sregs, clean, cpu, loaded, on, host_gs,
                   guest, hw, tlb>>

\* Mutant: nothing is reset for a vCPU that arrives with an ASID.
SvmVcpuLoadKeepsAsid(v, c) ==
    /\ clean' = [clean EXCEPT ![v] = {}]
    /\ host_gs' = [host_gs EXCEPT ![v] = c]
    /\ UNCHANGED <<asid_generation, cpu>>

\* Mutant: the clean bits survive a move to another CPU.
SvmVcpuLoadKeepsClean(v, c) ==
    /\ asid_generation' = [asid_generation EXCEPT ![v] = 0]
    /\ host_gs' = [host_gs EXCEPT ![v] = c]
    /\ UNCHANGED <<clean, cpu>>

\* vmrun_svm_vcpu_load.  vcpu->cpu is set to -1 when the vCPU is created and
\* never assigned again.
SvmVcpuLoad(v, c) ==
    /\ asid_generation' = [asid_generation EXCEPT ![v] = IF c # cpu[v] THEN 0 ELSE @]
    /\ clean' = [clean EXCEPT ![v] = IF c # cpu[v] THEN {} ELSE @]
    /\ host_gs' = [host_gs EXCEPT ![v] = c]
    /\ UNCHANGED cpu

\* vmrun_vcpu_load by a thread that runs on c.
VcpuLoad(v, c) ==
    /\ v \notin loaded
    /\ FreeCpu(c)
    /\ loaded' = loaded \cup {v}
    /\ on' = [on EXCEPT ![v] = c]
    /\ SvmVcpuLoad(v, c)
    /\ UNCHANGED <<cd, asid, sregs, guest, hw, tlb>>

\* vmrun_vcpu_put.
VcpuPut(v) ==
    /\ Running(v)
    /\ loaded' = loaded \ {v}
    /\ on' = [on EXCEPT ![v] = None]
    /\ UNCHANGED <<cd, asid_generation, asid, sregs, clean, cpu, host_gs, guest,
                   hw, tlb>>

\* vmrun_sched_out: the thread that uses v loses its CPU.
SchedOut(v) ==
    /\ Running(v)
    /\ on' = [on EXCEPT ![v] = None]
    /\ UNCHANGED <<cd, asid_generation, asid, sregs, clean, cpu, loaded, host_gs,
                   guest, hw, tlb>>

\* Mutant: a thread that is switched in keeps the host state it saved before.
SchedInKeepsHost(v, c) ==
    /\ v \in loaded
    /\ on[v] = None
    /\ FreeCpu(c)
    /\ on' = [on EXCEPT ![v] = c]
    /\ asid_generation' = [asid_generation EXCEPT ![v] = 0]
    /\ clean' = [clean EXCEPT ![v] = {}]
    /\ UNCHANGED <<cd, asid, sregs, cpu, loaded, host_gs, guest, hw, tlb>>

\* vmrun_sched_in: the thread gets a CPU again, maybe another one.
SchedIn(v, c) ==
    /\ v \in loaded
    /\ on[v] = None
    /\ FreeCpu(c)
    /\ on' = [on EXCEPT ![v] = c]
    /\ SvmVcpuLoad(v, c)
    /\ UNCHANGED <<cd, asid, sregs, loaded, guest, hw, tlb>>

\* VMRUN_SET_SREGS: the setters clear the clean bit of what they write.
SetSregs(v, s) ==
    /\ Running(v)
    /\ sregs' = [sregs EXCEPT ![v] = s]
    /\ clean' = [clean EXCEPT ![v] = @ \ SregGroups]
    /\ UNCHANGED <<cd, asid_generation, asid, cpu, loaded, on, host_gs, guest, hw, tlb>>

-----------------------------------------------------------------------------
(* Guest entry and exit *)

\* vmrun_new_asid starts a new generation when the ASIDs are used up, and asks
\* for a flush of all of them.
Exhausted(c) == cd[c].next > MaxAsid
NeedsAsid(v, c) == asid_generation[v] # cd[c].gen

NewCpuData(c) ==
    IF Exhausted(c) THEN [gen |-> cd[c].gen + 1, next |-> 2]
                    ELSE [gen |-> cd[c].gen, next |-> cd[c].next + 1]

\* vmrun_vcpu_run up to VMRUN: a new ASID if the vCPU's is of another generation.
AssignAsid(v, c) ==
    \/ /\ NeedsAsid(v, c)
       /\ Exhausted(c) => cd[c].gen < MaxGen
       /\ cd' = [cd EXCEPT ![c] = NewCpuData(c)]
       /\ asid_generation' = [asid_generation EXCEPT ![v] = NewCpuData(c).gen]
       /\ asid' = [asid EXCEPT ![v] = NewCpuData(c).next - 1]
    \/ /\ ~NeedsAsid(v, c)
       /\ UNCHANGED <<cd, asid_generation, asid>>

\* The clean bits VMRUN finds in the VMCB.
CleanAtEntry(v, c) == IF NeedsAsid(v, c) THEN clean[v] \ {"ASID"} ELSE clean[v]

\* The processor executes VMRUN: fields marked clean may come from its copy.
Loads(v, c, a, s) ==
    /\ \/ a = asid'[v]
       \/ hw[c][v] # NotCached /\ "ASID" \in CleanAtEntry(v, c) /\ a = hw[c][v].asid
    /\ \/ s = sregs[v]
       \/ /\ hw[c][v] # NotCached
          /\ CleanAtEntry(v, c) \cap SregGroups # {}
          /\ s = hw[c][v].sregs

\* TLB_CONTROL_FLUSH_ALL_ASID or TLB_CONTROL_DO_NOTHING.
TlbAtEntry(v, c) ==
    IF NeedsAsid(v, c) /\ Exhausted(c) THEN [a \in Asid |-> {}] ELSE tlb[c]

VcpuRun(v, c, a, s) ==
    /\ on[v] = c
    /\ guest[c] = None
    /\ AssignAsid(v, c)
    /\ Loads(v, c, a, s)
    /\ guest' = [guest EXCEPT ![c] = v]
    /\ hw' = [hw EXCEPT ![c][v] = [asid |-> a, sregs |-> s]]
    /\ tlb' = [tlb EXCEPT ![c] = [TlbAtEntry(v, c) EXCEPT ![a] = @ \cup {v}]]
    /\ clean' = [clean EXCEPT ![v] = CleanAtEntry(v, c)]
    /\ UNCHANGED <<sregs, cpu, loaded, on, host_gs>>

\* #VMEXIT and the rest of vmrun_vcpu_run: the guest's registers come back, and
\* everything is marked clean.
VmExit(c, s) ==
    /\ guest[c] # None
    /\ guest' = [guest EXCEPT ![c] = None]
    /\ sregs' = [sregs EXCEPT ![guest[c]] = s]
    /\ hw' = [hw EXCEPT ![c][guest[c]] = [asid |-> @.asid, sregs |-> s]]
    /\ clean' = [clean EXCEPT ![guest[c]] = Groups]
    /\ UNCHANGED <<cd, asid_generation, asid, cpu, loaded, on, host_gs, tlb>>

-----------------------------------------------------------------------------
Next ==
    \/ \E c \in CPU : CpuEnable(c)
    \/ \E v \in Vcpu, c \in CPU : VcpuLoad(v, c) \/ SchedIn(v, c)
    \/ \E v \in Vcpu : VcpuPut(v) \/ SchedOut(v)
    \/ \E v \in Vcpu, s \in Sregs : SetSregs(v, s)
    \/ \E v \in Vcpu, c \in CPU, a \in Asid, s \in Sregs : VcpuRun(v, c, a, s)
    \/ \E c \in CPU, s \in Sregs : VmExit(c, s)

Spec == Init /\ [][Next]_vars

-----------------------------------------------------------------------------
(* Properties *)

\* A guest never runs under the host's ASID, nor under one for which the TLB of its
\* CPU holds entries of another vCPU, whatever vCPUs ran where before, also when a
\* generation runs out or a CPU is enabled again (vmrun_new_asid).
AsidExclusive ==
    \A c \in CPU : guest[c] # None =>
        /\ asid[guest[c]] # 0
        /\ tlb[c][asid[guest[c]]] = {guest[c]}

\* The guest runs with what its VMCB says: no clean bit lets the processor use an
\* ASID or registers it kept from an earlier run of the vCPU on this CPU.
VmcbCoherent ==
    \A c \in CPU : guest[c] # None =>
        hw[c][guest[c]] = [asid |-> asid[guest[c]], sregs |-> sregs[guest[c]]]

\* The GS base that vmrun_vcpu_run writes back after #VMEXIT is the one of the CPU
\* it runs on, wherever the vCPU was loaded.
HostGsOfThisCpu == \A c \in CPU : guest[c] # None => host_gs[guest[c]] = c

-----------------------------------------------------------------------------
(* What makes the properties inductive *)

\* A thread using a vCPU holds its mutex; a CPU runs one thread; a guest runs where
\* its thread does; the host state was saved where the thread runs; vcpu->cpu is
\* never set.
Placement ==
    /\ \A v \in Vcpu : on[v] # None => v \in loaded /\ host_gs[v] = on[v]
    /\ \A v, w \in Vcpu : on[v] # None /\ on[v] = on[w] => v = w
    /\ \A c \in CPU : guest[c] # None => on[guest[c]] = c
    /\ \A v \in Vcpu : cpu[v] = None

\* ASIDs not handed out yet in this generation have no TLB entries.
UnusedAsids ==
    \A c \in CPU : \A a \in Asid : a >= cd[c].next => tlb[c][a] = {}

\* A vCPU whose generation is its CPU's owns its ASID there.
OwnsAsid ==
    \A v \in Vcpu : on[v] # None /\ asid_generation[v] = cd[on[v]].gen =>
        /\ 0 < asid[v] /\ asid[v] < cd[on[v]].next
        /\ tlb[on[v]][asid[v]] \subseteq {v}

GuestOwnsAsid ==
    \A c \in CPU : guest[c] # None =>
        /\ asid_generation[guest[c]] = cd[c].gen
        /\ guest[c] \in tlb[c][asid[guest[c]]]

\* What is marked clean is what the processor kept, if it kept anything.
CleanIsCurrent ==
    \A v \in Vcpu : on[v] # None /\ hw[on[v]][v] # NotCached =>
        /\ "ASID" \in clean[v] => hw[on[v]][v].asid = asid[v]
        /\ clean[v] \cap SregGroups # {} => hw[on[v]][v].sregs = sregs[v]

\* The inductive invariant.
EntryInv ==
    /\ TypeOK
    /\ Placement
    /\ UnusedAsids
    /\ OwnsAsid
    /\ GuestOwnsAsid
    /\ CleanIsCurrent
    /\ VmcbCoherent

=============================================================================
