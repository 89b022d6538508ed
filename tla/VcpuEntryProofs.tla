-------------------------- MODULE VcpuEntryProofs --------------------------
(* EntryInv is inductive, for any CPUs, vCPUs and number of ASIDs. *)
EXTENDS VcpuEntry, TLAPS

LEMMA InitInv == Init => EntryInv
<1> SUFFICES ASSUME Init PROVE EntryInv
  OBVIOUS
<1>1. TypeOK
  BY EntryAssumption DEF Init, TypeOK, FreshCpuData, Asid, NotCached, Groups, SregGroups
<1>2. Placement
  BY DEF Init, Placement
<1>3. UnusedAsids
  BY EntryAssumption DEF Init, UnusedAsids, FreshCpuData, Asid
<1>4. OwnsAsid /\ GuestOwnsAsid /\ VmcbCoherent /\ CleanIsCurrent
  BY DEF Init, OwnsAsid, GuestOwnsAsid, CleanIsCurrent, VmcbCoherent
<1> QED
  BY <1>1, <1>2, <1>3, <1>4 DEF EntryInv

\* Enabling a CPU again restarts its generations, with no ASID to hand out before
\* a flush.
LEMMA CpuEnableInv ==
  ASSUME EntryInv, NEW c \in CPU, CpuEnable(c) PROVE EntryInv'
<1> USE EntryAssumption DEF EntryInv
<1>1. TypeOK'
  BY DEF CpuEnable, TypeOK, FreshCpuData
<1>2. Placement' /\ VmcbCoherent' /\ CleanIsCurrent'
  BY DEF CpuEnable, Placement, VmcbCoherent, CleanIsCurrent
<1>3. UnusedAsids'
  BY DEF CpuEnable, TypeOK, UnusedAsids, FreshCpuData, Asid
<1>4. OwnsAsid' /\ GuestOwnsAsid'
  <2>1. \A v \in Vcpu : on[v] # c
    BY DEF CpuEnable, FreeCpu
  <2>2. \A d \in CPU : d # c => cd'[d] = cd[d]
    BY DEF CpuEnable, TypeOK
  <2>3. \A v \in Vcpu : on[v] # None => on[v] \in CPU /\ on[v] # c
    BY <2>1 DEF TypeOK
  <2>4. guest[c] = None
    BY <2>1 DEF Placement, TypeOK
  <2>5. OwnsAsid'
    BY <2>2, <2>3 DEF CpuEnable, OwnsAsid
  <2>6. GuestOwnsAsid'
    BY <2>2, <2>4 DEF CpuEnable, GuestOwnsAsid
  <2> QED BY <2>5, <2>6
<1> QED
  BY <1>1, <1>2, <1>3, <1>4

\* A vCPU that gets a CPU, by vmrun_vcpu_load or vmrun_sched_in, arrives without a
\* generation and without clean bits.
LEMMA ArriveInv ==
  ASSUME EntryInv, NEW v \in Vcpu, NEW c \in CPU,
         on[v] = None, FreeCpu(c), on' = [on EXCEPT ![v] = c], SvmVcpuLoad(v, c),
         loaded' = loaded \cup {v},
         UNCHANGED <<cd, asid, sregs, guest, hw, tlb>>
  PROVE  EntryInv'
<1> USE EntryAssumption DEF EntryInv
<1>0. c # cpu[v]
  BY DEF Placement
<1>1. TypeOK'
  BY <1>0 DEF SvmVcpuLoad, TypeOK
<1>2. /\ \A w \in Vcpu : w # v => /\ on'[w] = on[w] /\ host_gs'[w] = host_gs[w]
                                  /\ clean'[w] = clean[w]
                                  /\ asid_generation'[w] = asid_generation[w]
      /\ on'[v] = c /\ host_gs'[v] = c /\ clean'[v] = {} /\ asid_generation'[v] = 0
  BY <1>0 DEF SvmVcpuLoad, TypeOK
<1>3. \A d \in CPU : guest[d] # v
  BY DEF Placement
<1>4. Placement'
  BY <1>2, <1>3 DEF Placement, FreeCpu, SvmVcpuLoad, TypeOK
<1>5. UnusedAsids' /\ VmcbCoherent'
  BY DEF UnusedAsids, VmcbCoherent
<1>6. OwnsAsid'
  BY <1>2 DEF OwnsAsid, TypeOK
<1>7. GuestOwnsAsid'
  BY <1>2, <1>3 DEF GuestOwnsAsid, TypeOK
<1>8. CleanIsCurrent'
  BY <1>2 DEF CleanIsCurrent
<1> QED
  BY <1>1, <1>4, <1>5, <1>6, <1>7, <1>8

\* A vCPU that loses its CPU, by vmrun_vcpu_put or vmrun_sched_out.
LEMMA LeaveInv ==
  ASSUME EntryInv, NEW v \in Vcpu, Running(v), on' = [on EXCEPT ![v] = None],
         loaded' \in {loaded, loaded \ {v}},
         UNCHANGED <<cd, asid_generation, asid, sregs, clean, cpu, host_gs, guest, hw, tlb>>
  PROVE  EntryInv'
<1> USE EntryAssumption DEF EntryInv
<1>1. TypeOK'
  BY DEF TypeOK
<1>2. /\ \A w \in Vcpu : w # v => on'[w] = on[w]
      /\ on'[v] = None
  BY DEF TypeOK
<1>3. \A d \in CPU : guest[d] # v
  BY DEF Placement, Running
<1>4. Placement'
  BY <1>2, <1>3 DEF Placement, TypeOK
<1>5. UnusedAsids' /\ VmcbCoherent' /\ GuestOwnsAsid'
  BY DEF UnusedAsids, VmcbCoherent, GuestOwnsAsid
<1>6. OwnsAsid' /\ CleanIsCurrent'
  BY <1>2 DEF OwnsAsid, CleanIsCurrent
<1> QED
  BY <1>1, <1>4, <1>5, <1>6

LEMMA SetSregsInv ==
  ASSUME EntryInv, NEW v \in Vcpu, NEW s \in Sregs, SetSregs(v, s) PROVE EntryInv'
<1> USE EntryAssumption DEF EntryInv
<1>1. TypeOK'
  BY DEF SetSregs, TypeOK, Groups, SregGroups
<1>2. /\ \A w \in Vcpu : w # v => sregs'[w] = sregs[w] /\ clean'[w] = clean[w]
      /\ clean'[v] = clean[v] \ SregGroups
  BY DEF SetSregs, TypeOK
<1>3. \A d \in CPU : guest[d] # v
  BY DEF Placement, SetSregs, Running
<1>4. Placement' /\ UnusedAsids' /\ OwnsAsid' /\ GuestOwnsAsid'
  BY DEF SetSregs, Placement, UnusedAsids, OwnsAsid, GuestOwnsAsid
<1>5. VmcbCoherent'
  BY <1>2, <1>3 DEF SetSregs, VmcbCoherent, TypeOK
<1>6. CleanIsCurrent'
  BY <1>2 DEF SetSregs, CleanIsCurrent
<1> QED
  BY <1>1, <1>4, <1>5, <1>6

\* After #VMEXIT everything is marked clean, and the processor's copy is current.
LEMMA VmExitInv ==
  ASSUME EntryInv, NEW c \in CPU, NEW s \in Sregs, VmExit(c, s) PROVE EntryInv'
<1> USE EntryAssumption DEF EntryInv
<1> DEFINE v == guest[c]
<1>0. v \in Vcpu /\ on[v] = c /\ v # None
  BY DEF VmExit, Placement, TypeOK
<1>1. /\ \A w \in Vcpu : w # v => /\ sregs'[w] = sregs[w] /\ clean'[w] = clean[w]
                                  /\ hw'[c][w] = hw[c][w]
      /\ \A d \in CPU : d # c => hw'[d] = hw[d] /\ guest'[d] = guest[d]
      /\ guest'[c] = None /\ sregs'[v] = s
      /\ hw'[c][v] = [asid |-> asid[v], sregs |-> s]
  <2>1. hw[c][v] = [asid |-> asid[v], sregs |-> sregs[v]]
    BY <1>0 DEF VmcbCoherent
  <2>2. hw'[c] = [hw[c] EXCEPT ![v] = [asid |-> hw[c][v].asid, sregs |-> s]]
    BY <1>0 DEF VmExit, TypeOK
  <2>3. hw'[c][v] = [asid |-> hw[c][v].asid, sregs |-> s]
    BY <1>0, <2>2 DEF TypeOK
  <2>4. hw'[c][v] = [asid |-> asid[v], sregs |-> s]
    BY <2>1, <2>3
  <2> QED
    BY <1>0, <2>2, <2>4 DEF VmExit, TypeOK
<1>2. TypeOK'
  <2>1. hw' \in [CPU -> [Vcpu -> [asid : Asid, sregs : Sregs \cup {None}]]]
    BY <1>0 DEF VmExit, TypeOK
  <2> QED
    BY <1>0, <2>1 DEF VmExit, TypeOK, Groups, SregGroups
<1>3. Placement' /\ UnusedAsids' /\ OwnsAsid'
  BY <1>1 DEF VmExit, Placement, UnusedAsids, OwnsAsid
<1>4. GuestOwnsAsid'
  BY <1>1 DEF VmExit, GuestOwnsAsid
<1>5. VmcbCoherent'
  <2> SUFFICES ASSUME NEW d \in CPU, guest'[d] # None
               PROVE  hw'[d][guest'[d]] = [asid |-> asid[guest'[d]],
                                           sregs |-> sregs'[guest'[d]]]
    BY DEF VmcbCoherent, VmExit
  <2>1. d # c /\ guest'[d] = guest[d] /\ guest[d] # v /\ guest[d] \in Vcpu
    BY <1>0, <1>1 DEF Placement, TypeOK
  <2> QED
    BY <1>1, <2>1 DEF VmcbCoherent
<1>6. CleanIsCurrent'
  <2> SUFFICES ASSUME NEW w \in Vcpu, on[w] # None, hw'[on[w]][w] # NotCached
               PROVE  /\ "ASID" \in clean'[w] => hw'[on[w]][w].asid = asid[w]
                      /\ clean'[w] \cap SregGroups # {} => hw'[on[w]][w].sregs = sregs'[w]
    BY DEF CleanIsCurrent, VmExit
  <2>1. CASE w = v
    BY <1>0, <1>1, <2>1
  <2>2. CASE w # v
    <3>1. on[w] \in CPU /\ on[w] # c
      BY <1>0, <2>2 DEF Placement, TypeOK
    <3> QED
      BY <1>1, <2>2, <3>1 DEF CleanIsCurrent
  <2> QED BY <2>1, <2>2
<1> QED
  BY <1>2, <1>3, <1>4, <1>5, <1>6

\* What vmrun_vcpu_run has in place when it executes VMRUN: the vCPU owns its ASID
\* on this CPU, in a TLB that was flushed if a generation started.
AsidReady(v, c) ==
    /\ cd' \in [CPU -> [gen : 1 .. MaxGen, next : 1 .. MaxAsid + 1]]
    /\ asid' \in [Vcpu -> Asid]
    /\ asid_generation' \in [Vcpu -> 0 .. MaxGen]
    /\ \A d \in CPU : d # c => cd'[d] = cd[d]
    /\ \A w \in Vcpu : w # v => asid'[w] = asid[w]
    /\ \A w \in Vcpu : w # v => asid_generation'[w] = asid_generation[w]
    /\ asid_generation'[v] = cd'[c].gen
    /\ 0 < asid'[v] /\ asid'[v] < cd'[c].next
    /\ TlbAtEntry(v, c)[asid'[v]] \subseteq {v}
    /\ \A a \in Asid : a >= cd'[c].next => TlbAtEntry(v, c)[a] = {}

LEMMA AssignedAsid ==
  ASSUME EntryInv, NEW v \in Vcpu, NEW c \in CPU, on[v] = c, AssignAsid(v, c)
  PROVE  AsidReady(v, c)
<1> USE EntryAssumption DEF EntryInv
<1>0. cd[c] \in [gen : 1 .. MaxGen, next : 1 .. MaxAsid + 1]
  BY DEF TypeOK
<1>1. CASE ~NeedsAsid(v, c)
  <2>1. UNCHANGED <<cd, asid_generation, asid>> /\ TlbAtEntry(v, c) = tlb[c]
    BY <1>1 DEF AssignAsid, TlbAtEntry
  <2>2. on[v] # None /\ asid_generation[v] = cd[on[v]].gen
    BY <1>1 DEF NeedsAsid
  <2>3. /\ 0 < asid[v] /\ asid[v] < cd[c].next
        /\ tlb[c][asid[v]] \subseteq {v}
    BY <2>2 DEF OwnsAsid
  <2> QED
    BY <2>1, <2>2, <2>3 DEF TypeOK, UnusedAsids, AsidReady
<1>2. CASE NeedsAsid(v, c) /\ Exhausted(c)
  <2>1. /\ cd' = [cd EXCEPT ![c] = [gen |-> cd[c].gen + 1, next |-> 2]]
        /\ asid_generation' = [asid_generation EXCEPT ![v] = cd[c].gen + 1]
        /\ asid' = [asid EXCEPT ![v] = 1]
        /\ cd[c].gen + 1 \in 1 .. MaxGen
        /\ TlbAtEntry(v, c) = [a \in Asid |-> {}]
    BY <1>0, <1>2 DEF AssignAsid, NewCpuData, TlbAtEntry
  <2>2. /\ cd'[c] = [gen |-> cd[c].gen + 1, next |-> 2] /\ asid'[v] = 1
        /\ asid_generation'[v] = cd[c].gen + 1
    BY <2>1 DEF TypeOK
  <2>3. 1 \in Asid /\ 2 \in 1 .. MaxAsid + 1
    BY DEF Asid
  <2> QED
    BY <1>2, <2>1, <2>2, <2>3 DEF TypeOK, AsidReady
<1>3. CASE NeedsAsid(v, c) /\ ~Exhausted(c)
  <2>1. /\ cd' = [cd EXCEPT ![c] = [gen |-> cd[c].gen, next |-> cd[c].next + 1]]
        /\ asid_generation' = [asid_generation EXCEPT ![v] = cd[c].gen]
        /\ asid' = [asid EXCEPT ![v] = cd[c].next]
        /\ cd[c].next <= MaxAsid
        /\ TlbAtEntry(v, c) = tlb[c]
    BY <1>0, <1>3 DEF AssignAsid, NewCpuData, TlbAtEntry, Exhausted
  <2>2. /\ cd'[c] = [gen |-> cd[c].gen, next |-> cd[c].next + 1]
        /\ asid'[v] = cd[c].next /\ asid_generation'[v] = cd[c].gen
    BY <1>0, <2>1 DEF TypeOK
  <2>3. cd[c].next \in Asid /\ cd[c].next + 1 \in 1 .. MaxAsid + 1
    BY <1>0, <2>1 DEF Asid
  <2>4. \A a \in Asid : a >= cd[c].next => tlb[c][a] = {}
    BY DEF UnusedAsids
  <2>5. \A a \in Asid : a >= cd'[c].next => tlb[c][a] = {}
    BY <1>0, <2>2, <2>4 DEF Asid
  <2>6. /\ cd' \in [CPU -> [gen : 1 .. MaxGen, next : 1 .. MaxAsid + 1]]
        /\ asid' \in [Vcpu -> Asid]
        /\ asid_generation' \in [Vcpu -> 0 .. MaxGen]
    BY <1>0, <2>1, <2>3 DEF TypeOK
  <2>7. /\ 0 < asid'[v] /\ asid'[v] < cd'[c].next
        /\ asid_generation'[v] = cd'[c].gen
    BY <1>0, <2>2
  <2>8. tlb[c][asid'[v]] = {}
    BY <1>0, <2>2, <2>3, <2>4
  <2> QED
    BY <1>3, <2>1, <2>5, <2>6, <2>7, <2>8 DEF TypeOK, AsidReady
<1> QED
  BY <1>1, <1>2, <1>3

\* The processor takes the current ASID and registers, from memory or its copy.
LEMMA LoadsCurrent ==
  ASSUME EntryInv, NEW v \in Vcpu, NEW c \in CPU, NEW a \in Asid, NEW s \in Sregs,
         on[v] = c, AssignAsid(v, c), Loads(v, c, a, s)
  PROVE  a = asid'[v] /\ s = sregs[v]
<1>1. on[v] # None
  BY EntryAssumption
<1>2. ASSUME hw[c][v] # NotCached, "ASID" \in CleanAtEntry(v, c), a = hw[c][v].asid
      PROVE  a = asid'[v]
  <2>1. ~NeedsAsid(v, c) /\ "ASID" \in clean[v]
    BY <1>2 DEF CleanAtEntry
  <2>2. hw[c][v].asid = asid[v]
    BY <1>1, <1>2, <2>1 DEF EntryInv, CleanIsCurrent
  <2>3. asid' = asid
    BY <2>1 DEF AssignAsid
  <2> QED
    BY <1>2, <2>2, <2>3
<1>3. ASSUME hw[c][v] # NotCached, CleanAtEntry(v, c) \cap SregGroups # {},
             s = hw[c][v].sregs
      PROVE  s = sregs[v]
  <2>1. clean[v] \cap SregGroups # {}
    BY <1>3 DEF CleanAtEntry
  <2>2. hw[c][v].sregs = sregs[v]
    BY <1>1, <1>3, <2>1 DEF EntryInv, CleanIsCurrent
  <2> QED
    BY <1>3, <2>2
<1> QED
  BY <1>2, <1>3 DEF Loads

LEMMA VcpuRunInv ==
  ASSUME EntryInv, NEW v \in Vcpu, NEW c \in CPU, NEW a \in Asid, NEW s \in Sregs,
         VcpuRun(v, c, a, s)
  PROVE  EntryInv'
<1>0. on[v] = c /\ guest[c] = None /\ AssignAsid(v, c) /\ Loads(v, c, a, s) /\ v # None
  BY EntryAssumption DEF VcpuRun
<1>1. a = asid'[v] /\ s = sregs[v]
  BY <1>0, LoadsCurrent
<1>2. AsidReady(v, c)
  BY <1>0, AssignedAsid
<1> USE EntryAssumption DEF EntryInv
<1>3. 0 < a /\ a < cd'[c].next /\ TlbAtEntry(v, c)[a] \subseteq {v}
  BY <1>1, <1>2 DEF AsidReady
<1>4. TlbAtEntry(v, c) \in [Asid -> SUBSET Vcpu]
  BY DEF TlbAtEntry, TypeOK
<1>5. /\ \A d \in CPU : d # c => tlb'[d] = tlb[d] /\ hw'[d] = hw[d] /\ guest'[d] = guest[d]
      /\ \A b \in Asid : b # a => tlb'[c][b] = TlbAtEntry(v, c)[b]
      /\ tlb'[c][a] = TlbAtEntry(v, c)[a] \cup {v}
      /\ guest'[c] = v
      /\ \A w \in Vcpu : w # v => hw'[c][w] = hw[c][w] /\ clean'[w] = clean[w]
      /\ hw'[c][v] = [asid |-> a, sregs |-> s]
  BY <1>4 DEF VcpuRun, TypeOK
<1>6. UNCHANGED <<sregs, cpu, loaded, on, host_gs>>
  BY DEF VcpuRun
<1>7. \A w \in Vcpu : w # v /\ on[w] # None => on[w] \in CPU /\ on[w] # c
  BY <1>0 DEF Placement, TypeOK
<1>8. \A d \in CPU : d # c /\ guest[d] # None => guest[d] \in Vcpu /\ guest[d] # v
  BY <1>0 DEF Placement, TypeOK
<1>9. TypeOK'
  <2>1. hw' \in [CPU -> [Vcpu -> [asid : Asid, sregs : Sregs \cup {None}]]]
    BY DEF VcpuRun, TypeOK
  <2>2. tlb' \in [CPU -> [Asid -> SUBSET Vcpu]]
    BY <1>4 DEF VcpuRun, TypeOK
  <2>3. clean' \in [Vcpu -> SUBSET Groups]
    <3>1. CleanAtEntry(v, c) \subseteq clean[v]
      BY DEF CleanAtEntry
    <3> QED BY <3>1 DEF VcpuRun, TypeOK
  <2>4. guest' \in [CPU -> Vcpu \cup {None}]
    BY DEF VcpuRun, TypeOK
  <2> QED
    BY <1>2, <1>6, <2>1, <2>2, <2>3, <2>4 DEF TypeOK, AsidReady
<1>10. Placement'
  BY <1>0, <1>5, <1>6 DEF Placement
<1>11. UnusedAsids'
  <2> SUFFICES ASSUME NEW d \in CPU, NEW b \in Asid, b >= cd'[d].next
               PROVE  tlb'[d][b] = {}
    BY DEF UnusedAsids
  <2>1. CASE d = c
    <3>1. b # a
      BY <1>2, <1>3, <2>1 DEF Asid, AsidReady
    <3> QED BY <1>2, <1>5, <2>1, <3>1 DEF AsidReady
  <2>2. CASE d # c
    BY <1>2, <1>5, <2>2 DEF UnusedAsids, AsidReady
  <2> QED BY <2>1, <2>2
<1>12. OwnsAsid'
  <2> SUFFICES ASSUME NEW w \in Vcpu, on[w] # None,
                      asid_generation'[w] = cd'[on[w]].gen
               PROVE  /\ 0 < asid'[w] /\ asid'[w] < cd'[on[w]].next
                      /\ tlb'[on[w]][asid'[w]] \subseteq {w}
    BY <1>6 DEF OwnsAsid
  <2>1. CASE w = v
    <3>1. on[w] = c /\ asid'[w] = a /\ tlb'[c][a] \subseteq {v}
      BY <1>0, <1>1, <1>3, <1>5, <2>1
    <3> QED BY <1>3, <2>1, <3>1
  <2>2. CASE w # v
    <3>1. /\ cd'[on[w]] = cd[on[w]] /\ tlb'[on[w]] = tlb[on[w]]
          /\ asid'[w] = asid[w] /\ asid_generation'[w] = asid_generation[w]
      BY <1>2, <1>5, <1>7, <2>2 DEF AsidReady
    <3> QED BY <3>1 DEF OwnsAsid
  <2> QED BY <2>1, <2>2
<1>13. GuestOwnsAsid'
  <2> SUFFICES ASSUME NEW d \in CPU, guest'[d] # None
               PROVE  /\ asid_generation'[guest'[d]] = cd'[d].gen
                      /\ guest'[d] \in tlb'[d][asid'[guest'[d]]]
    BY DEF GuestOwnsAsid
  <2>1. CASE d = c
    BY <1>1, <1>2, <1>5, <2>1 DEF AsidReady
  <2>2. CASE d # c
    BY <1>2, <1>5, <1>8, <2>2 DEF GuestOwnsAsid, AsidReady
  <2> QED BY <2>1, <2>2
<1>14. VmcbCoherent'
  <2> SUFFICES ASSUME NEW d \in CPU, guest'[d] # None
               PROVE  hw'[d][guest'[d]] = [asid |-> asid'[guest'[d]],
                                           sregs |-> sregs[guest'[d]]]
    BY <1>6 DEF VmcbCoherent
  <2>1. CASE d = c
    BY <1>1, <1>5, <2>1
  <2>2. CASE d # c
    <3>1. guest'[d] = guest[d] /\ hw'[d] = hw[d] /\ asid'[guest[d]] = asid[guest[d]]
      BY <1>2, <1>5, <1>8, <2>2 DEF AsidReady
    <3> QED BY <3>1 DEF VmcbCoherent
  <2> QED BY <2>1, <2>2
<1>15. CleanIsCurrent'
  <2> SUFFICES ASSUME NEW w \in Vcpu, on[w] # None, hw'[on[w]][w] # NotCached
               PROVE  /\ "ASID" \in clean'[w] => hw'[on[w]][w].asid = asid'[w]
                      /\ clean'[w] \cap SregGroups # {} => hw'[on[w]][w].sregs = sregs[w]
    BY <1>6 DEF CleanIsCurrent
  <2>1. CASE w = v
    BY <1>0, <1>1, <1>5, <2>1
  <2>2. CASE w # v
    <3>1. /\ hw'[on[w]][w] = hw[on[w]][w] /\ clean'[w] = clean[w] /\ asid'[w] = asid[w]
      BY <1>2, <1>5, <1>7, <2>2 DEF AsidReady
    <3> QED BY <3>1 DEF CleanIsCurrent
  <2> QED BY <2>1, <2>2
<1> QED
  BY <1>9, <1>10, <1>11, <1>12, <1>13, <1>14, <1>15

LEMMA NextInv == EntryInv /\ [Next]_vars => EntryInv'
<1> SUFFICES ASSUME EntryInv, [Next]_vars PROVE EntryInv'
  OBVIOUS
<1>1. ASSUME NEW c \in CPU, CpuEnable(c) PROVE EntryInv'
  BY <1>1, CpuEnableInv
<1>2. ASSUME NEW v \in Vcpu, NEW c \in CPU, VcpuLoad(v, c) PROVE EntryInv'
  <2>1. on[v] = None
    BY <1>2 DEF VcpuLoad, EntryInv, Placement
  <2> QED BY <1>2, <2>1, ArriveInv DEF VcpuLoad
<1>3. ASSUME NEW v \in Vcpu, NEW c \in CPU, SchedIn(v, c) PROVE EntryInv'
  <2>1. loaded' = loaded \cup {v}
    BY <1>3 DEF SchedIn
  <2> QED BY <1>3, <2>1, ArriveInv DEF SchedIn
<1>4. ASSUME NEW v \in Vcpu, VcpuPut(v) \/ SchedOut(v) PROVE EntryInv'
  BY <1>4, LeaveInv DEF VcpuPut, SchedOut
<1>5. ASSUME NEW v \in Vcpu, NEW s \in Sregs, SetSregs(v, s) PROVE EntryInv'
  BY <1>5, SetSregsInv
<1>6. ASSUME NEW v \in Vcpu, NEW c \in CPU, NEW a \in Asid, NEW s \in Sregs,
             VcpuRun(v, c, a, s)
      PROVE  EntryInv'
  BY <1>6, VcpuRunInv
<1>7. ASSUME NEW c \in CPU, NEW s \in Sregs, VmExit(c, s) PROVE EntryInv'
  BY <1>7, VmExitInv
<1>8. CASE UNCHANGED vars
  BY <1>8 DEF vars, EntryInv, TypeOK, Placement, UnusedAsids, OwnsAsid, GuestOwnsAsid,
              CleanIsCurrent, VmcbCoherent
<1> QED
  BY <1>1, <1>2, <1>3, <1>4, <1>5, <1>6, <1>7, <1>8 DEF Next

LEMMA SpecInv == Spec => []EntryInv
  BY InitInv, NextInv, PTL DEF Spec

\* The ASID data of a CPU and the state of the vCPUs keep their ranges.
THEOREM EntryTypeOK == Spec => []TypeOK
<1>1. EntryInv => TypeOK
  BY DEF EntryInv
<1> QED
  BY <1>1, SpecInv, PTL

\* No two vCPUs share TLB entries: when vmrun_vcpu_run enters the guest, only this
\* vCPU has entries under its ASID on this CPU.
THEOREM AsidExclusion == Spec => []AsidExclusive
<1>1. EntryInv => AsidExclusive
  <2> SUFFICES ASSUME EntryInv, NEW c \in CPU, guest[c] # None
               PROVE  asid[guest[c]] # 0 /\ tlb[c][asid[guest[c]]] = {guest[c]}
    BY DEF AsidExclusive
  <2>1. guest[c] \in Vcpu /\ on[guest[c]] = c /\ c # None
    BY EntryAssumption DEF EntryInv, TypeOK, Placement
  <2>2. /\ asid_generation[guest[c]] = cd[c].gen
        /\ guest[c] \in tlb[c][asid[guest[c]]]
    BY DEF EntryInv, GuestOwnsAsid
  <2>3. /\ 0 < asid[guest[c]]
        /\ tlb[c][asid[guest[c]]] \subseteq {guest[c]}
    BY <2>1, <2>2 DEF EntryInv, OwnsAsid
  <2>4. asid[guest[c]] # 0
    BY <2>3
  <2> QED
    BY <2>2, <2>3, <2>4
<1> QED
  BY <1>1, SpecInv, PTL

\* The clean bits never make the processor run a guest with fields of its VMCB that
\* an ioctl, a new ASID or a run on another CPU replaced.
THEOREM CleanBits == Spec => []VmcbCoherent
<1>1. EntryInv => VmcbCoherent
  BY DEF EntryInv
<1> QED
  BY <1>1, SpecInv, PTL

\* After #VMEXIT, vmrun_vcpu_run restores the GS base of the CPU it runs on.
THEOREM HostGs == Spec => []HostGsOfThisCpu
<1>1. EntryInv => HostGsOfThisCpu
  BY EntryAssumption DEF EntryInv, TypeOK, Placement, HostGsOfThisCpu
<1> QED
  BY <1>1, SpecInv, PTL

=============================================================================
