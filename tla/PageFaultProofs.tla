-------------------------- MODULE PageFaultProofs --------------------------
(* FaultInv is inductive, for any frames, pages, vCPUs and notifiers. *)
EXTENDS PageFault, FiniteSetTheorems, TLAPS

-----------------------------------------------------------------------------
(* Facts about sptes and open ranges *)

LEMMA NoSpteIsSpte == NoSpte \in Spte /\ NoSpte.bits = {}
  BY DEF NoSpte, Spte

\* What set_spte builds.
LEMMA SetSpteFacts ==
  ASSUME TypeOK, NEW g \in Gfn, NEW p \in HostPte
  PROVE  /\ SetSpte(g, p) \in Spte
         /\ SetSpte(g, p).page = p.page
         /\ p.perm = "ro" => SetSpte(g, p).bits = {}
         /\ gfn_track[g] > 0 => /\ "WRITABLE" \notin SetSpte(g, p).bits
                                /\ ~LocklessWritable(SetSpte(g, p))
<1>1. p.perm \in {"ro", "rw"} /\ p.page \in Page
  BY DEF HostPte
<1>2. gfn_track[g] \in Nat
  BY FaultAssumption DEF TypeOK
<1>3. CASE p.perm = "ro"
  BY <1>1, <1>3 DEF SetSpte, Spte, Bits, LocklessWritable
<1>4. CASE p.perm = "rw" /\ gfn_track[g] > 0
  BY <1>1, <1>4 DEF SetSpte, Spte, Bits, LocklessWritable
<1>5. CASE p.perm = "rw" /\ gfn_track[g] = 0
  BY <1>1, <1>5 DEF SetSpte, Spte, Bits, LocklessWritable
<1> QED
  BY <1>1, <1>2, <1>3, <1>4, <1>5

LEMMA OpenFinite == IsFiniteSet(OpenRanges)
  BY FaultAssumption, FS_Subset DEF OpenRanges

\* A fault sees a count of 0 only when no range is open.
LEMMA CountZero ==
  ASSUME CountExact, mmu_notifier_count = 0
  PROVE  \A n \in Notifier : open[n] = {}
<1>1. OpenRanges = {}
  BY OpenFinite, FS_EmptySet DEF CountExact
<1> QED
  BY <1>1 DEF OpenRanges

LEMMA CountPositive ==
  ASSUME CountExact, NEW n \in Notifier, open[n] # {}
  PROVE  mmu_notifier_count # 0
  BY CountZero

LEMMA InitInv == Init => FaultInv
<1> SUFFICES ASSUME Init PROVE FaultInv
  OBVIOUS
<1>1. TypeOK
  BY FaultAssumption, NoSpteIsSpte DEF Init, TypeOK, NoTracker, NoFault
<1>2. CountExact
  <2>1. OpenRanges = {}
    BY DEF Init, OpenRanges
  <2> QED
    BY <2>1, FS_EmptySet DEF Init, CountExact
<1>3. OpenUnmapped /\ FaultSeen /\ FastSeen /\ TrackerSeen
  BY DEF Init, OpenUnmapped, FaultSeen, FastSeen, TrackerSeen, NoFault
<1>4. SptesBacked /\ TrackedReadOnly
  BY DEF Init, SptesBacked, Backed, TrackedReadOnly
<1> QED
  BY <1>1, <1>2, <1>3, <1>4 DEF FaultInv

-----------------------------------------------------------------------------
(* The notifier *)

LEMMA RangeStartInv ==
  ASSUME FaultInv, NEW n \in Notifier, NEW range \in (SUBSET Gfn) \ {{}},
         RangeStart(n, range)
  PROVE  FaultInv'
<1> USE DEF FaultInv, RangeStart
<1>1. TypeOK'
  BY NoSpteIsSpte DEF TypeOK
<1>2. CountExact' /\ mmu_notifier_count' # 0
  <2>1. OpenRanges' = OpenRanges \cup {n} /\ n \notin OpenRanges
    BY DEF OpenRanges, TypeOK
  <2>2. Cardinality(OpenRanges') = Cardinality(OpenRanges) + 1
    BY <2>1, OpenFinite, FS_AddElement
  <2>3. mmu_notifier_count \in Nat /\ mmu_notifier_count' = mmu_notifier_count + 1
    BY DEF TypeOK
  <2> QED
    BY ONLY <2>2, <2>3, CountExact DEF CountExact
<1>3. OpenUnmapped'
  BY DEF OpenUnmapped, TypeOK
<1>4. FaultSeen' /\ FastSeen' /\ TrackerSeen'
  BY <1>2 DEF FaultSeen, FastSeen, TrackerSeen, Retry, LockFree
<1>5. SptesBacked' /\ TrackedReadOnly'
  BY NoSpteIsSpte DEF SptesBacked, Backed, TrackedReadOnly, LocklessWritable
<1> QED
  BY <1>1, <1>2, <1>3, <1>4, <1>5

LEMMA RangeEndInv ==
  ASSUME FaultInv, NEW n \in Notifier, RangeEnd(n)
  PROVE  FaultInv'
<1> USE DEF FaultInv, RangeEnd
<1>1. CountExact' /\ mmu_notifier_count' \in Nat
  <2>1. OpenRanges' = OpenRanges \ {n} /\ n \in OpenRanges
    BY DEF OpenRanges, TypeOK
  <2>2. Cardinality(OpenRanges') = Cardinality(OpenRanges) - 1
    BY <2>1, OpenFinite, FS_RemoveElement
  <2>3. mmu_notifier_count # 0
    BY CountPositive
  <2>4. mmu_notifier_count \in Nat /\ mmu_notifier_count' = mmu_notifier_count - 1
    BY DEF TypeOK
  <2> QED
    BY ONLY <2>2, <2>3, <2>4, CountExact DEF CountExact
<1>2. TypeOK'
  BY <1>1, FaultAssumption DEF TypeOK
<1>3. OpenUnmapped'
  BY DEF OpenUnmapped, TypeOK
<1>4. FaultSeen'
  BY FaultAssumption DEF FaultSeen, Retry, TypeOK
<1>5. FastSeen' /\ TrackerSeen' /\ SptesBacked' /\ TrackedReadOnly'
  BY DEF FastSeen, TrackerSeen, SptesBacked, Backed, TrackedReadOnly
<1> QED
  BY <1>1, <1>2, <1>3, <1>4, <1>5

LEMMA HostChangeInv ==
  ASSUME FaultInv, NEW n \in Notifier, NEW g \in Gfn, NEW new \in HostPte \cup {None},
         HostChange(n, g, new)
  PROVE  FaultInv'
<1> USE DEF FaultInv, HostChange
<1>1. TypeOK'
  BY DEF TypeOK
<1>2. mmu_notifier_count # 0 /\ spte[g] = NoSpte
  BY CountPositive DEF OpenUnmapped
<1>3. CountExact' /\ OpenUnmapped'
  BY DEF CountExact, OpenRanges, OpenUnmapped
<1>4. FaultSeen'
  BY <1>2 DEF FaultSeen, Retry
<1>5. FastSeen' /\ TrackerSeen' /\ TrackedReadOnly'
  BY DEF FastSeen, TrackerSeen, TrackedReadOnly
<1>6. SptesBacked'
  BY <1>2 DEF SptesBacked, Backed, TypeOK
<1> QED
  BY <1>1, <1>3, <1>4, <1>5, <1>6

LEMMA ChangePteInv ==
  ASSUME FaultInv, NEW g \in Gfn, NEW new \in HostPte, ChangePte(g, new)
  PROVE  FaultInv'
<1> USE DEF FaultInv, ChangePte
<1>0. new.perm \in {"ro", "rw"} /\ new.page \in Page
  BY DEF HostPte
<1>1. \/ spte'[g] = NoSpte
      \/ /\ spte'[g] = [page |-> new.page,
                        bits |-> spte[g].bits \ {"WRITABLE", "HOST_WRITEABLE"}]
         /\ spte[g] # NoSpte
  BY DEF SetPteRmapp, TypeOK
<1>2. spte[g].bits \subseteq Bits
  BY NoSpteIsSpte DEF TypeOK, Spte
<1>3. TypeOK'
  <2>1. spte'[g] \in Spte
    BY <1>0, <1>1, <1>2, NoSpteIsSpte DEF Spte
  <2>2. spte' \in [Gfn -> Spte]
    BY <2>1 DEF TypeOK
  <2>3. pte' \in [Gfn -> HostPte \cup {None}] /\ mmu_notifier_seq' \in 0 .. MaxSeq
    BY FaultAssumption DEF TypeOK
  <2> QED
    BY <2>2, <2>3 DEF TypeOK
<1>4. CountExact'
  BY DEF CountExact, OpenRanges
<1>5. OpenUnmapped'
  BY <1>1 DEF OpenUnmapped, TypeOK
<1>6. FaultSeen'
  BY FaultAssumption DEF FaultSeen, Retry, TypeOK
<1>7. FastSeen' /\ TrackerSeen'
  BY DEF FastSeen, TrackerSeen, LockFree
<1>8. SptesBacked'
  <2>1. Backed(spte[g], g)'
    BY <1>0, <1>1, <1>2, FaultAssumption DEF Backed, TypeOK, HostPte, Bits
  <2>2. \A h \in Gfn : h # g => spte'[h] = spte[h] /\ pte'[h] = pte[h]
    BY DEF TypeOK
  <2> QED
    BY <2>1, <2>2 DEF SptesBacked, Backed
<1>9. TrackedReadOnly'
  BY <1>1, NoSpteIsSpte DEF TrackedReadOnly, LocklessWritable, TypeOK
<1> QED
  BY <1>3, <1>4, <1>5, <1>6, <1>7, <1>8, <1>9

-----------------------------------------------------------------------------
(* Faults.  Only fault[v] changes, and with it at most one pte or spte. *)

\* ReadSeq, GiveUp and FastRead only start or drop a fault: h is the new one.
LEMMA FaultOnly ==
  ASSUME FaultInv, NEW v \in Vcpu, NEW h,
         fault' = [fault EXCEPT ![v] = h],
         h \in [pc : {"idle", "fast", "seq"}, gfn : Gfn \cup {None}, seq : 0 .. MaxSeq,
                pfn : HostPte \cup {None}, seen : Spte],
         h.seq <= mmu_notifier_seq,
         h.pc # "idle" => h.gfn \in Gfn,
         h.pc = "fast" => LocklessWritable(h.seen),
         UNCHANGED <<pte, open, mmu_notifier_count, mmu_notifier_seq, spte, gfn_track,
                     tracker>>
  PROVE  FaultInv'
<1> USE DEF FaultInv
<1>1. TypeOK'
  BY DEF TypeOK
<1>2. /\ fault'[v] = h
      /\ \A w \in Vcpu : w # v => fault'[w] = fault[w]
  BY DEF TypeOK
<1>3. FaultSeen'
  BY <1>2 DEF FaultSeen, Retry
<1>4. FastSeen'
  BY <1>2 DEF FastSeen
<1>5. CountExact' /\ OpenUnmapped' /\ TrackerSeen' /\ SptesBacked' /\ TrackedReadOnly'
  BY DEF CountExact, OpenRanges, OpenUnmapped, TrackerSeen, SptesBacked, Backed,
         TrackedReadOnly
<1> QED
  BY <1>1, <1>3, <1>4, <1>5

LEMMA ReadSeqInv ==
  ASSUME FaultInv, NEW v \in Vcpu, NEW g \in Gfn, ReadSeq(v, g)
  PROVE  FaultInv'
<1> DEFINE h == [pc |-> "seq", gfn |-> g, seq |-> mmu_notifier_seq, pfn |-> None,
                 seen |-> NoSpte]
<1>1. h \in [pc : {"idle", "fast", "seq"}, gfn : Gfn \cup {None}, seq : 0 .. MaxSeq,
             pfn : HostPte \cup {None}, seen : Spte]
  BY NoSpteIsSpte DEF FaultInv, TypeOK
<1>2. h.seq <= mmu_notifier_seq
  BY FaultAssumption DEF FaultInv, TypeOK
<1>3. fault' = [fault EXCEPT ![v] = h]
  BY DEF ReadSeq
<1>4. h.pc = "seq" /\ h.gfn \in Gfn
  OBVIOUS
<1> HIDE DEF h
<1> QED
  BY <1>1, <1>2, <1>3, <1>4, FaultOnly DEF ReadSeq

LEMMA NoFaultFacts ==
  ASSUME TypeOK
  PROVE  /\ NoFault \in [pc : {"idle", "fast", "seq"}, gfn : Gfn \cup {None},
                         seq : 0 .. MaxSeq, pfn : HostPte \cup {None}, seen : Spte]
         /\ NoFault.seq <= mmu_notifier_seq
         /\ NoFault.pc = "idle"
  BY NoSpteIsSpte, FaultAssumption DEF TypeOK, NoFault

LEMMA GiveUpInv ==
  ASSUME FaultInv, NEW v \in Vcpu, GiveUp(v)
  PROVE  FaultInv'
<1>1. TypeOK
  BY DEF FaultInv
<1> QED
  BY <1>1, NoFaultFacts, FaultOnly DEF GiveUp

LEMMA FastReadInv ==
  ASSUME FaultInv, NEW v \in Vcpu, NEW g \in Gfn, FastRead(v, g)
  PROVE  FaultInv'
<1> DEFINE h == [pc |-> "fast", gfn |-> g, seq |-> 0, pfn |-> None, seen |-> spte[g]]
<1>1. h \in [pc : {"idle", "fast", "seq"}, gfn : Gfn \cup {None}, seq : 0 .. MaxSeq,
             pfn : HostPte \cup {None}, seen : Spte]
  BY FaultAssumption DEF FaultInv, TypeOK
<1>2. h.seq <= mmu_notifier_seq
  BY FaultAssumption DEF FaultInv, TypeOK
<1>3. fault' = [fault EXCEPT ![v] = h]
  BY DEF FastRead
<1>4. h.pc = "fast" /\ h.gfn \in Gfn /\ LocklessWritable(h.seen)
  BY DEF FastRead
<1> HIDE DEF h
<1> QED
  BY <1>1, <1>2, <1>3, <1>4, FaultOnly DEF FastRead

LEMMA GfnToPfnInv ==
  ASSUME FaultInv, NEW v \in Vcpu, NEW p \in HostPte, GfnToPfn(v, p)
  PROVE  FaultInv'
<1> DEFINE g == fault[v].gfn
<1> USE DEF FaultInv
<1>1. g \in Gfn /\ fault[v].seq \in 0 .. MaxSeq /\ fault[v].seq <= mmu_notifier_seq
      /\ p # None
  BY FaultAssumption DEF FaultSeen, GfnToPfn, TypeOK, HostPte
<1>2. fault'[v] = [pc |-> "pfn", gfn |-> g, seq |-> fault[v].seq, pfn |-> p,
                   seen |-> NoSpte]
  BY DEF GfnToPfn, TypeOK
<1>3. \A w \in Vcpu : w # v => fault'[w] = fault[w]
  BY DEF GfnToPfn, TypeOK
<1>4. pte'[g] = p /\ (\A h \in Gfn : h # g => pte'[h] = pte[h]) /\ pte[g] \in {None, p}
  BY <1>1 DEF GfnToPfn, TypeOK
<1>5. TypeOK'
  <2>1. fault'[v] \in [pc : {"idle", "fast", "seq", "pfn"}, gfn : Gfn \cup {None},
                       seq : 0 .. MaxSeq, pfn : HostPte \cup {None}, seen : Spte]
    BY <1>1, <1>2, NoSpteIsSpte
  <2>2. fault' \in [Vcpu -> [pc : {"idle", "fast", "seq", "pfn"}, gfn : Gfn \cup {None},
                             seq : 0 .. MaxSeq, pfn : HostPte \cup {None}, seen : Spte]]
    BY <2>1 DEF GfnToPfn, TypeOK
  <2>3. pte' \in [Gfn -> HostPte \cup {None}]
    BY <1>1 DEF GfnToPfn, TypeOK
  <2> QED
    BY <2>2, <2>3 DEF GfnToPfn, TypeOK
<1>6. FaultSeen'
  BY <1>1, <1>2, <1>3, <1>4 DEF FaultSeen, Retry, GfnToPfn
<1>7. FastSeen'
  BY <1>2, <1>3 DEF FastSeen
<1>8. SptesBacked'
  BY <1>1, <1>4 DEF SptesBacked, Backed, GfnToPfn
<1>9. CountExact' /\ OpenUnmapped' /\ TrackerSeen' /\ TrackedReadOnly'
  BY DEF CountExact, OpenRanges, OpenUnmapped, TrackerSeen, TrackedReadOnly, GfnToPfn
<1> QED
  BY <1>5, <1>6, <1>7, <1>8, <1>9

\* MapPage and FastFix end the fault, after at most one write to a spte.
LEMMA FaultEnds ==
  ASSUME FaultInv, NEW v \in Vcpu, fault' = [fault EXCEPT ![v] = NoFault],
         UNCHANGED <<pte, open, mmu_notifier_count, mmu_notifier_seq>>
  PROVE  FaultSeen' /\ FastSeen' /\ CountExact'
<1> USE DEF FaultInv
<1>1. fault'[v] = NoFault /\ \A w \in Vcpu : w # v => fault'[w] = fault[w]
  BY DEF TypeOK
<1>2. TypeOK
  OBVIOUS
<1>3. FaultSeen'
  BY <1>1, <1>2, NoFaultFacts DEF FaultSeen, Retry
<1>4. FastSeen'
  BY <1>1, <1>2, NoFaultFacts DEF FastSeen
<1>5. CountExact'
  BY DEF CountExact, OpenRanges
<1> QED
  BY <1>3, <1>4, <1>5

LEMMA MapPageInv ==
  ASSUME FaultInv, NEW v \in Vcpu, NEW enough \in BOOLEAN, MapPage(v, enough)
  PROVE  FaultInv'
<1> DEFINE g == fault[v].gfn
           p == fault[v].pfn
<1> USE DEF FaultInv
<1>1. FaultSeen' /\ FastSeen' /\ CountExact'
  BY FaultEnds DEF MapPage
<1>2. NoFault \in [pc : {"idle", "fast", "seq", "pfn"}, gfn : Gfn \cup {None},
                   seq : 0 .. MaxSeq, pfn : HostPte \cup {None}, seen : Spte]
  BY NoFaultFacts
<1>3. TrackerSeen'
  BY DEF TrackerSeen, MapPage, LockFree
<1>4. CASE Retry(v) \/ ~enough
  <2>1. UNCHANGED <<pte, open, mmu_notifier_count, spte, gfn_track, tracker>>
    BY <1>4 DEF MapPage
  <2>2. TypeOK'
    BY <2>1, <1>2 DEF TypeOK, MapPage
  <2>3. OpenUnmapped' /\ SptesBacked' /\ TrackedReadOnly'
    BY <2>1 DEF OpenUnmapped, SptesBacked, Backed, TrackedReadOnly
  <2> QED
    BY <1>1, <1>3, <2>2, <2>3
<1>5. CASE ~Retry(v) /\ enough
  <2>1. g \in Gfn /\ p \in HostPte /\ pte[g] = p /\ p # None
    BY <1>5 DEF FaultSeen, MapPage, TypeOK
  <2>2. /\ spte' = [spte EXCEPT ![g] = SetSpte(g, p)]
        /\ UNCHANGED <<pte, open, mmu_notifier_count, mmu_notifier_seq, gfn_track, tracker>>
    BY <1>5 DEF MapPage
  <2>3. spte'[g] = SetSpte(g, p) /\ \A h \in Gfn : h # g => spte'[h] = spte[h]
    BY <2>1, <2>2 DEF TypeOK
  <2>4. /\ SetSpte(g, p) \in Spte
        /\ SetSpte(g, p).page = p.page
        /\ p.perm = "ro" => SetSpte(g, p).bits = {}
        /\ gfn_track[g] > 0 => /\ "WRITABLE" \notin SetSpte(g, p).bits
                               /\ ~LocklessWritable(SetSpte(g, p))
    BY <2>1, SetSpteFacts
  <2> HIDE DEF g, p
  <2>5. TypeOK'
    BY <1>2, <2>1, <2>2, <2>4 DEF TypeOK, MapPage
  <2>6. \A n \in Notifier : open[n] = {}
    BY <1>5, CountZero DEF Retry
  <2>7. OpenUnmapped'
    BY <2>2, <2>6 DEF OpenUnmapped
  <2>8. SptesBacked'
    <3>1. p.perm \in {"ro", "rw"}
      BY <2>1 DEF HostPte
    <3> QED
      BY <2>1, <2>2, <2>3, <2>4, <3>1 DEF SptesBacked, Backed
  <2>9. TrackedReadOnly'
    BY <2>2, <2>3, <2>4 DEF TrackedReadOnly
  <2> QED
    BY <1>1, <1>3, <2>5, <2>7, <2>8, <2>9
<1> QED
  BY <1>4, <1>5

LEMMA FastFixInv ==
  ASSUME FaultInv, NEW v \in Vcpu, FastFix(v)
  PROVE  FaultInv'
<1> DEFINE g == fault[v].gfn
<1> USE DEF FaultInv
<1>1. FaultSeen' /\ FastSeen' /\ CountExact'
  BY FaultEnds DEF FastFix
<1>2. NoFault \in [pc : {"idle", "fast", "seq", "pfn"}, gfn : Gfn \cup {None},
                   seq : 0 .. MaxSeq, pfn : HostPte \cup {None}, seen : Spte]
  BY NoFaultFacts
<1>3. CASE spte[g] # fault[v].seen
  <2>1. UNCHANGED <<pte, open, spte, gfn_track, tracker>>
    BY <1>3 DEF FastFix
  <2>2. TypeOK'
    BY <2>1, <1>2 DEF TypeOK, FastFix
  <2>3. OpenUnmapped' /\ TrackerSeen' /\ SptesBacked' /\ TrackedReadOnly'
    BY <2>1 DEF OpenUnmapped, TrackerSeen, SptesBacked, Backed, TrackedReadOnly
  <2> QED
    BY <1>1, <2>2, <2>3
<1>4. CASE spte[g] = fault[v].seen
  <2>1. g \in Gfn /\ LocklessWritable(spte[g])
    BY <1>4 DEF FaultSeen, FastSeen, FastFix
  <2>2. /\ spte' = [spte EXCEPT ![g] = [page |-> spte[g].page, bits |-> Bits]]
        /\ UNCHANGED <<pte, open, mmu_notifier_count, mmu_notifier_seq, gfn_track, tracker>>
    BY <1>4 DEF FastFix
  <2>3. /\ spte'[g] = [page |-> spte[g].page, bits |-> Bits]
        /\ \A h \in Gfn : h # g => spte'[h] = spte[h]
    BY <2>1, <2>2 DEF TypeOK
  <2>4. spte[g] # NoSpte
    BY <2>1, NoSpteIsSpte DEF LocklessWritable
  <2>5. spte[g].page \in Page /\ spte'[g] \in Spte
    BY <2>1, <2>3, <2>4 DEF TypeOK, Spte, Bits
  <2> HIDE DEF g
  <2>6. TypeOK'
    BY <1>2, <2>1, <2>2, <2>3, <2>5 DEF TypeOK, FastFix
  <2>7. OpenUnmapped'
    BY <2>1, <2>2, <2>3, <2>4 DEF OpenUnmapped, TypeOK
  <2>8. TrackerSeen'
    BY <2>1, <2>2, <2>3 DEF TrackerSeen, TypeOK, LocklessWritable
  <2>9. SptesBacked'
    BY <2>1, <2>2, <2>3, <2>4 DEF SptesBacked, Backed, LocklessWritable, Bits
  <2>10. TrackedReadOnly'
    BY <2>1, <2>2, <2>3 DEF TrackedReadOnly
  <2> QED
    BY <1>1, <2>6, <2>7, <2>8, <2>9, <2>10
<1> QED
  BY <1>3, <1>4

-----------------------------------------------------------------------------
(* Tracking, logging, zapping *)

LEMMA TrackAddInv ==
  ASSUME FaultInv, NEW g \in Gfn, TrackAdd(g)
  PROVE  FaultInv'
<1> USE DEF FaultInv, TrackAdd
<1>1. tracker' = [gfn |-> g, seen |-> spte[g]] /\ spte[g] \in Spte
  BY DEF TypeOK
<1>2. gfn_track' \in [Gfn -> 0 .. MaxTrack]
  BY FaultAssumption DEF TypeOK
<1>3. TypeOK'
  BY <1>1, <1>2 DEF TypeOK
<1>4. CountExact' /\ OpenUnmapped' /\ FastSeen' /\ SptesBacked'
  BY DEF CountExact, OpenRanges, OpenUnmapped, FastSeen, SptesBacked, Backed
<1>5. FaultSeen'
  BY DEF FaultSeen, Retry
<1>6. TrackerSeen'
  BY <1>1 DEF TrackerSeen
<1>7. TrackedReadOnly'
  <2>1. \A h \in Gfn : h # g => gfn_track'[h] = gfn_track[h] /\ tracker.gfn # h
    BY FaultAssumption DEF TypeOK, LockFree, NoTracker
  <2>2. tracker'.gfn = g
    BY <1>1
  <2> QED
    BY <2>1, <2>2 DEF TrackedReadOnly
<1> QED
  BY <1>3, <1>4, <1>5, <1>6, <1>7

LEMMA TrackProtectInv ==
  ASSUME FaultInv, TrackProtect
  PROVE  FaultInv'
<1> DEFINE g == tracker.gfn
           seen == tracker.seen
<1> USE DEF FaultInv
<1>1. g \in Gfn /\ seen \in Spte /\ tracker # NoTracker /\ tracker' = NoTracker
  BY DEF TypeOK, TrackProtect, LockFree
<1>2. UNCHANGED <<pte, open, mmu_notifier_count, mmu_notifier_seq, gfn_track, fault>>
  BY DEF TrackProtect
<1>3. \A h \in Gfn : h # g => spte'[h] = spte[h]
  BY <1>1 DEF TrackProtect, TypeOK
<1>4. CountExact' /\ FastSeen' /\ TrackerSeen'
  BY <1>1, <1>2 DEF CountExact, OpenRanges, FastSeen, TrackerSeen
<1>5. FaultSeen'
  BY <1>2 DEF FaultSeen, Retry
<1>6. NoTracker \in [gfn : Gfn, seen : Spte] \cup {NoTracker} /\ NoTracker.gfn \notin Gfn
  BY FaultAssumption DEF NoTracker
<1>7. CASE "WRITABLE" \in seen.bits \/ LocklessWritable(seen)
  <2>1. /\ spte' = [spte EXCEPT ![g] = WriteProtect(seen)]
        /\ spte'[g] = [page |-> seen.page,
                       bits |-> seen.bits \ {"WRITABLE", "MMU_WRITEABLE"}]
    BY <1>1, <1>7 DEF TrackProtect, WriteProtect, TypeOK
  <2>2. seen # NoSpte /\ seen.page \in Page /\ seen.bits \subseteq Bits
    BY <1>1, <1>7, NoSpteIsSpte DEF Spte, LocklessWritable
  <2>3. spte[g] = seen \/ (LocklessWritable(seen) /\ spte[g] = [page |-> seen.page, bits |-> Bits])
    BY <1>1 DEF TrackerSeen
  <2>4. spte[g] # NoSpte /\ spte[g].page = seen.page /\ seen.bits \subseteq spte[g].bits
    BY <2>2, <2>3, NoSpteIsSpte DEF Bits
  <2> HIDE DEF g, seen
  <2>5. spte'[g] \in Spte
    BY <2>1, <2>2 DEF Spte
  <2>6. TypeOK'
    <3>1. spte' \in [Gfn -> Spte]
      BY <1>1, <2>1, <2>5 DEF TypeOK
    <3> QED
      BY <1>1, <1>2, <1>6, <3>1 DEF TypeOK
  <2>7. OpenUnmapped'
    BY <1>1, <1>2, <1>3, <2>4 DEF OpenUnmapped, TypeOK
  <2>8. SptesBacked'
    <3>1. PICK k \in Gfn : k = g
      BY <1>1
    <3>2. Backed(spte[k], k)
      BY DEF SptesBacked
    <3>3. Backed(spte[k], k)'
      BY <1>2, <2>1, <2>4, <3>1, <3>2 DEF Backed
    <3> QED
      BY <1>2, <1>3, <3>1, <3>3 DEF SptesBacked, Backed
  <2>9. TrackedReadOnly'
    <3>1. "WRITABLE" \notin spte'[g].bits /\ "MMU_WRITEABLE" \notin spte'[g].bits
      BY <2>1
    <3>2. \A h \in Gfn : h # g /\ gfn_track[h] > 0 =>
             "WRITABLE" \notin spte[h].bits /\ ~LocklessWritable(spte[h])
      BY DEF TrackedReadOnly, g
    <3> QED
      BY <1>1, <1>2, <1>3, <3>1, <3>2 DEF TrackedReadOnly, LocklessWritable
  <2> QED
    BY <1>4, <1>5, <2>6, <2>7, <2>8, <2>9
<1>8. CASE ~("WRITABLE" \in seen.bits \/ LocklessWritable(seen))
  <2>1. spte' = spte
    BY <1>8 DEF TrackProtect
  <2>2. spte[g] = seen
    BY <1>1, <1>8 DEF TrackerSeen
  <2>3. TypeOK'
    BY <1>1, <1>2, <1>6, <2>1 DEF TypeOK
  <2>4. OpenUnmapped' /\ SptesBacked'
    BY <1>2, <2>1 DEF OpenUnmapped, SptesBacked, Backed
  <2>5. TrackedReadOnly'
    BY <1>2, <1>8, <2>1, <2>2 DEF TrackedReadOnly
  <2> QED
    BY <1>4, <1>5, <2>3, <2>4, <2>5
<1> QED
  BY <1>7, <1>8

LEMMA TrackRemoveInv ==
  ASSUME FaultInv, NEW g \in Gfn, TrackRemove(g)
  PROVE  FaultInv'
<1> USE DEF FaultInv, TrackRemove
<1>1. gfn_track' \in [Gfn -> 0 .. MaxTrack]
  BY FaultAssumption DEF TypeOK
<1>2. TypeOK'
  BY <1>1 DEF TypeOK
<1>3. \A h \in Gfn : gfn_track'[h] > 0 => gfn_track[h] > 0
  BY FaultAssumption DEF TypeOK
<1>4. TrackedReadOnly'
  BY <1>3 DEF TrackedReadOnly
<1>5. FaultSeen'
  BY DEF FaultSeen, Retry
<1>6. CountExact' /\ OpenUnmapped' /\ FastSeen' /\ TrackerSeen' /\ SptesBacked'
  BY DEF CountExact, OpenRanges, OpenUnmapped, FastSeen, TrackerSeen, SptesBacked, Backed
<1> QED
  BY <1>2, <1>4, <1>5, <1>6

\* A spte that loses bits, or goes, cannot break FaultInv while mmu_lock is held.
LEMMA SpteReduced ==
  ASSUME FaultInv, LockFree, NEW g \in Gfn, NEW s \in Spte,
         spte' = [spte EXCEPT ![g] = s],
         s = NoSpte \/ (spte[g] # NoSpte /\ s.page = spte[g].page /\ s.bits \subseteq spte[g].bits),
         UNCHANGED <<pte, open, mmu_notifier_count, mmu_notifier_seq, gfn_track, tracker,
                     fault>>
  PROVE  FaultInv'
<1> USE DEF FaultInv
<1>1. spte'[g] = s /\ \A h \in Gfn : h # g => spte'[h] = spte[h]
  BY DEF TypeOK
<1>2. TypeOK'
  BY DEF TypeOK
<1>3. FaultSeen'
  BY DEF FaultSeen, Retry
<1>4. CountExact' /\ FastSeen' /\ TrackerSeen'
  BY DEF CountExact, OpenRanges, FastSeen, TrackerSeen, LockFree
<1>5. OpenUnmapped'
  BY <1>1 DEF OpenUnmapped, TypeOK
<1>6. SptesBacked'
  <2>1. Backed(spte[g], g)'
    BY <1>1 DEF SptesBacked, Backed
  <2> QED
    BY <1>1, <2>1 DEF SptesBacked, Backed
<1>7. TrackedReadOnly'
  BY <1>1, NoSpteIsSpte DEF TrackedReadOnly, LocklessWritable
<1> QED
  BY <1>2, <1>3, <1>4, <1>5, <1>6, <1>7

LEMMA LogProtectInv ==
  ASSUME FaultInv, NEW g \in Gfn, LogProtect(g)
  PROVE  FaultInv'
<1> DEFINE s == [page |-> spte[g].page, bits |-> spte[g].bits \ {"WRITABLE"}]
<1>1. spte[g] # NoSpte /\ spte[g] \in Spte
  BY NoSpteIsSpte DEF LogProtect, FaultInv, TypeOK
<1>2. s \in Spte /\ s.page = spte[g].page /\ s.bits \subseteq spte[g].bits
  BY <1>1 DEF Spte
<1>3. spte' = [spte EXCEPT ![g] = s]
  BY DEF LogProtect
<1> HIDE DEF s
<1> QED
  BY <1>1, <1>2, <1>3, SpteReduced DEF LogProtect

LEMMA DropSpteInv ==
  ASSUME FaultInv, NEW g \in Gfn, DropSpte(g)
  PROVE  FaultInv'
  BY NoSpteIsSpte, SpteReduced DEF DropSpte

-----------------------------------------------------------------------------
LEMMA NextInv ==
  ASSUME FaultInv, [Next]_vars PROVE FaultInv'
<1>1. CASE UNCHANGED vars
  BY <1>1 DEF vars, FaultInv, TypeOK, CountExact, OpenRanges, OpenUnmapped, FaultSeen,
              Retry, FastSeen, TrackerSeen, SptesBacked, Backed, TrackedReadOnly
<1>2. CASE NotifierStep
  BY <1>2, RangeStartInv, RangeEndInv, HostChangeInv, ChangePteInv DEF NotifierStep
<1>3. CASE FaultStep
  BY <1>3, ReadSeqInv, FastReadInv, GfnToPfnInv, GiveUpInv, MapPageInv, FastFixInv
     DEF FaultStep
<1>4. CASE ProtectStep
  BY <1>4, TrackProtectInv, TrackAddInv, TrackRemoveInv, LogProtectInv, DropSpteInv
     DEF ProtectStep
<1> QED
  BY <1>1, <1>2, <1>3, <1>4 DEF Next

\* FaultInv holds throughout; the theorems below are its parts.
THEOREM FaultInvariant == Spec => []FaultInv
<1>1. Init => FaultInv
  BY InitInv
<1>2. FaultInv /\ [Next]_vars => FaultInv'
  BY NextInv
<1> QED
  BY <1>1, <1>2, PTL DEF Spec

\* Every variable keeps its type; in particular BUG_ON(mmu_notifier_count < 0) in
\* vmrun_mmu_notifier_invalidate_range_end never fires.
THEOREM FaultTypeOK == Spec => []TypeOK
<1>1. FaultInv => TypeOK
  BY DEF FaultInv
<1> QED
  BY <1>1, FaultInvariant, PTL

\* No spte maps a page the host has taken away or write-protected, however faults,
\* lockless fixes and notifiers interleave.
THEOREM NoStaleSpte == Spec => []SptesBacked
<1>1. FaultInv => SptesBacked
  BY DEF FaultInv
<1> QED
  BY <1>1, FaultInvariant, PTL

\* A frame with a write tracker stays read-only, against the lockless fast path too.
THEOREM TrackedStaysReadOnly == Spec => []TrackedReadOnly
<1>1. FaultInv => TrackedReadOnly
  BY DEF FaultInv
<1> QED
  BY <1>1, FaultInvariant, PTL

=============================================================================
