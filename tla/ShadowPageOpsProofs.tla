------------------------ MODULE ShadowPageOpsProofs -------------------------
(***************************************************************************)
(* What the functions of mmu.c do to the shadow pages of a VM, for any     *)
(* pool of page structures and any tables and entries: the lemmas that the *)
(* proofs about ShadowPages rest on.                                       *)
(*                                                                         *)
(* Most functions change the pages through several others, so the proof    *)
(* goes function by function: what each does to the fields (the lemmas     *)
(* ...Is), then that it keeps the pages consistent (...Keep, ...Keeps,     *)
(* ...Reduces).                                                            *)
(***************************************************************************)
EXTENDS ShadowPages, TLAPS

\* The pages of a VM, field by field; the counts are integers until they are shown
\* exact.
MmuType ==
    [active : SUBSET Sp, older : SUBSET (Sp \X Sp), zapped : SUBSET Sp,
     key : [Sp -> Tables \cup {NoKey}], gen : [Sp -> Nat],
     invalid : SUBSET Sp, unsync : SUBSET Sp, roots : [Sp -> Int],
     spt : [Sp -> [Slots -> Sp \cup {None}]], bits : [Sp -> SUBSET Slots],
     used : Int, valid : Nat, writable : SUBSET Gfns, reload : SUBSET Vcpus]

-----------------------------------------------------------------------------
(* The inductive invariant.                                                *)

\* What counting the pages of a list and the vCPUs of a root rests on: there are
\* finitely many of both.
Counting ==
    /\ \A S \in SUBSET Sp : Cardinality(S) \in Nat
    /\ \A S \in SUBSET Sp, T \in SUBSET Sp :
          T \subseteq S => Cardinality(S \ T) = Cardinality(S) - Cardinality(T)
    /\ \A S \in SUBSET Sp, p \in Sp :
          p \notin S => Cardinality(S \cup {p}) = Cardinality(S) + 1
    /\ \A V \in SUBSET Vcpus : V # {} => Cardinality(V) # 0

\* A page is on one list at most, an unsync page is in use and usable, and the
\* count is the length of the active list.
Lists(m) ==
    /\ m.zapped \subseteq m.invalid \ m.active
    /\ m.invalid \subseteq Allocated(m)
    /\ m.unsync \subseteq m.active \ m.invalid
    /\ m.used = Cardinality(m.active)

\* A page on a list shadows a table; only leaves go unsync and they have no
\* marked entry.
Levels(m) ==
    /\ \A p \in Allocated(m) : m.key[p] \in Tables
    /\ \A p \in m.unsync : Level(m, p) = 1
    /\ \A p \in Allocated(m) : Level(m, p) = 1 => m.bits[p] = {}

\* A page structure that is free is clean.
Clean(m) ==
    \A p \in Sp \ Allocated(m) : m.bits[p] = {}

\* Entries lead from a page in use to a usable page of the next level.
Links(m) ==
    \A p \in Sp, i \in Slots :
        m.spt[p][i] # None =>
            /\ p \in m.active
            /\ m.spt[p][i] \in m.active \ m.invalid
            /\ Level(m, m.spt[p][i]) = Level(m, p) - 1

\* An entry to a page that is out of step, or has a marked entry, is marked.
Marks(m) ==
    \A p \in Sp, i \in Slots :
        /\ m.spt[p][i] # None
        /\ m.spt[p][i] \in m.unsync \/ m.bits[m.spt[p][i]] # {}
        => i \in m.bits[p]

\* A table has at most one usable page.
Unique(m) == \A p, q \in ValidSp(m) : m.key[p] = m.key[q] => p = q

\* What the guest may write is shadowed by unsync leaves only.
Protected(m) ==
    \A p \in ValidSp(m) :
        m.key[p].gfn \in m.writable => Level(m, p) = 1 /\ p \in m.unsync

\* The active list is a list of active pages, from which a usable page of a
\* generation is never met before one of an older generation.
Ages(m) ==
    /\ m.older \subseteq m.active \X m.active
    /\ \A p \in Sp : m.gen[p] <= m.valid
    /\ m.valid <= MaxGen
    /\ \A p, q \in Sp : <<p, q>> \in m.older /\ q \notin m.invalid => m.gen[p] <= m.gen[q]

\* All that holds of the pages whenever a function that changes them returns.
MmuInv(m) ==
    /\ Counting /\ m \in MmuType
    /\ Lists(m) /\ Levels(m) /\ Clean(m) /\ Links(m) /\ Marks(m)
    /\ Unique(m) /\ Protected(m) /\ Ages(m)

\* The vCPUs' roots are counted, in use, at the top level, and asked to reload when
\* not usable.
RootInv(m, rt) ==
    /\ rt \in [Vcpus -> Sp \cup {None}]
    /\ \A p \in Sp : m.roots[p] = Cardinality({v \in Vcpus : rt[v] = p})
    /\ \A v \in Vcpus : rt[v] # None => rt[v] \in m.active /\ Level(m, rt[v]) = RootLevel
    /\ \A v \in Vcpus : rt[v] # None /\ rt[v] \notin ValidSp(m) => v \in m.reload

\* A fault walks under mmu_lock, on a page in use.
ThreadInv ==
    /\ n_max \in Nat
    /\ pc \in [Threads -> {"idle", "fault", "sync", "zap"}]
    /\ lock \in Threads \cup {None}
    /\ batch \in 0..Batch
    /\ walk \in Sp \cup {None}
    /\ \A t \in Threads : pc[t] = "fault" => lock = t /\ walk # None
    /\ walk # None => lock # None /\ pc[lock] = "fault" /\ walk \in mmu.active

\* The count passes the limit by less than the levels below the root, and while a
\* fault walks it has left room for each level it has still to allocate.
LimitInv ==
    /\ mmu.used <= n_max + RootLevel - 2
    /\ walk # None => mmu.used <= n_max - 1 + RootLevel - Level(mmu, walk)

\* The inductive invariant of the specification.
ShadowInv == MmuInv(mmu) /\ RootInv(mmu, root) /\ ThreadInv /\ LimitInv

-----------------------------------------------------------------------------
(* What the operators do to each field.                                   *)

\* Unmark changes the marks of S and nothing else.
LEMMA UnmarkIs ==
    ASSUME NEW m \in MmuType, NEW S \in SUBSET Sp
    PROVE  /\ Unmark(m, S) \in MmuType
           /\ Unmark(m, S).bits = [p \in Sp |-> IF p \in S THEN {} ELSE m.bits[p]]
           /\ Unmark(m, S).active = m.active
           /\ Unmark(m, S).older = m.older
           /\ Unmark(m, S).zapped = m.zapped
           /\ Unmark(m, S).key = m.key
           /\ Unmark(m, S).gen = m.gen
           /\ Unmark(m, S).invalid = m.invalid
           /\ Unmark(m, S).unsync = m.unsync
           /\ Unmark(m, S).roots = m.roots
           /\ Unmark(m, S).spt = m.spt
           /\ Unmark(m, S).used = m.used
           /\ Unmark(m, S).valid = m.valid
           /\ Unmark(m, S).writable = m.writable
           /\ Unmark(m, S).reload = m.reload
BY Zenon DEF MmuType, Unmark

\* The pages of Z that are some root and stay on the list, and those that leave it.
Kept(m, Z) == {p \in Z : m.roots[p] # 0}
Gone(m, Z) == {p \in Z : m.roots[p] = 0}

\* The tail of vmrun_mmu_prepare_zap_page, field by field.
LEMMA ZapSelfIs ==
    ASSUME Counting, NEW m \in MmuType, NEW Z \in SUBSET Sp
    PROVE  /\ ZapSelf(m, Z).spt = Unlink(m.spt, Z)
           /\ ZapSelf(m, Z).unsync = m.unsync \ Z
           /\ ZapSelf(m, Z).invalid = m.invalid \cup Z
           /\ ZapSelf(m, Z).active = m.active \ Gone(m, Z)
           /\ ZapSelf(m, Z).older = Moved(m, Gone(m, Z), Kept(m, Z))
           /\ ZapSelf(m, Z).zapped = m.zapped \cup Gone(m, Z)
           /\ ZapSelf(m, Z).used = m.used - Cardinality(Gone(m, Z))
           /\ ZapSelf(m, Z).reload = m.reload \cup ReloadAfterZap(m, Kept(m, Z))
           /\ ZapSelf(m, Z).key = m.key
           /\ ZapSelf(m, Z).gen = m.gen
           /\ ZapSelf(m, Z).roots = m.roots
           /\ ZapSelf(m, Z).bits = m.bits
           /\ ZapSelf(m, Z).valid = m.valid
           /\ ZapSelf(m, Z).writable = m.writable
           /\ ZapSelf(m, Z) \in MmuType
<1> DEFINE gone == Gone(m, Z)  kept == Kept(m, Z)
           f1 == Unlink(m.spt, Z)  f2 == m.unsync \ Z  f3 == m.invalid \cup Z
           f4 == m.active \ gone  f5 == Moved(m, gone, kept)  f6 == m.zapped \cup gone
           f7 == m.used - Cardinality(gone)
           f8 == m.reload \cup ReloadAfterZap(m, kept)
<1>1. /\ m.active \in SUBSET Sp /\ m.older \in SUBSET (Sp \X Sp) /\ m.zapped \in SUBSET Sp
      /\ m.spt \in [Sp -> [Slots -> Sp \cup {None}]]
      /\ m.invalid \in SUBSET Sp /\ m.unsync \in SUBSET Sp /\ m.used \in Int
      /\ m.reload \in SUBSET Vcpus
      /\ m.key \in [Sp -> Tables \cup {NoKey}] /\ m.gen \in [Sp -> Nat]
      /\ m.roots \in [Sp -> Int] /\ m.bits \in [Sp -> SUBSET Slots]
      /\ m.valid \in Nat /\ m.writable \in SUBSET Gfns
  BY Zenon DEF MmuType
<1>2. gone \in SUBSET Sp /\ kept \in SUBSET Sp
  BY Zenon DEF Gone, Kept
<1>3. Cardinality(gone) \in Nat
  BY <1>2, Zenon DEF Counting
<1>4. f1 \in [Sp -> [Slots -> Sp \cup {None}]]
  BY <1>1 DEF Unlink
<1>5. f5 \in SUBSET (Sp \X Sp)
  BY <1>1, Zenon DEF Moved
<1>6. f8 \in SUBSET Vcpus
  BY <1>1, Zenon DEF ReloadAfterZap, ReloadRemoteMmus
<1>7. f2 \in SUBSET Sp /\ f3 \in SUBSET Sp /\ f4 \in SUBSET Sp /\ f6 \in SUBSET Sp /\ f7 \in Int
  BY <1>1, <1>2, <1>3
<1>8. ZapSelf(m, Z) = [m EXCEPT !.spt = f1, !.unsync = f2, !.invalid = f3, !.active = f4,
                                !.older = f5, !.zapped = f6, !.used = f7, !.reload = f8]
  <2>1. Z \ kept = gone
    BY <1>1, Zenon DEF Gone, Kept
  <2> QED
    BY <2>1, Zenon DEF ZapSelf, Kept
<1> HIDE DEF f1, f2, f3, f4, f5, f6, f7, f8
<1>9. ZapSelf(m, Z) =
          [active |-> f4, older |-> f5, zapped |-> f6, key |-> m.key, gen |-> m.gen,
           invalid |-> f3, unsync |-> f2, roots |-> m.roots, spt |-> f1, bits |-> m.bits,
           used |-> f7, valid |-> m.valid, writable |-> m.writable, reload |-> f8]
  BY <1>8, ZenonT(60) DEF MmuType
<1>10. ZapSelf(m, Z) \in MmuType
  BY <1>1, <1>4, <1>5, <1>6, <1>7, <1>9 DEF MmuType
<1> QED
  BY <1>9, <1>10 DEF f1, f2, f3, f4, f5, f6, f7, f8

-----------------------------------------------------------------------------
(* The walks over marked entries.                                          *)

\* The entries the walk follows, page by page.
LEMMA MarkedPtesIs ==
    ASSUME NEW m \in MmuType
    PROVE  /\ \A e \in MarkedPtes(m) :
                 /\ e = <<e[1], e[2]>>
                 /\ e[1] \in Sp /\ e[2] \in m.bits[e[1]] /\ e[2] \in Slots
                 /\ m.spt[e[1]][e[2]] \in Sp
           /\ \A p \in Sp : \A i \in m.bits[p] :
                 m.spt[p][i] # None => <<p, i>> \in MarkedPtes(m)
<1>1. m.bits \in [Sp -> SUBSET Slots] /\ m.spt \in [Sp -> [Slots -> Sp \cup {None}]]
  BY Zenon DEF MmuType
<1>2. ASSUME NEW e \in MarkedPtes(m)
      PROVE  /\ e = <<e[1], e[2]>>
             /\ e[1] \in Sp /\ e[2] \in m.bits[e[1]] /\ e[2] \in Slots
             /\ m.spt[e[1]][e[2]] \in Sp
  <2>1. PICK p \in Sp : e \in {p} \X m.bits[p]
    BY <1>2, Zenon DEF MarkedPtes
  <2>2. m.spt[e[1]][e[2]] # None
    BY <1>2, Zenon DEF MarkedPtes
  <2> QED
    BY <1>1, <2>1, <2>2
<1>3. ASSUME NEW p \in Sp, NEW i \in m.bits[p], m.spt[p][i] # None
      PROVE  <<p, i>> \in MarkedPtes(m)
  <2>1. <<p, i>> \in {p} \X m.bits[p] /\ <<p, i>>[1] = p /\ <<p, i>>[2] = i
    BY <1>3, Zenon
  <2>2. <<p, i>> \in UNION {{q} \X m.bits[q] : q \in Sp}
    BY <2>1, Zenon
  <2> QED
    BY <1>3, <2>1, <2>2, Zenon DEF MarkedPtes
<1> QED
  BY <1>2, <1>3, Zenon

\* T holds what the marked entries of its pages point to.
Follows(m, T) ==
    \A p \in T : \A i \in m.bits[p] : m.spt[p][i] # None => m.spt[p][i] \in T

\* What the walk from S meets is the least set of pages that holds S and what
\* the marked entries of its pages point to.
LEMMA BelowIs ==
    ASSUME NEW m \in MmuType, NEW S \in SUBSET Sp
    PROVE  /\ Below(m, S) \in SUBSET Sp
           /\ S \subseteq Below(m, S)
           /\ Follows(m, Below(m, S))
           /\ \A T \in SUBSET Sp : S \subseteq T /\ Follows(m, T) => Below(m, S) \subseteq T
<1> DEFINE closed == {T \in SUBSET Sp :
                        /\ S \subseteq T
                        /\ \A e \in MarkedPtes(m) : e[1] \in T => m.spt[e[1]][e[2]] \in T}
<1>1. Below(m, S) = {p \in Sp : \A T \in closed : p \in T}
  BY Zenon DEF Below
<1>2. \A T \in SUBSET Sp : S \subseteq T /\ Follows(m, T) => T \in closed
  <2> SUFFICES ASSUME NEW T \in SUBSET Sp, S \subseteq T, Follows(m, T),
                      NEW e \in MarkedPtes(m), e[1] \in T
               PROVE  m.spt[e[1]][e[2]] \in T
    BY Zenon
  <2>1. e[2] \in m.bits[e[1]] /\ m.spt[e[1]][e[2]] \in Sp
    BY MarkedPtesIs, Zenon
  <2>2. m.spt[e[1]][e[2]] # None
    BY <2>1, ShadowAssumption, Zenon
  <2> QED
    BY <2>1, <2>2, Zenon DEF Follows
<1>3. S \subseteq Below(m, S)
  BY <1>1, Zenon
<1>4. ASSUME NEW p \in Below(m, S), NEW i \in m.bits[p], m.spt[p][i] # None
      PROVE  m.spt[p][i] \in Below(m, S)
  <2>1. p \in Sp
    BY <1>1, <1>4, Zenon
  <2>2. <<p, i>> \in MarkedPtes(m)
    BY <1>4, <2>1, MarkedPtesIs, Zenon
  <2>3. m.spt[p][i] \in Sp
    BY <2>2, MarkedPtesIs, Zenon
  <2>4. \A T \in closed : m.spt[p][i] \in T
    <3> SUFFICES ASSUME NEW T \in closed PROVE m.spt[p][i] \in T
      BY Zenon
    <3>1. p \in T
      BY <1>1, <1>4, Zenon
    <3>2. \A e \in MarkedPtes(m) : e[1] \in T => m.spt[e[1]][e[2]] \in T
      BY Zenon
    <3>3. <<p, i>>[1] = p /\ <<p, i>>[2] = i
      BY Zenon
    <3> QED
      BY <2>2, <3>1, <3>2, <3>3, Zenon
  <2> QED
    BY <1>1, <2>3, <2>4, ZenonT(60)
<1>5. Below(m, S) \in SUBSET Sp
  BY <1>1, Zenon
<1> QED
  BY <1>1, <1>2, <1>3, <1>4, <1>5, Zenon DEF Follows

\* The walk from S stays in every set that holds S and follows its marks.
LEMMA BelowLeast ==
    ASSUME NEW m \in MmuType, NEW S \in SUBSET Sp, NEW T \in SUBSET Sp,
           S \subseteq T, Follows(m, T)
    PROVE  Below(m, S) \subseteq T
BY BelowIs, Zenon

\* The walk from a page goes on to everything the walk from a page it met meets.
LEMMA BelowStep ==
    ASSUME NEW m \in MmuType, NEW p \in Sp, NEW i \in m.bits[p], m.spt[p][i] # None
    PROVE  m.spt[p][i] \in Sp /\ Below(m, {m.spt[p][i]}) \subseteq Below(m, {p})
<1>1. <<p, i>> \in MarkedPtes(m)
  BY MarkedPtesIs, Zenon
<1>2. m.spt[p][i] \in Sp
  BY <1>1, MarkedPtesIs, Zenon
<1>3. p \in Below(m, {p}) /\ Follows(m, Below(m, {p})) /\ Below(m, {p}) \in SUBSET Sp
  BY BelowIs, ZenonT(60)
<1>4. m.spt[p][i] \in Below(m, {p})
  BY <1>3, Zenon DEF Follows
<1>5. {m.spt[p][i]} \in SUBSET Sp
  BY <1>2, Zenon
<1>6. {m.spt[p][i]} \subseteq Below(m, {p})
  BY <1>4, Zenon
<1>7. Below(m, {m.spt[p][i]}) \subseteq Below(m, {p})
  BY <1>3, <1>5, <1>6, BelowLeast, Zenon
<1> QED
  BY <1>2, <1>7, Zenon

-----------------------------------------------------------------------------
(* vmrun_mmu_prepare_zap_page.                                             *)

\* n is m after the pages in Z were zapped and the walk cleared the marks in B.
Zaps(m, n, Z, B) ==
    /\ Z \in SUBSET m.active /\ B \in SUBSET Sp /\ Follows(m, B)
    /\ B \cap UnsyncLeaves(m) \subseteq Z
    /\ n.spt = Unlink(m.spt, Z)
    /\ n.unsync = m.unsync \ Z
    /\ n.invalid = m.invalid \cup Z
    /\ n.active = m.active \ Gone(m, Z)
    /\ n.older = Moved(m, Gone(m, Z), Kept(m, Z))
    /\ n.zapped = m.zapped \cup Gone(m, Z)
    /\ n.used = m.used - Cardinality(Gone(m, Z))
    /\ n.reload = m.reload \cup ReloadAfterZap(m, Kept(m, Z))
    /\ n.bits = [p \in Sp |-> IF p \in B THEN {} ELSE m.bits[p]]
    /\ n.key = m.key /\ n.gen = m.gen /\ n.roots = m.roots
    /\ n.valid = m.valid /\ n.writable = m.writable

\* vmrun_mmu_prepare_zap_page zaps the pages asked for and unsync pages below them,
\* and nothing else.
LEMMA PrepareZapIs ==
    ASSUME NEW m, MmuInv(m), NEW S \in SUBSET m.active
    PROVE  /\ PrepareZap(m, S) \in MmuType
           /\ \E Z \in SUBSET m.active, B \in SUBSET Sp :
                 /\ Zaps(m, PrepareZap(m, S), Z, B)
                 /\ S \subseteq Z /\ Z \ S \subseteq m.unsync
<1> DEFINE B == Below(m, S)
           u == Unmark(m, B)
           Z == S \cup (B \cap UnsyncLeaves(m))
           n == ZapSelf(u, Z)
<1>1. m \in MmuType /\ m.active \in SUBSET Sp /\ m.unsync \subseteq m.active
  BY Zenon DEF MmuInv, MmuType, Lists
<1>2. PrepareZap(m, S) = n
  BY Zenon DEF PrepareZap
<1>3. B \in SUBSET Sp /\ Follows(m, B)
  BY <1>1, BelowIs, Zenon
<1>4. Z \in SUBSET m.active /\ Z \in SUBSET Sp /\ Z \ S \subseteq m.unsync
  BY <1>1, Zenon DEF UnsyncLeaves
<1>5. /\ u \in MmuType
      /\ u.bits = [p \in Sp |-> IF p \in B THEN {} ELSE m.bits[p]]
      /\ u.active = m.active /\ u.older = m.older /\ u.zapped = m.zapped
      /\ u.key = m.key /\ u.gen = m.gen /\ u.invalid = m.invalid
      /\ u.unsync = m.unsync /\ u.roots = m.roots /\ u.spt = m.spt
      /\ u.used = m.used /\ u.valid = m.valid /\ u.writable = m.writable
      /\ u.reload = m.reload
  BY <1>1, <1>3, UnmarkIs, ZenonT(60)
<1>6. Kept(u, Z) = Kept(m, Z) /\ Gone(u, Z) = Gone(m, Z)
  BY <1>5, Zenon DEF Kept, Gone
<1> HIDE DEF B, u, Z
<1>7. /\ n.spt = Unlink(u.spt, Z)
      /\ n.unsync = u.unsync \ Z
      /\ n.invalid = u.invalid \cup Z
      /\ n.active = u.active \ Gone(u, Z)
      /\ n.older = Moved(u, Gone(u, Z), Kept(u, Z))
      /\ n.zapped = u.zapped \cup Gone(u, Z)
      /\ n.used = u.used - Cardinality(Gone(u, Z))
      /\ n.reload = u.reload \cup ReloadAfterZap(u, Kept(u, Z))
      /\ n.bits = u.bits
      /\ n.key = u.key /\ n.gen = u.gen /\ n.roots = u.roots
      /\ n.valid = u.valid /\ n.writable = u.writable
      /\ n \in MmuType
  <2>1. u \in MmuType /\ Z \in SUBSET Sp
    BY <1>4, <1>5, Zenon
  <2>2. Counting
    BY Zenon DEF MmuInv
  <2> QED
    BY <2>1, <2>2, ZapSelfIs
<1>8. /\ n.spt = Unlink(m.spt, Z)
      /\ n.unsync = m.unsync \ Z
      /\ n.invalid = m.invalid \cup Z
      /\ n.active = m.active \ Gone(m, Z)
      /\ n.older = Moved(u, Gone(m, Z), Kept(m, Z))
      /\ n.zapped = m.zapped \cup Gone(m, Z)
      /\ n.used = m.used - Cardinality(Gone(m, Z))
      /\ n.reload = m.reload \cup ReloadAfterZap(u, Kept(m, Z))
      /\ n.bits = u.bits
      /\ n.key = m.key /\ n.gen = m.gen /\ n.roots = m.roots
      /\ n.valid = m.valid /\ n.writable = m.writable
      /\ n \in MmuType
  BY <1>5, <1>6, <1>7, Zenon
<1>9. /\ Moved(u, Gone(m, Z), Kept(m, Z)) = Moved(m, Gone(m, Z), Kept(m, Z))
      /\ ReloadAfterZap(u, Kept(m, Z)) = ReloadAfterZap(m, Kept(m, Z))
  BY <1>5, Zenon DEF Moved, ReloadAfterZap, IsObsolete
<1>10. Zaps(m, n, Z, B)
  <2>1. B \cap UnsyncLeaves(m) \subseteq Z
    BY Zenon DEF Z
  <2> QED
    BY <1>3, <1>4, <1>5, <1>8, <1>9, <2>1, Zenon DEF Zaps
<1>11. S \subseteq Z
  BY Zenon DEF Z
<1> QED
  BY <1>2, <1>3, <1>4, <1>8, <1>10, <1>11, ZenonT(60)

\* A zap leaves every conjunct of the invariant alone: it takes away pages with
\* all entries to and from them, and every mark it clears had only pages below
\* that it zaps.
LEMMA ZapsKeep ==
    ASSUME NEW m, MmuInv(m), NEW n \in MmuType, NEW Z, NEW B, Zaps(m, n, Z, B)
    PROVE  MmuInv(n) /\ n.used <= m.used
<1> DEFINE G == Gone(m, Z)
<1>1. /\ m.active \in SUBSET Sp /\ m.zapped \in SUBSET Sp /\ m.invalid \in SUBSET Sp
      /\ m.unsync \in SUBSET Sp /\ m.used \in Int
  BY Zenon DEF MmuInv, MmuType
<1>2. /\ m.zapped \subseteq m.invalid \ m.active
      /\ m.invalid \subseteq m.active \cup m.zapped
      /\ m.unsync \subseteq m.active \ m.invalid
      /\ m.used = Cardinality(m.active)
  BY Zenon DEF MmuInv, Lists, Allocated
<1>3. /\ Z \in SUBSET m.active
      /\ n.unsync = m.unsync \ Z /\ n.invalid = m.invalid \cup Z
      /\ n.active = m.active \ G /\ n.zapped = m.zapped \cup G
      /\ n.used = m.used - Cardinality(G)
      /\ n.key = m.key /\ n.gen = m.gen /\ n.valid = m.valid /\ n.writable = m.writable
  BY Zenon DEF Zaps
<1>4. G \subseteq Z /\ Kept(m, Z) \subseteq Z
  BY Zenon DEF Gone, Kept
<1> HIDE DEF G
<1>5. Allocated(n) = Allocated(m)
  BY <1>3, <1>4, Zenon DEF Allocated
<1>6. \A p \in Sp : n.bits[p] = IF p \in B THEN {} ELSE m.bits[p]
  BY Zenon DEF Zaps
<1>7. \A p \in Sp, i \in Slots :
          n.spt[p][i] # None => p \notin Z /\ n.spt[p][i] \notin Z /\ n.spt[p][i] = m.spt[p][i]
  BY DEF Zaps, Unlink
<1>8. Lists(n) /\ n.used <= m.used
  <2>1. n.zapped \subseteq n.invalid \ n.active
    BY <1>2, <1>3, <1>4, Zenon
  <2>2. n.invalid \subseteq Allocated(n)
    BY <1>2, <1>3, <1>4, <1>5, Zenon DEF Allocated
  <2>3. n.unsync \subseteq n.active \ n.invalid
    BY <1>2, <1>3, <1>4, Zenon
  <2>4. G \in SUBSET m.active /\ m.active \in SUBSET Sp /\ G \in SUBSET Sp
    BY <1>1, <1>3, <1>4, Zenon
  <2>5. Cardinality(m.active \ G) = Cardinality(m.active) - Cardinality(G)
    BY <2>4, Zenon DEF MmuInv, Counting
  <2>6. Cardinality(G) \in Nat
    BY <2>4, Zenon DEF MmuInv, Counting
  <2> QED
    BY <1>1, <1>2, <1>3, <2>1, <2>2, <2>3, <2>5, <2>6 DEF Lists
<1>9. Levels(n)
  <2>1. \A p \in Sp : m.bits[p] = {} => n.bits[p] = {}
    BY <1>6, Zenon
  <2>2. Allocated(m) \subseteq Sp
    BY <1>1, Zenon DEF Allocated
  <2> QED
    BY <1>3, <1>5, <2>1, <2>2, Zenon DEF MmuInv, Levels, Level
<1>10. Clean(n)
  BY <1>5, <1>6, Zenon DEF MmuInv, Clean
<1>11. Links(n)
  BY <1>3, <1>4, <1>7 DEF MmuInv, Links, Level
<1>12. Marks(n)
  <2> SUFFICES ASSUME NEW p \in Sp, NEW i \in Slots, n.spt[p][i] # None,
                      n.spt[p][i] \in n.unsync \/ n.bits[n.spt[p][i]] # {}
               PROVE  i \in n.bits[p]
    BY Zenon DEF Marks
  <2> DEFINE c == m.spt[p][i]
  <2>1. n.spt[p][i] = c /\ c \notin Z /\ c # None
    BY <1>7, Zenon
  <2>2. c \in m.active
    BY <2>1, Zenon DEF MmuInv, Links
  <2>3. c \in n.unsync \/ n.bits[c] # {}
    BY <2>1, Zenon
  <2> HIDE DEF c
  <2>4. c \in m.unsync \/ m.bits[c] # {}
    BY <1>1, <1>3, <1>6, <2>2, <2>3, Zenon
  <2>5. i \in m.bits[p]
    BY <2>1, <2>4, Zenon DEF MmuInv, Marks, c
  <2>6. SUFFICES ASSUME p \in B PROVE FALSE
    BY <1>6, <2>5, Zenon
  <2>7. c \in B
    BY <2>1, <2>5, <2>6, Zenon DEF Zaps, Follows, c
  <2>8. c \in m.unsync
    BY <1>1, <1>3, <1>6, <2>2, <2>3, <2>7, Zenon
  <2>9. m.bits[c] = {}
    BY <2>2, <2>8, Zenon DEF MmuInv, Levels, Allocated
  <2> QED
    BY <2>1, <2>7, <2>8, <2>9, Zenon DEF Zaps, UnsyncLeaves
<1>13. ValidSp(n) \subseteq ValidSp(m) /\ ValidSp(n) \cap Z = {}
  BY <1>3, <1>5, Zenon DEF ValidSp, IsObsolete
<1>14. Unique(n)
  BY <1>3, <1>13, Zenon DEF MmuInv, Unique
<1>15. Protected(n)
  BY <1>3, <1>13, Zenon DEF MmuInv, Protected, Level
<1>16. Ages(n)
  <2>1. n.older = Moved(m, G, Kept(m, Z))
    BY Zenon DEF Zaps, G
  <2>2. n.older \subseteq n.active \X n.active
    BY <1>3, <2>1, Zenon DEF Moved
  <2>3. ASSUME NEW p \in Sp, NEW q \in Sp, <<p, q>> \in n.older, q \notin n.invalid
        PROVE  n.gen[p] <= n.gen[q]
    <3>1. q \notin Kept(m, Z) /\ q \notin m.invalid
      BY <1>3, <1>4, <2>3, Zenon
    <3>2. <<p, q>> \in m.older
      BY <2>1, <2>3, <3>1, Zenon DEF Moved
    <3> QED
      BY <1>3, <3>1, <3>2, Zenon DEF MmuInv, Ages
  <2> QED
    BY <1>3, <2>2, <2>3, Zenon DEF MmuInv, Ages
<1> QED
  BY <1>8, <1>9, <1>10, <1>11, <1>12, <1>14, <1>15, <1>16, Zenon DEF MmuInv

\* A root in use is not taken away, and whoever runs on one that was usable is
\* asked to reload.
LEMMA ZapsRoots ==
    ASSUME NEW m, MmuInv(m), NEW n \in MmuType, NEW Z, NEW B, Zaps(m, n, Z, B),
           NEW rt, RootInv(m, rt)
    PROVE  RootInv(n, rt)
<1>1. /\ Z \in SUBSET m.active
      /\ n.invalid = m.invalid \cup Z
      /\ n.active = m.active \ Gone(m, Z) /\ n.zapped = m.zapped \cup Gone(m, Z)
      /\ n.reload = m.reload \cup ReloadAfterZap(m, Kept(m, Z))
      /\ n.key = m.key /\ n.gen = m.gen /\ n.valid = m.valid /\ n.roots = m.roots
  BY Zenon DEF Zaps
<1>2. \A v \in Vcpus : rt[v] # None => m.roots[rt[v]] # 0
  <2> SUFFICES ASSUME NEW v \in Vcpus, rt[v] # None PROVE m.roots[rt[v]] # 0
    BY Zenon
  <2> DEFINE S == {w \in Vcpus : rt[w] = rt[v]}
  <2>1. rt[v] \in Sp /\ m.roots[rt[v]] = Cardinality(S)
    BY Zenon DEF RootInv
  <2>2. S \in SUBSET Vcpus /\ S # {}
    BY Zenon
  <2> HIDE DEF S
  <2>3. Cardinality(S) # 0
    BY <2>2, Zenon DEF MmuInv, Counting
  <2> QED
    BY <2>1, <2>3, Zenon
<1>3. \A v \in Vcpus : rt[v] # None => rt[v] \in n.active
  BY <1>1, <1>2, Zenon DEF Gone, RootInv
<1>4. ASSUME NEW v \in Vcpus, rt[v] # None, rt[v] \notin ValidSp(n)
      PROVE  v \in n.reload
  <2>1. CASE rt[v] \notin ValidSp(m)
    BY <1>1, <1>4, <2>1, Zenon DEF RootInv
  <2>2. CASE rt[v] \in ValidSp(m)
    <3>1. rt[v] \in Z
      <4>1. rt[v] \in Allocated(n)
        BY <1>3, <1>4, Zenon DEF Allocated
      <4> QED
        BY <1>1, <1>4, <2>2, <4>1, Zenon DEF ValidSp, IsObsolete
    <3>2. rt[v] \in Kept(m, Z)
      BY <1>2, <1>4, <3>1, Zenon DEF Kept
    <3>3. ReloadAfterZap(m, Kept(m, Z)) = Vcpus
      BY <2>2, <3>2, Zenon DEF ReloadAfterZap, ReloadRemoteMmus, ValidSp
    <3> QED
      BY <1>1, <3>3, Zenon
  <2> QED
    BY <2>1, <2>2, Zenon
<1> QED
  BY <1>1, <1>3, <1>4, Zenon DEF RootInv, Level

-----------------------------------------------------------------------------
(* vmrun_mmu_commit_zap_page, and a zap that is committed at once.         *)

\* vmrun_mmu_free_page, field by field.
LEMMA FreePagesIs ==
    ASSUME NEW m \in MmuType, NEW F \in SUBSET Sp
    PROVE  /\ FreePages(m, F).zapped = m.zapped \ F
           /\ FreePages(m, F).invalid = m.invalid \ F
           /\ FreePages(m, F).key = [p \in Sp |-> IF p \in F THEN NoKey ELSE m.key[p]]
           /\ FreePages(m, F).gen = [p \in Sp |-> IF p \in F THEN 0 ELSE m.gen[p]]
           /\ FreePages(m, F).bits = [p \in Sp |-> IF p \in F THEN {} ELSE m.bits[p]]
           /\ FreePages(m, F).active = m.active
           /\ FreePages(m, F).older = m.older
           /\ FreePages(m, F).unsync = m.unsync
           /\ FreePages(m, F).roots = m.roots
           /\ FreePages(m, F).spt = m.spt
           /\ FreePages(m, F).used = m.used
           /\ FreePages(m, F).valid = m.valid
           /\ FreePages(m, F).writable = m.writable
           /\ FreePages(m, F).reload = m.reload
           /\ FreePages(m, F) \in MmuType
<1> DEFINE f1 == m.zapped \ F  f2 == m.invalid \ F
           f3 == [p \in Sp |-> IF p \in F THEN NoKey ELSE m.key[p]]
           f4 == [p \in Sp |-> IF p \in F THEN 0 ELSE m.gen[p]]
           f5 == [p \in Sp |-> IF p \in F THEN {} ELSE m.bits[p]]
<1>1. FreePages(m, F) = [m EXCEPT !.zapped = f1, !.invalid = f2, !.key = f3, !.gen = f4,
                                  !.bits = f5]
  BY Zenon DEF FreePages
<1>2. /\ f1 \in SUBSET Sp /\ f2 \in SUBSET Sp /\ f3 \in [Sp -> Tables \cup {NoKey}]
      /\ f4 \in [Sp -> Nat] /\ f5 \in [Sp -> SUBSET Slots]
  BY Zenon DEF MmuType
<1> HIDE DEF f1, f2, f3, f4, f5
<1>3. FreePages(m, F) =
          [active |-> m.active, older |-> m.older, zapped |-> f1, key |-> f3, gen |-> f4,
           invalid |-> f2, unsync |-> m.unsync, roots |-> m.roots, spt |-> m.spt,
           bits |-> f5, used |-> m.used, valid |-> m.valid, writable |-> m.writable,
           reload |-> m.reload]
  BY <1>1, ZenonT(60) DEF MmuType
<1>4. FreePages(m, F) \in MmuType
  BY <1>2, <1>3 DEF MmuType
<1> QED
  BY <1>3, <1>4 DEF f1, f2, f3, f4, f5

\* Freeing pages that are on the zapped list keeps the invariant, the pages in use
\* and the roots.
LEMMA FreePagesKeep ==
    ASSUME NEW m, MmuInv(m), NEW F \in SUBSET m.zapped
    PROVE  /\ MmuInv(FreePages(m, F))
           /\ \A p \in m.active : FreePages(m, F).key[p] = m.key[p]
                               /\ FreePages(m, F).gen[p] = m.gen[p]
                               /\ FreePages(m, F).bits[p] = m.bits[p]
           /\ ValidSp(FreePages(m, F)) = ValidSp(m)
           /\ \A rt : RootInv(m, rt) => RootInv(FreePages(m, F), rt)
<1> DEFINE n == FreePages(m, F)
<1>1. /\ m.active \in SUBSET Sp /\ m.zapped \in SUBSET Sp /\ m.invalid \in SUBSET Sp
      /\ m.unsync \in SUBSET Sp /\ F \in SUBSET Sp /\ m \in MmuType /\ m.valid \in Nat
  BY Zenon DEF MmuInv, MmuType
<1>2. /\ n.zapped = m.zapped \ F /\ n.invalid = m.invalid \ F
      /\ n.key = [p \in Sp |-> IF p \in F THEN NoKey ELSE m.key[p]]
      /\ n.gen = [p \in Sp |-> IF p \in F THEN 0 ELSE m.gen[p]]
      /\ n.bits = [p \in Sp |-> IF p \in F THEN {} ELSE m.bits[p]]
      /\ n.active = m.active /\ n.older = m.older /\ n.unsync = m.unsync
      /\ n.roots = m.roots /\ n.spt = m.spt /\ n.used = m.used /\ n.valid = m.valid
      /\ n.writable = m.writable /\ n.reload = m.reload /\ n \in MmuType
  BY <1>1, FreePagesIs
<1> HIDE DEF n
<1>3. /\ m.zapped \subseteq m.invalid \ m.active
      /\ m.invalid \subseteq m.active \cup m.zapped
      /\ m.unsync \subseteq m.active \ m.invalid
      /\ m.used = Cardinality(m.active)
  BY Zenon DEF MmuInv, Lists, Allocated
<1>4. /\ Allocated(n) = Allocated(m) \ F /\ F \cap m.active = {}
      /\ Allocated(m) \subseteq Sp /\ F \subseteq m.invalid
  BY <1>1, <1>2, <1>3, Zenon DEF Allocated
<1>5. \A p \in Sp \ F : n.key[p] = m.key[p] /\ n.gen[p] = m.gen[p] /\ n.bits[p] = m.bits[p]
  BY <1>2, ZenonT(60)
<1>6. \A p \in m.active : n.key[p] = m.key[p] /\ n.gen[p] = m.gen[p] /\ n.bits[p] = m.bits[p]
  BY <1>1, <1>4, <1>5, Zenon
<1>7. Lists(n)
  BY <1>2, <1>3, <1>4, Zenon DEF Lists, Allocated
<1>8. Levels(n)
  BY <1>1, <1>2, <1>3, <1>4, <1>5 DEF MmuInv, Levels, Level
<1>9. Clean(n)
  BY <1>2, <1>4, <1>5, Zenon DEF MmuInv, Clean
<1>10. Links(n)
  <2> SUFFICES ASSUME NEW p \in Sp, NEW i \in Slots, m.spt[p][i] # None
               PROVE  /\ p \in m.active
                      /\ m.spt[p][i] \in m.active \ n.invalid
                      /\ n.key[m.spt[p][i]].level = n.key[p].level - 1
    BY <1>2 DEF Links, Level
  <2>1. /\ p \in m.active /\ m.spt[p][i] \in m.active \ m.invalid
        /\ m.key[m.spt[p][i]].level = m.key[p].level - 1
    BY Zenon DEF MmuInv, Links, Level
  <2> QED
    BY <1>2, <1>6, <2>1, Zenon
<1>11. Marks(n)
  <2> SUFFICES ASSUME NEW p \in Sp, NEW i \in Slots, m.spt[p][i] # None,
                      m.spt[p][i] \in m.unsync \/ n.bits[m.spt[p][i]] # {}
               PROVE  i \in n.bits[p]
    BY <1>2, Zenon DEF Marks
  <2>1. p \in m.active /\ m.spt[p][i] \in m.active
    BY Zenon DEF MmuInv, Links
  <2>2. i \in m.bits[p]
    BY <1>6, <2>1, Zenon DEF MmuInv, Marks
  <2> QED
    BY <1>6, <2>1, <2>2, Zenon
<1>12. ValidSp(n) = ValidSp(m)
  BY <1>2, <1>4, <1>5 DEF ValidSp, IsObsolete
<1>13. ValidSp(m) \subseteq Sp \ F
  BY <1>4, Zenon DEF ValidSp
<1>14. Unique(n)
  BY <1>5, <1>12, <1>13, Zenon DEF MmuInv, Unique
<1>15. Protected(n)
  BY <1>2, <1>5, <1>12, <1>13 DEF MmuInv, Protected, Level
<1>16. Ages(n)
  <2>1. \A p \in Sp : n.gen[p] <= n.valid
    BY <1>1, <1>2 DEF MmuInv, Ages
  <2>2. ASSUME NEW p \in Sp, NEW q \in Sp, <<p, q>> \in n.older, q \notin n.invalid
        PROVE  n.gen[p] <= n.gen[q]
    <3>1. p \in m.active /\ q \in m.active /\ <<p, q>> \in m.older
      BY <1>2, <2>2 DEF MmuInv, Ages
    <3>2. q \notin m.invalid
      BY <1>2, <1>4, <2>2, <3>1, Zenon
    <3> QED
      BY <1>6, <3>1, <3>2, Zenon DEF MmuInv, Ages
  <2> QED
    BY <1>2, <2>1, <2>2, Zenon DEF MmuInv, Ages
<1>17. MmuInv(n)
  BY <1>2, <1>7, <1>8, <1>9, <1>10, <1>11, <1>14, <1>15, <1>16, Zenon DEF MmuInv
<1>18. ASSUME NEW rt, RootInv(m, rt) PROVE RootInv(n, rt)
  BY <1>2, <1>6, <1>12, <1>18, ZenonT(60) DEF RootInv, Level
<1> QED
  BY <1>6, <1>12, <1>17, <1>18, Zenon DEF n

\* vmrun_mmu_prepare_zap_page keeps the invariant and takes no page on.
LEMMA PrepareZapKeeps ==
    ASSUME NEW m, MmuInv(m), NEW S \in SUBSET m.active
    PROVE  /\ MmuInv(PrepareZap(m, S))
           /\ PrepareZap(m, S).used <= m.used
           /\ \A rt : RootInv(m, rt) => RootInv(PrepareZap(m, S), rt)
<1>1. PrepareZap(m, S) \in MmuType
  BY PrepareZapIs, Zenon
<1>2. PICK Z \in SUBSET m.active, B \in SUBSET Sp : Zaps(m, PrepareZap(m, S), Z, B)
  BY PrepareZapIs, Zenon
<1>3. MmuInv(PrepareZap(m, S)) /\ PrepareZap(m, S).used <= m.used
  BY <1>1, <1>2, ZapsKeep, Zenon
<1>4. ASSUME NEW rt, RootInv(m, rt) PROVE RootInv(PrepareZap(m, S), rt)
  BY <1>1, <1>2, <1>4, ZapsRoots, Zenon
<1> QED
  BY <1>3, <1>4, Zenon

\* n is m after a zap of the pages in S, and of unsync pages found below them,
\* that was committed.
Committed(m, n, S) ==
    /\ MmuInv(n)
    /\ n.used <= m.used
    /\ n.valid = m.valid /\ n.writable = m.writable
    /\ n.active \subseteq m.active /\ n.unsync \subseteq m.unsync
    /\ \A p \in n.active : n.key[p] = m.key[p] /\ n.gen[p] = m.gen[p]
    /\ \A p \in Sp : n.bits[p] \subseteq m.bits[p]
    /\ \A p \in Sp, i \in Slots : n.spt[p][i] # None => n.spt[p][i] = m.spt[p][i]
    /\ ValidSp(n) \subseteq ValidSp(m) \ S
    /\ \A p \in m.active \ S :
          p \notin m.unsync => p \in n.active /\ (p \in ValidSp(m) => p \in ValidSp(n))
    /\ \A rt : RootInv(m, rt) => RootInv(n, rt)

\* A zap that is committed under the same lock.
LEMMA ZapPagesIs ==
    ASSUME NEW m, MmuInv(m), NEW S \in SUBSET m.active
    PROVE  Committed(m, ZapPages(m, S), S)
<1> DEFINE u == PrepareZap(m, S)
           F == u.zapped \ m.zapped
           n == FreePages(u, F)
<1>1. ZapPages(m, S) = n
  BY Zenon DEF ZapPages
<1>2. PICK Z \in SUBSET m.active, B \in SUBSET Sp :
          Zaps(m, u, Z, B) /\ S \subseteq Z /\ Z \ S \subseteq m.unsync
  BY PrepareZapIs
<1>3. MmuInv(u) /\ u.used <= m.used /\ \A rt : RootInv(m, rt) => RootInv(u, rt)
  BY PrepareZapKeeps, Zenon
<1> HIDE DEF u
<1>4. /\ u.unsync = m.unsync \ Z /\ u.invalid = m.invalid \cup Z
      /\ u.active = m.active \ Gone(m, Z) /\ u.zapped = m.zapped \cup Gone(m, Z)
      /\ u.key = m.key /\ u.gen = m.gen /\ u.valid = m.valid /\ u.writable = m.writable
      /\ u.bits = [p \in Sp |-> IF p \in B THEN {} ELSE m.bits[p]]
      /\ u.spt = Unlink(m.spt, Z)
  BY <1>2, Zenon DEF Zaps
<1>5. F \in SUBSET u.zapped
  BY Zenon
<1> HIDE DEF F
<1>6. /\ MmuInv(n) /\ ValidSp(n) = ValidSp(u)
      /\ \A p \in u.active : n.key[p] = u.key[p] /\ n.gen[p] = u.gen[p]
      /\ \A rt : RootInv(u, rt) => RootInv(n, rt)
  BY <1>3, <1>5, FreePagesKeep, Zenon
<1>7. /\ n.active = u.active /\ n.unsync = u.unsync /\ n.valid = u.valid
      /\ n.writable = u.writable /\ n.used = u.used /\ n.spt = u.spt
      /\ n.bits = [p \in Sp |-> IF p \in F THEN {} ELSE u.bits[p]]
  <2>1. u \in MmuType /\ F \in SUBSET Sp
    BY <1>3, <1>5, Zenon DEF MmuInv, MmuType
  <2> QED
    BY <2>1, FreePagesIs, ZenonT(60)
<1> HIDE DEF n
<1>8. Gone(m, Z) \subseteq Z
  BY Zenon DEF Gone
<1>9. Allocated(u) = Allocated(m)
  BY <1>2, <1>4, <1>8, Zenon DEF Allocated
<1>10. ValidSp(u) = ValidSp(m) \ Z
  BY <1>4, <1>9, Zenon DEF ValidSp, IsObsolete
<1>11. \A p \in Sp : n.bits[p] \subseteq m.bits[p]
  BY <1>4, <1>7
<1>12. \A p \in Sp, i \in Slots : n.spt[p][i] # None => n.spt[p][i] = m.spt[p][i]
  BY <1>4, <1>7 DEF Unlink
<1>13. \A p \in m.active \ S :
          p \notin m.unsync => p \in n.active /\ (p \in ValidSp(m) => p \in ValidSp(n))
  BY <1>2, <1>4, <1>6, <1>7, <1>8, <1>10, Zenon
<1>14. n.used <= m.used /\ n.valid = m.valid /\ n.writable = m.writable
  BY <1>3, <1>4, <1>7, Zenon
<1>15. n.active \subseteq m.active /\ n.unsync \subseteq m.unsync
  BY <1>4, <1>7, Zenon
<1>16. \A p \in n.active : n.key[p] = m.key[p] /\ n.gen[p] = m.gen[p]
  BY <1>4, <1>6, <1>7
<1>17. ValidSp(n) \subseteq ValidSp(m) \ S
  BY <1>2, <1>6, <1>10, Zenon
<1>18. \A rt : RootInv(m, rt) => RootInv(n, rt)
  BY <1>3, <1>6, Zenon
<1> QED
  BY <1>1, <1>6, <1>11, <1>12, <1>13, <1>14, <1>15, <1>16, <1>17, <1>18, Zenon DEF Committed

\* What later steps need of a page that was made valid or kept.
LEMMA ValidSpIs ==
    ASSUME NEW m, MmuInv(m)
    PROVE  /\ ValidSp(m) \subseteq m.active
           /\ \A p \in m.active :
                 p \in ValidSp(m) <=> m.gen[p] = m.valid /\ p \notin m.invalid
BY Zenon DEF MmuInv, Lists, ValidSp, Allocated, IsObsolete

-----------------------------------------------------------------------------
(* The page limit and the shrinker.                                        *)

\* n is m after any number of committed zaps.
Reduced(m, n) ==
    /\ MmuInv(n)
    /\ n.used <= m.used
    /\ \A rt : RootInv(m, rt) => RootInv(n, rt)

\* A committed zap only takes pages away.
LEMMA ZapPagesReduces ==
    ASSUME NEW m, MmuInv(m), NEW S \in SUBSET m.active
    PROVE  Reduced(m, ZapPages(m, S))
BY ZapPagesIs, Zenon DEF Committed, Reduced

\* So does prepare_zap_oldest_mmu_page, repeated until the goal is met.
LEMMA ZapOldestReduces ==
    ASSUME NEW m, MmuInv(m), NEW goal
    PROVE  Reduced(m, ZapOldestAbove(m, goal))
<1> DEFINE S == {p \in m.active : \A q \in LastZapped(m, goal) : <<q, p>> \notin m.older}
           n == ZapPages(m, S)
<1>1. S \in SUBSET m.active
  BY Zenon
<1>2. Reduced(m, n)
  BY <1>1, ZapPagesReduces, Zenon
<1>3. OldestOf(n, n.active) \in SUBSET n.active
  BY Zenon DEF OldestOf
<1>4. Reduced(n, ZapPages(n, OldestOf(n, n.active)))
  BY <1>2, <1>3, ZapPagesReduces, Zenon DEF Reduced
<1>5. m.used \in Int /\ n.used \in Int /\ ZapPages(n, OldestOf(n, n.active)).used \in Int
  BY <1>2, <1>4, Zenon DEF Reduced, MmuInv, MmuType
<1>6. Reduced(m, ZapPages(n, OldestOf(n, n.active)))
  BY <1>2, <1>4, <1>5 DEF Reduced
<1>7. Reduced(m, m)
  BY <1>5 DEF Reduced
<1>8. \/ ZapOldestAbove(m, goal) = m
      \/ ZapOldestAbove(m, goal) = n
      \/ ZapOldestAbove(m, goal) = ZapPages(n, OldestOf(n, n.active))
  BY Zenon DEF ZapOldestAbove
<1> QED
  BY <1>2, <1>6, <1>7, <1>8, Zenon

\* So does make_mmu_pages_available, which may do nothing.
LEMMA MakePagesAvailableReduces ==
    ASSUME NEW m, MmuInv(m)
    PROVE  Reduced(m, MakePagesAvailable(m))
<1>1. Reduced(m, m)
  BY DEF Reduced, MmuInv, MmuType
<1>2. Reduced(m, ZapOldestAbove(m, n_max - Refill))
  BY ZapOldestReduces, Zenon
<1> QED
  BY <1>1, <1>2, Zenon DEF MakePagesAvailable

-----------------------------------------------------------------------------
(* vmrun_mmu_get_page.                                                     *)

\* vmrun_mmu_alloc_page and the write protection of the frame, field by field.
LEMMA AllocPageIs ==
    ASSUME NEW m \in MmuType, NEW p \in Sp, NEW g, NEW l, [gfn |-> g, level |-> l] \in Tables
    PROVE  /\ AllocPage(m, p, g, l).active = m.active \cup {p}
           /\ AllocPage(m, p, g, l).older = m.older \cup (m.active \X {p})
           /\ AllocPage(m, p, g, l).used = m.used + 1
           /\ AllocPage(m, p, g, l).key = [m.key EXCEPT ![p] = [gfn |-> g, level |-> l]]
           /\ AllocPage(m, p, g, l).gen = [m.gen EXCEPT ![p] = m.valid]
           /\ AllocPage(m, p, g, l).writable = m.writable \ {g}
           /\ AllocPage(m, p, g, l).zapped = m.zapped
           /\ AllocPage(m, p, g, l).invalid = m.invalid
           /\ AllocPage(m, p, g, l).unsync = m.unsync
           /\ AllocPage(m, p, g, l).roots = m.roots
           /\ AllocPage(m, p, g, l).spt = m.spt
           /\ AllocPage(m, p, g, l).bits = m.bits
           /\ AllocPage(m, p, g, l).valid = m.valid
           /\ AllocPage(m, p, g, l).reload = m.reload
           /\ AllocPage(m, p, g, l) \in MmuType
<1> DEFINE k == [gfn |-> g, level |-> l]
           f1 == m.active \cup {p}  f2 == m.older \cup (m.active \X {p})  f3 == m.used + 1
           f4 == [m.key EXCEPT ![p] = k]  f5 == [m.gen EXCEPT ![p] = m.valid]
           f6 == m.writable \ {g}
<1> HIDE DEF k
<1>1. AllocPage(m, p, g, l) = [m EXCEPT !.active = f1, !.older = f2, !.used = f3, !.key = f4,
                                        !.gen = f5, !.writable = f6]
  BY Zenon DEF AllocPage, WriteProtect, MmuType, k
<1>2. k \in Tables
  BY Zenon DEF k
<1>3. /\ f1 \in SUBSET Sp /\ f2 \in SUBSET (Sp \X Sp) /\ f3 \in Int
      /\ f4 \in [Sp -> Tables \cup {NoKey}] /\ f5 \in [Sp -> Nat] /\ f6 \in SUBSET Gfns
  BY <1>2 DEF MmuType
<1> HIDE DEF f1, f2, f3, f4, f5, f6
<1>4. AllocPage(m, p, g, l) =
          [active |-> f1, older |-> f2, zapped |-> m.zapped, key |-> f4, gen |-> f5,
           invalid |-> m.invalid, unsync |-> m.unsync, roots |-> m.roots, spt |-> m.spt,
           bits |-> m.bits, used |-> f3, valid |-> m.valid, writable |-> f6,
           reload |-> m.reload]
  BY <1>1, ZenonT(60) DEF MmuType
<1>5. AllocPage(m, p, g, l) \in MmuType
  BY <1>3, <1>4 DEF MmuType
<1> QED
  BY <1>4, <1>5 DEF f1, f2, f3, f4, f5, f6, k

\* A page for a table that had none of the role becomes the newest of the list.
LEMMA AllocPageKeeps ==
    ASSUME NEW m, MmuInv(m), NEW p \in NextPage(m), NEW g, NEW l,
           [gfn |-> g, level |-> l] \in Tables, Matching(m, g, l) = {}
    PROVE  /\ MmuInv(AllocPage(m, p, g, l))
           /\ AllocPage(m, p, g, l).used = m.used + 1
           /\ AllocPage(m, p, g, l).active = m.active \cup {p}
           /\ AllocPage(m, p, g, l).unsync = m.unsync
           /\ AllocPage(m, p, g, l).writable = m.writable \ {g}
           /\ AllocPage(m, p, g, l).key[p] = [gfn |-> g, level |-> l]
           /\ \A q \in m.active : AllocPage(m, p, g, l).key[q] = m.key[q]
           /\ p \notin m.active
           /\ ValidSp(AllocPage(m, p, g, l)) = ValidSp(m) \cup {p}
           /\ \A rt : RootInv(m, rt) => RootInv(AllocPage(m, p, g, l), rt)
<1> DEFINE n == AllocPage(m, p, g, l)
           k == [gfn |-> g, level |-> l]
<1>1. /\ m.active \in SUBSET Sp /\ m.zapped \in SUBSET Sp /\ m.invalid \in SUBSET Sp
      /\ m.unsync \in SUBSET Sp /\ m \in MmuType /\ m.valid \in Nat
      /\ m.key \in [Sp -> Tables \cup {NoKey}] /\ m.gen \in [Sp -> Nat]
  BY Zenon DEF MmuInv, MmuType
<1>2. p \in Sp /\ p \notin m.active /\ p \notin m.zapped
  BY Zenon DEF NextPage, Allocated
<1>3. /\ n.active = m.active \cup {p} /\ n.older = m.older \cup (m.active \X {p})
      /\ n.used = m.used + 1 /\ n.key = [m.key EXCEPT ![p] = k]
      /\ n.gen = [m.gen EXCEPT ![p] = m.valid] /\ n.writable = m.writable \ {g}
      /\ n.zapped = m.zapped /\ n.invalid = m.invalid /\ n.unsync = m.unsync
      /\ n.roots = m.roots /\ n.spt = m.spt /\ n.bits = m.bits /\ n.valid = m.valid
      /\ n.reload = m.reload /\ n \in MmuType
  BY <1>1, <1>2, AllocPageIs
<1>4. k \in Tables /\ k.gfn = g /\ k.level = l
  BY Zenon
<1> HIDE DEF n, k
<1>5. /\ m.zapped \subseteq m.invalid \ m.active
      /\ m.invalid \subseteq m.active \cup m.zapped
      /\ m.unsync \subseteq m.active \ m.invalid
      /\ m.used = Cardinality(m.active)
  BY Zenon DEF MmuInv, Lists, Allocated
<1>6. Allocated(n) = Allocated(m) \cup {p} /\ p \notin Allocated(m) /\ Allocated(m) \subseteq Sp
  BY <1>1, <1>2, <1>3, Zenon DEF Allocated
<1>7. /\ n.key[p] = k /\ n.gen[p] = m.valid
      /\ \A q \in Sp \ {p} : n.key[q] = m.key[q] /\ n.gen[q] = m.gen[q]
  BY <1>1, <1>2, <1>3, Zenon
<1>8. Lists(n)
  <2>1. Cardinality(m.active \cup {p}) = Cardinality(m.active) + 1
    BY <1>1, <1>2, Zenon DEF MmuInv, Counting
  <2> QED
    BY <1>2, <1>3, <1>5, <1>6, <2>1, Zenon DEF Lists, Allocated
<1>9. m.bits[p] = {}
  BY <1>2, <1>6, Zenon DEF MmuInv, Clean
<1>10. Levels(n)
  BY <1>2, <1>3, <1>4, <1>5, <1>6, <1>7, <1>9 DEF MmuInv, Levels, Level, Allocated
<1>11. Clean(n)
  BY <1>3, <1>6, Zenon DEF MmuInv, Clean
<1>12. ASSUME NEW q \in Sp, NEW i \in Slots, m.spt[q][i] # None
       PROVE  q \in m.active /\ m.spt[q][i] \in m.active \ m.invalid
              /\ m.key[m.spt[q][i]].level = m.key[q].level - 1
  BY <1>12, Zenon DEF MmuInv, Links, Level
<1>13. Links(n)
  <2> SUFFICES ASSUME NEW q \in Sp, NEW i \in Slots, m.spt[q][i] # None
               PROVE  /\ q \in n.active
                      /\ m.spt[q][i] \in n.active \ n.invalid
                      /\ n.key[m.spt[q][i]].level = n.key[q].level - 1
    BY <1>3 DEF Links, Level
  <2> QED
    BY <1>1, <1>2, <1>3, <1>7, <1>12
<1>14. Marks(n)
  BY <1>3, Zenon DEF MmuInv, Marks
<1>15. ValidSp(n) = ValidSp(m) \cup {p} /\ ValidSp(m) \subseteq Sp \ {p}
  BY <1>2, <1>3, <1>5, <1>6, <1>7 DEF ValidSp, IsObsolete
<1>16. \A q \in ValidSp(m) : m.key[q] # k
  BY <1>4, Zenon DEF Matching, ValidSpOf, Level
<1>17. Unique(n)
  BY <1>7, <1>15, <1>16, Zenon DEF MmuInv, Unique
<1>18. Protected(n)
  BY <1>3, <1>4, <1>7, <1>15 DEF MmuInv, Protected, Level
<1>19. Ages(n)
  <2>1. n.older \subseteq n.active \X n.active
    BY <1>3, Zenon DEF MmuInv, Ages
  <2>2. \A q \in Sp : m.gen[q] <= m.valid
    BY Zenon DEF MmuInv, Ages
  <2>3. \A q \in Sp : n.gen[q] <= n.valid
    BY <1>1, <1>3, <1>7, <2>2
  <2>4. ASSUME NEW q \in Sp, NEW r \in Sp, <<q, r>> \in n.older, r \notin n.invalid
        PROVE  n.gen[q] <= n.gen[r]
    <3>1. CASE <<q, r>> \in m.older
      <4>1. q \in m.active /\ r \in m.active /\ m.gen[q] <= m.gen[r]
        BY <1>3, <2>4, <3>1, Zenon DEF MmuInv, Ages
      <4> QED
        BY <1>2, <1>7, <4>1, Zenon
    <3>2. CASE r = p
      BY <1>3, <1>7, <2>3, <3>2, Zenon
    <3> QED
      BY <1>3, <2>4, <3>1, <3>2, Zenon
  <2> QED
    BY <1>3, <2>1, <2>3, <2>4, Zenon DEF MmuInv, Ages
<1>20. MmuInv(n)
  BY <1>3, <1>8, <1>10, <1>11, <1>13, <1>14, <1>17, <1>18, <1>19, ZenonT(60) DEF MmuInv
<1>21. ASSUME NEW rt, RootInv(m, rt) PROVE RootInv(n, rt)
  <2>1. ASSUME NEW v \in Vcpus, rt[v] # None
        PROVE  rt[v] \in n.active /\ n.key[rt[v]].level = RootLevel
    BY <1>1, <1>2, <1>3, <1>7, <1>21, <2>1 DEF RootInv, Level
  <2> QED
    BY <1>3, <1>15, <1>21, <2>1 DEF RootInv, Level
<1>22. \A q \in m.active : n.key[q] = m.key[q]
  BY <1>1, <1>2, <1>7, Zenon
<1> QED
  BY <1>2, <1>3, <1>7, <1>15, <1>20, <1>21, <1>22, Zenon DEF n, k

\* vmrun_sync_page takes the page out of the unsync ones, which is safe as the
\* guest can no longer write its table.
LEMMA SyncPagesIs ==
    ASSUME NEW m, MmuInv(m), NEW S \in SUBSET m.unsync, NEW bad \in SUBSET m.active,
           \A p \in S : m.key[p].gfn \notin m.writable
    PROVE  /\ Committed(m, SyncPages(m, S, bad), bad)
           /\ SyncPages(m, S, bad).unsync \cap S = {}
<1> DEFINE u == [m EXCEPT !.unsync = m.unsync \ S]
           n == SyncPages(m, S, bad)
<1>1. m \in MmuType
  BY Zenon DEF MmuInv
<1>2. /\ u.unsync = m.unsync \ S
      /\ u.active = m.active /\ u.older = m.older /\ u.zapped = m.zapped
      /\ u.key = m.key /\ u.gen = m.gen /\ u.invalid = m.invalid
      /\ u.bits = m.bits /\ u.roots = m.roots /\ u.spt = m.spt
      /\ u.used = m.used /\ u.valid = m.valid /\ u.writable = m.writable
      /\ u.reload = m.reload /\ u \in MmuType
  BY <1>1, Zenon DEF MmuType
<1>3. n = ZapPages(u, bad)
  BY Zenon DEF SyncPages
<1> HIDE DEF u, n
<1>4. ValidSp(u) = ValidSp(m) /\ Allocated(u) = Allocated(m)
  BY <1>2, Zenon DEF ValidSp, Allocated, IsObsolete
<1>5. Lists(u) /\ Levels(u) /\ Clean(u)
  BY <1>2, <1>4, ZenonT(60) DEF MmuInv, Lists, Levels, Clean, Level
<1>6. Links(u)
  BY <1>2 DEF MmuInv, Links, Level
<1>7. Marks(u)
  BY <1>2, Zenon DEF MmuInv, Marks
<1>8. Unique(u)
  BY <1>2, <1>4, Zenon DEF MmuInv, Unique
<1>9. Protected(u)
  BY <1>2, <1>4, Zenon DEF MmuInv, Protected, Level
<1>10. Ages(u)
  BY <1>2, Zenon DEF MmuInv, Ages
<1>11. MmuInv(u)
  BY <1>2, <1>5, <1>6, <1>7, <1>8, <1>9, <1>10, Zenon DEF MmuInv
<1>12. bad \in SUBSET u.active
  BY <1>2, Zenon
<1>13. Committed(u, n, bad)
  BY <1>3, <1>11, <1>12, ZapPagesIs, Zenon
<1>14. ASSUME NEW rt, RootInv(m, rt) PROVE RootInv(u, rt)
  BY <1>2, <1>4, <1>14, Zenon DEF RootInv, Level
<1>15. n.unsync \subseteq m.unsync \ S
  BY <1>2, <1>13, Zenon DEF Committed
<1>16. \A p \in m.active \ bad :
          p \notin m.unsync => p \in n.active /\ (p \in ValidSp(m) => p \in ValidSp(n))
  BY <1>2, <1>4, <1>13, Zenon DEF Committed
<1>17. \A rt : RootInv(m, rt) => RootInv(n, rt)
  BY <1>13, <1>14, Zenon DEF Committed
<1>18. /\ MmuInv(n) /\ n.used <= m.used /\ n.valid = m.valid /\ n.writable = m.writable
       /\ n.active \subseteq m.active
       /\ \A p \in n.active : n.key[p] = m.key[p] /\ n.gen[p] = m.gen[p]
       /\ \A p \in Sp : n.bits[p] \subseteq m.bits[p]
       /\ \A p \in Sp, i \in Slots : n.spt[p][i] # None => n.spt[p][i] = m.spt[p][i]
       /\ ValidSp(n) \subseteq ValidSp(m) \ bad
  BY <1>2, <1>4, <1>13 DEF Committed
<1>19. n.unsync \subseteq m.unsync /\ n.unsync \cap S = {}
  BY <1>15, Zenon
<1> QED
  BY <1>16, <1>17, <1>18, <1>19, Zenon DEF Committed, n

\* n is m after vmrun_mmu_get_page returned p for the table at g of level l: no
\* page above the leaves is lost.
Got(m, n, p, g, l) ==
    /\ MmuInv(n)
    /\ n.used <= m.used + 1
    /\ p \in ValidSp(n) /\ n.key[p] = [gfn |-> g, level |-> l]
    /\ \A q \in m.active : Level(m, q) > 1 => q \in n.active /\ n.key[q] = m.key[q]
    /\ \A rt : RootInv(m, rt) => RootInv(n, rt)

\* vmrun_mmu_get_page, on a hit and on a miss, returns a usable page of the table
\* and has zapped nothing but unsync leaves on the way.
LEMMA GetPageIs ==
    ASSUME NEW m, MmuInv(m), NEW g, NEW l, [gfn |-> g, level |-> l] \in Tables,
           NEW r \in GetPage(m, g, l)
    PROVE  Got(m, r.m, r.sp, g, l)
<1> DEFINE k == [gfn |-> g, level |-> l]
           match == Matching(m, g, l)
           take == IF l > 1 THEN ValidSpOf(m, g) \cap m.unsync ELSE {}
<1>1. /\ m \in MmuType /\ m.active \in SUBSET Sp /\ m.used \in Int
      /\ m.unsync \subseteq m.active
  BY Zenon DEF MmuInv, MmuType, Lists
<1>2. ValidSp(m) \subseteq m.active
  BY ValidSpIs, Zenon
<1>3. \A p \in match : p \in ValidSp(m) /\ m.key[p].gfn = g /\ m.key[p].level = l
  BY Zenon DEF Matching, ValidSpOf, Level
<1>4. \A p \in m.active : m.key[p] \in Tables
  BY Zenon DEF MmuInv, Levels, Allocated
<1>5. \A p \in match : m.key[p] = k
  BY <1>2, <1>3, <1>4, ShadowAssumption
<1>6. \A p \in m.unsync : m.key[p].level = 1
  BY Zenon DEF MmuInv, Levels, Level
<1>7. CASE match # {} /\ \E p \in match : r = [m |-> m, sp |-> p]
  <2>1. PICK p \in match : r = [m |-> m, sp |-> p]
    BY <1>7, Zenon
  <2>2. r.m = m /\ r.sp = p
    BY <2>1, Zenon
  <2> QED
    BY <1>1, <1>3, <1>5, <2>2 DEF Got
<1>8. CASE \E p \in match \cap m.unsync :
              \E q \in NextPage(ZapPages(m, {p})) :
                 r = [m |-> AllocPage(ZapPages(m, {p}), q, g, l), sp |-> q]
  <2>1. PICK p \in match \cap m.unsync :
             \E q \in NextPage(ZapPages(m, {p})) :
                r = [m |-> AllocPage(ZapPages(m, {p}), q, g, l), sp |-> q]
    BY <1>8, Zenon
  <2> DEFINE u == ZapPages(m, {p})
  <2>2. PICK q \in NextPage(u) : r = [m |-> AllocPage(u, q, g, l), sp |-> q]
    BY <2>1, Zenon
  <2>3. {p} \in SUBSET m.active
    BY <1>1, <2>1, Zenon
  <2>4. Committed(m, u, {p})
    BY <2>3, ZapPagesIs, Zenon
  <2> HIDE DEF u
  <2>5. MmuInv(u) /\ u.used <= m.used /\ u.used \in Int
    BY <2>4, Zenon DEF Committed, MmuInv, MmuType
  <2>6. Matching(u, g, l) = {}
    <3> SUFFICES ASSUME NEW q1 \in Matching(u, g, l) PROVE FALSE
      BY Zenon
    <3>1. q1 \in ValidSp(u) /\ u.key[q1].gfn = g /\ u.key[q1].level = l
      BY Zenon DEF Matching, ValidSpOf, Level
    <3>2. q1 \in u.active
      BY <2>5, <3>1, ValidSpIs, Zenon
    <3>3. q1 \in ValidSp(m) /\ q1 # p /\ u.key[q1] = m.key[q1]
      BY <2>4, <3>1, <3>2, Zenon DEF Committed
    <3>4. q1 \in match
      BY <3>1, <3>3, Zenon DEF Matching, ValidSpOf, Level
    <3> QED
      BY <1>3, <1>5, <2>1, <3>3, <3>4, Zenon DEF MmuInv, Unique
  <2> DEFINE n == AllocPage(u, q, g, l)
  <2>7. /\ MmuInv(n) /\ n.used = u.used + 1 /\ n.active = u.active \cup {q}
        /\ n.key[q] = k
        /\ \A p1 \in u.active : n.key[p1] = u.key[p1]
        /\ q \notin u.active
        /\ ValidSp(n) = ValidSp(u) \cup {q}
        /\ \A rt : RootInv(u, rt) => RootInv(n, rt)
    BY <2>5, <2>6, AllocPageKeeps
  <2>8. r.m = n /\ r.sp = q
    BY <2>2, Zenon
  <2> HIDE DEF n, k
  <2>9. ASSUME NEW p1 \in m.active, m.key[p1].level > 1
        PROVE  p1 \in n.active /\ n.key[p1] = m.key[p1]
    <3>1. p1 \notin m.unsync /\ p1 # p
      BY <1>6, <2>1, <2>9
    <3>2. p1 \in u.active /\ u.key[p1] = m.key[p1]
      BY <2>4, <3>1, Zenon DEF Committed
    <3> QED
      BY <2>7, <3>2, Zenon
  <2>10. \A rt : RootInv(m, rt) => RootInv(n, rt)
    BY <2>4, <2>7, Zenon DEF Committed
  <2> QED
    BY <1>1, <2>5, <2>7, <2>8, <2>9, <2>10 DEF Got, Level, k
<1>9. CASE match = {} /\ \E q \in NextPage(m), bad \in SUBSET take :
              r = [m |-> SyncPages(AllocPage(m, q, g, l), take, bad), sp |-> q]
  <2>1. PICK q \in NextPage(m), bad \in SUBSET take :
             r = [m |-> SyncPages(AllocPage(m, q, g, l), take, bad), sp |-> q]
    BY <1>9, Zenon
  <2> DEFINE u == AllocPage(m, q, g, l)
             n == SyncPages(u, take, bad)
  <2>2. /\ MmuInv(u) /\ u.used = m.used + 1 /\ u.active = m.active \cup {q}
        /\ u.unsync = m.unsync /\ u.writable = m.writable \ {g}
        /\ u.key[q] = k
        /\ \A p1 \in m.active : u.key[p1] = m.key[p1]
        /\ q \notin m.active
        /\ ValidSp(u) = ValidSp(m) \cup {q}
        /\ \A rt : RootInv(m, rt) => RootInv(u, rt)
    <3>1. Matching(m, g, l) = {}
      BY <1>9, Zenon
    <3> QED
      BY <3>1, AllocPageKeeps
  <2>3. r.m = n /\ r.sp = q
    BY <2>1, Zenon
  <2> HIDE DEF u, k
  <2>4. take \in SUBSET u.unsync /\ bad \in SUBSET u.active
    BY <1>1, <2>2, Zenon
  <2>5. \A p \in take : u.key[p].gfn \notin u.writable
    BY <1>1, <2>2, Zenon DEF ValidSpOf
  <2>6. Committed(u, n, bad)
    <3> HIDE DEF take
    <3> QED
      BY <2>2, <2>4, <2>5, SyncPagesIs, Zenon
  <2> HIDE DEF n, take
  <2>7. MmuInv(n) /\ n.used <= m.used + 1
    BY <2>2, <2>6, Zenon DEF Committed
  <2>8. ASSUME NEW p1 \in m.active \cup {q}, p1 \notin m.unsync
        PROVE  p1 \in n.active /\ n.key[p1] = u.key[p1] /\ (p1 \in ValidSp(u) => p1 \in ValidSp(n))
    <3>1. p1 \in u.active \ bad
      BY <2>1, <2>2, <2>8, Zenon DEF take
    <3> QED
      BY <2>2, <2>6, <2>8, <3>1, Zenon DEF Committed
  <2>9. q \in ValidSp(n) /\ n.key[q] = k
    BY <1>1, <2>2, <2>8, Zenon
  <2>10. ASSUME NEW p1 \in m.active, m.key[p1].level > 1
         PROVE  p1 \in n.active /\ n.key[p1] = m.key[p1]
    <3>1. p1 \notin m.unsync
      BY <1>6, <2>10
    <3> QED
      BY <2>2, <2>8, <3>1, Zenon
  <2>11. \A rt : RootInv(m, rt) => RootInv(n, rt)
    BY <2>2, <2>6, Zenon DEF Committed
  <2> QED
    BY <2>3, <2>7, <2>9, <2>10, <2>11, Zenon DEF Got, Level, k
<1>10. \/ match # {} /\ \E p \in match : r = [m |-> m, sp |-> p]
       \/ \E p \in match \cap m.unsync :
              \E q \in NextPage(ZapPages(m, {p})) :
                 r = [m |-> AllocPage(ZapPages(m, {p}), q, g, l), sp |-> q]
       \/ match = {} /\ \E q \in NextPage(m), bad \in SUBSET take :
              r = [m |-> SyncPages(AllocPage(m, q, g, l), take, bad), sp |-> q]
  <2> DEFINE found == {[m |-> m, sp |-> p] : p \in match}
             after(p) == {[m |-> AllocPage(ZapPages(m, {p}), q, g, l), sp |-> q] :
                             q \in NextPage(ZapPages(m, {p}))}
             rebuilt == UNION {after(p) : p \in match \cap m.unsync}
             new(q) == {[m |-> SyncPages(AllocPage(m, q, g, l), take, bad), sp |-> q] :
                           bad \in SUBSET take}
             fresh == UNION {new(q) : q \in NextPage(m)}
  <2>1. r \in IF match # {} THEN found \cup rebuilt ELSE fresh
    BY Zenon DEF GetPage
  <2>2. r \in found => \E p \in match : r = [m |-> m, sp |-> p]
    BY Zenon
  <2>3. r \in rebuilt =>
            \E p \in match \cap m.unsync :
               \E q \in NextPage(ZapPages(m, {p})) :
                  r = [m |-> AllocPage(ZapPages(m, {p}), q, g, l), sp |-> q]
    BY Zenon
  <2>4. r \in fresh =>
            \E q \in NextPage(m), bad \in SUBSET take :
               r = [m |-> SyncPages(AllocPage(m, q, g, l), take, bad), sp |-> q]
    <3> HIDE DEF take
    <3> QED
      BY Zenon
  <2> HIDE DEF found, rebuilt, fresh, match, take
  <2> QED
    BY <2>1, <2>2, <2>3, <2>4, Zenon
<1> QED
  BY <1>7, <1>8, <1>9, <1>10, Zenon

-----------------------------------------------------------------------------
(* Marking: link_shadow_page and vmrun_unsync_page.                        *)

\* The invariant of the pages, except that the entries to the pages in S may not
\* be marked yet.
MarksBut(m, S) ==
    \A p \in Sp, i \in Slots :
        /\ m.spt[p][i] # None /\ m.spt[p][i] \notin S
        /\ m.spt[p][i] \in m.unsync \/ m.bits[m.spt[p][i]] # {}
        => i \in m.bits[p]

\* The invariant while the pages of S wait for their parents to be marked.
MmuInvBut(m, S) ==
    /\ Counting /\ m \in MmuType
    /\ Lists(m) /\ Levels(m) /\ Clean(m) /\ Links(m) /\ MarksBut(m, S)
    /\ Unique(m) /\ Protected(m) /\ Ages(m)

\* mmu_mark_parents_unsync reaches a parent without marks of every page it reaches.
LEMMA MarkedFromIs ==
    ASSUME NEW m \in MmuType, NEW S \in SUBSET Sp
    PROVE  /\ MarkedFrom(m, S) \in SUBSET Sp
           /\ S \subseteq MarkedFrom(m, S)
           /\ \A p \in Allocated(m), i \in Slots :
                 m.spt[p][i] \in MarkedFrom(m, S) /\ m.bits[p] = {} => p \in MarkedFrom(m, S)
<1> DEFINE M == MarkedFrom(m, S)
           closed == {T \in SUBSET Sp :
                        /\ S \subseteq T
                        /\ \A e \in ParentPtes(m, T) : m.bits[e[1]] = {} => e[1] \in T}
<1>1. M = {p \in Sp : \A T \in closed : p \in T}
  BY Zenon DEF MarkedFrom
<1>2. M \in SUBSET Sp /\ S \subseteq M
  BY <1>1, Zenon
<1>3. ASSUME NEW p \in Allocated(m), NEW i \in Slots, m.spt[p][i] \in M, m.bits[p] = {}
      PROVE  p \in M
  <2>1. p \in Sp
    BY Zenon DEF MmuType, Allocated
  <2>2. ASSUME NEW T \in closed PROVE p \in T
    <3>1. m.spt[p][i] \in T
      BY <1>1, <1>3, Zenon
    <3>2. \A e \in ParentPtes(m, T) : m.bits[e[1]] = {} => e[1] \in T
      BY Zenon
    <3>3. <<p, i>> \in ParentPtes(m, T)
      BY <3>1, Zenon DEF ParentPtes
    <3>4. <<p, i>>[1] = p
      BY Zenon
    <3> QED
      BY <1>3, <3>2, <3>3, <3>4, Zenon
  <2> QED
    BY <1>1, <2>1, <2>2, Zenon
<1> QED
  BY <1>2, <1>3, Zenon

\* mmu_mark_parents_unsync changes the marks only.
LEMMA MarkParentsIs ==
    ASSUME NEW m \in MmuType, NEW S \in SUBSET Sp
    PROVE  /\ MarkParentsUnsync(m, S).bits =
                 [p \in Sp |-> m.bits[p] \cup
                     {i \in Slots : <<p, i>> \in ParentPtes(m, MarkedFrom(m, S))}]
           /\ MarkParentsUnsync(m, S).active = m.active
           /\ MarkParentsUnsync(m, S).older = m.older
           /\ MarkParentsUnsync(m, S).zapped = m.zapped
           /\ MarkParentsUnsync(m, S).key = m.key
           /\ MarkParentsUnsync(m, S).gen = m.gen
           /\ MarkParentsUnsync(m, S).invalid = m.invalid
           /\ MarkParentsUnsync(m, S).unsync = m.unsync
           /\ MarkParentsUnsync(m, S).roots = m.roots
           /\ MarkParentsUnsync(m, S).spt = m.spt
           /\ MarkParentsUnsync(m, S).used = m.used
           /\ MarkParentsUnsync(m, S).valid = m.valid
           /\ MarkParentsUnsync(m, S).writable = m.writable
           /\ MarkParentsUnsync(m, S).reload = m.reload
           /\ MarkParentsUnsync(m, S) \in MmuType
<1> DEFINE ptes == ParentPtes(m, MarkedFrom(m, S))
           f == [p \in Sp |-> m.bits[p] \cup {i \in Slots : <<p, i>> \in ptes}]
<1> HIDE DEF ptes
<1>1. MarkParentsUnsync(m, S) = [m EXCEPT !.bits = f]
  BY Zenon DEF MarkParentsUnsync, ptes
<1>2. f \in [Sp -> SUBSET Slots]
  BY Zenon DEF MmuType
<1> HIDE DEF f
<1>3. MarkParentsUnsync(m, S) =
          [active |-> m.active, older |-> m.older, zapped |-> m.zapped, key |-> m.key,
           gen |-> m.gen, invalid |-> m.invalid, unsync |-> m.unsync, roots |-> m.roots,
           spt |-> m.spt, bits |-> f, used |-> m.used, valid |-> m.valid,
           writable |-> m.writable, reload |-> m.reload]
  BY <1>1, Zenon DEF MmuType
<1>4. MarkParentsUnsync(m, S) \in MmuType
  BY <1>2, <1>3 DEF MmuType
<1> QED
  BY <1>3, <1>4 DEF f, ptes

\* The marks go up from S until they meet a page that has one: above that page
\* every entry is marked already.
LEMMA MarkParentsKeep ==
    ASSUME NEW m, NEW S \in SUBSET Sp, MmuInvBut(m, S)
    PROVE  MmuInv(MarkParentsUnsync(m, S))
<1> DEFINE n == MarkParentsUnsync(m, S)
           M == MarkedFrom(m, S)
<1>1. /\ m \in MmuType /\ m.active \in SUBSET Sp /\ m.zapped \in SUBSET Sp
      /\ m.bits \in [Sp -> SUBSET Slots]
  BY Zenon DEF MmuInvBut, MmuType
<1>2. /\ n.bits = [p \in Sp |-> m.bits[p] \cup {i \in Slots : <<p, i>> \in ParentPtes(m, M)}]
      /\ n.active = m.active /\ n.older = m.older /\ n.zapped = m.zapped
      /\ n.key = m.key /\ n.gen = m.gen /\ n.invalid = m.invalid
      /\ n.unsync = m.unsync /\ n.roots = m.roots /\ n.spt = m.spt
      /\ n.used = m.used /\ n.valid = m.valid /\ n.writable = m.writable
      /\ n.reload = m.reload /\ n \in MmuType
  BY <1>1, MarkParentsIs
<1>3. /\ M \in SUBSET Sp /\ S \subseteq M
      /\ \A p \in Allocated(m), i \in Slots :
            m.spt[p][i] \in M /\ m.bits[p] = {} => p \in M
  BY <1>1, MarkedFromIs, Zenon
<1> HIDE DEF n, M
<1>4. Allocated(n) = Allocated(m) /\ ValidSp(n) = ValidSp(m) /\ Allocated(m) \subseteq Sp
  BY <1>1, <1>2, Zenon DEF Allocated, ValidSp, IsObsolete
<1>5. \A p \in Sp, i \in Slots :
          i \in n.bits[p] <=> i \in m.bits[p] \/ (p \in Allocated(m) /\ m.spt[p][i] \in M)
  BY <1>2 DEF ParentPtes
<1>6. \A p \in Sp : n.bits[p] \in SUBSET Slots
  BY <1>2, Zenon DEF MmuType
<1>7. Lists(n)
  BY <1>2, <1>4, Zenon DEF MmuInvBut, Lists
<1>8. \A p \in Allocated(m) : m.key[p].level \in 1..RootLevel
  BY ShadowAssumption, Zenon DEF MmuInvBut, Levels
<1>9. Levels(n)
  <2>1. ASSUME NEW p \in Allocated(m), m.key[p].level = 1, NEW i \in n.bits[p]
        PROVE  FALSE
    <3>1. i \in Slots /\ m.bits[p] = {} /\ p \in Sp
      BY <1>4, <1>6, <2>1, Zenon DEF MmuInvBut, Levels, Level
    <3>2. m.spt[p][i] \in M
      BY <1>5, <2>1, <3>1, Zenon
    <3>3. m.spt[p][i] # None
      BY <1>3, <3>2, ShadowAssumption, Zenon
    <3>4. m.spt[p][i] \in Allocated(m) /\ m.key[m.spt[p][i]].level = 0
      BY <2>1, <3>1, <3>3 DEF MmuInvBut, Links, Level, Allocated
    <3> QED
      BY <1>8, <3>4, ShadowAssumption
  <2>2. \A p \in Allocated(n) : Level(n, p) = 1 => n.bits[p] = {}
    BY <1>2, <1>4, <2>1, Zenon DEF Level
  <2>3. \A p \in Allocated(n) : n.key[p] \in Tables
    BY <1>2, <1>4, Zenon DEF MmuInvBut, Levels
  <2>4. \A p \in n.unsync : Level(n, p) = 1
    BY <1>2 DEF MmuInvBut, Levels, Level
  <2> QED
    BY <2>2, <2>3, <2>4, Zenon DEF Levels
<1>10. Clean(n)
  <2>1. ASSUME NEW p \in Sp \ Allocated(m), NEW i \in n.bits[p] PROVE FALSE
    BY <1>5, <1>6, <2>1, ZenonT(60) DEF MmuInvBut, Clean
  <2> QED
    BY <1>4, <2>1, Zenon DEF Clean
<1>11. Links(n)
  BY <1>2 DEF MmuInvBut, Links, Level
<1>12. Marks(n)
  <2> SUFFICES ASSUME NEW p \in Sp, NEW i \in Slots, m.spt[p][i] # None,
                      m.spt[p][i] \in m.unsync \/ n.bits[m.spt[p][i]] # {}
               PROVE  i \in n.bits[p]
    BY <1>2, Zenon DEF Marks
  <2> DEFINE c == m.spt[p][i]
  <2>1. p \in Allocated(m) /\ c \in Allocated(m) /\ c \in Sp
    BY <1>1, Zenon DEF MmuInvBut, Links, Allocated
  <2>2. CASE c \in M
    BY <1>5, <2>1, <2>2, Zenon
  <2>3. CASE c \notin M
    <3>1. c \in m.unsync \/ m.bits[c] # {}
      <4>1. ASSUME NEW j \in n.bits[c], m.bits[c] = {} PROVE FALSE
        <5>1. j \in Slots /\ m.spt[c][j] \in M
          BY <1>5, <1>6, <2>1, <4>1, Zenon
        <5> QED
          BY <1>3, <2>1, <2>3, <4>1, <5>1, Zenon
      <4> QED
        BY <4>1, Zenon
    <3>2. c \notin S
      BY <1>3, <2>3, Zenon
    <3>3. i \in m.bits[p]
      BY <3>1, <3>2, Zenon DEF MmuInvBut, MarksBut
    <3> QED
      BY <1>5, <3>3, Zenon
  <2> QED
    BY <2>2, <2>3, Zenon
<1>13. Unique(n)
  BY <1>2, <1>4, Zenon DEF MmuInvBut, Unique
<1>14. Protected(n)
  BY <1>2, <1>4, ZenonT(60) DEF MmuInvBut, Protected, Level
<1>15. Ages(n)
  BY <1>2, Zenon DEF MmuInvBut, Ages
<1> QED
  BY <1>2, <1>7, <1>9, <1>10, <1>11, <1>12, <1>13, <1>14, <1>15, Zenon DEF MmuInv, MmuInvBut, n

\* What the roots rely on is left alone.
LEMMA RootSame ==
    ASSUME NEW m, NEW n, n.active = m.active, n.zapped = m.zapped, n.key = m.key,
           n.gen = m.gen, n.invalid = m.invalid, n.roots = m.roots, n.valid = m.valid,
           n.reload = m.reload, NEW rt, RootInv(m, rt)
    PROVE  RootInv(n, rt)
<1>1. ValidSp(n) = ValidSp(m)
  BY Zenon DEF ValidSp, Allocated, IsObsolete
<1> QED
  BY <1>1, Zenon DEF RootInv, Level

\* n is m with other entries, marks, unsync pages or writable frames.
SameLists(m, n) ==
    /\ n.active = m.active /\ n.zapped = m.zapped /\ n.key = m.key /\ n.gen = m.gen
    /\ n.invalid = m.invalid /\ n.roots = m.roots /\ n.valid = m.valid
    /\ n.reload = m.reload /\ n.used = m.used

\* The roots do not depend on the entries, marks, unsync pages and writable frames.
LEMMA SameListsRoots ==
    ASSUME NEW m, NEW n, SameLists(m, n), NEW rt, RootInv(m, rt)
    PROVE  RootInv(n, rt)
<1>1. /\ n.active = m.active /\ n.zapped = m.zapped /\ n.key = m.key /\ n.gen = m.gen
      /\ n.invalid = m.invalid /\ n.roots = m.roots /\ n.valid = m.valid
      /\ n.reload = m.reload
  BY Zenon DEF SameLists
<1> QED
  BY <1>1, RootSame, Zenon

\* Marking parents leaves the lists alone.
LEMMA MarkParentsSame ==
    ASSUME NEW m \in MmuType, NEW S \in SUBSET Sp
    PROVE  SameLists(m, MarkParentsUnsync(m, S))
BY MarkParentsIs, Zenon DEF SameLists

\* link_shadow_page, below a page in use and above a usable one of the next
\* level, marks the new entry and then what is above when the child needs it.
LEMMA LinkShadowPageKeeps ==
    ASSUME NEW m, MmuInv(m), NEW p \in m.active, NEW i \in Slots,
           NEW child \in m.active \ m.invalid, Level(m, child) = Level(m, p) - 1
    PROVE  /\ MmuInv(LinkShadowPage(m, p, i, child))
           /\ SameLists(m, LinkShadowPage(m, p, i, child))
<1> DEFINE t == [m.spt EXCEPT ![p] = [m.spt[p] EXCEPT ![i] = child]]
           x == [m EXCEPT !.spt = t]
           b == [m.bits EXCEPT ![p] = m.bits[p] \cup {i}]
           w == [x EXCEPT !.bits = b]
<1>1. /\ m \in MmuType /\ m.active \in SUBSET Sp /\ m.zapped \in SUBSET Sp
      /\ p \in Sp /\ child \in Sp
      /\ m.bits \in [Sp -> SUBSET Slots] /\ m.spt \in [Sp -> [Slots -> Sp \cup {None}]]
  BY Zenon DEF MmuInv, MmuType
<1>2. /\ t \in [Sp -> [Slots -> Sp \cup {None}]]
      /\ \A q \in Sp, j \in Slots : t[q][j] = IF q = p /\ j = i THEN child ELSE m.spt[q][j]
  BY <1>1, Zenon
<1>3. /\ b \in [Sp -> SUBSET Slots]
      /\ \A q \in Sp \ {p} : b[q] = m.bits[q]
      /\ b[p] = m.bits[p] \cup {i}
  BY <1>1, Zenon
<1>4. LinkShadowPage(m, p, i, child) =
          IF child \in m.unsync \/ m.bits[child] # {}
          THEN IF m.bits[p] = {} THEN MarkParentsUnsync(w, {p}) ELSE w
          ELSE x
  BY <1>1, Zenon DEF LinkShadowPage, MarkUnsync, MmuType
<1>5. /\ x.spt = t /\ x.bits = m.bits
      /\ x.active = m.active /\ x.older = m.older /\ x.zapped = m.zapped
      /\ x.key = m.key /\ x.gen = m.gen /\ x.invalid = m.invalid
      /\ x.unsync = m.unsync /\ x.roots = m.roots
      /\ x.used = m.used /\ x.valid = m.valid /\ x.writable = m.writable
      /\ x.reload = m.reload
  BY <1>1, Zenon DEF MmuType
<1>6. /\ w.spt = t /\ w.bits = b
      /\ w.active = m.active /\ w.older = m.older /\ w.zapped = m.zapped
      /\ w.key = m.key /\ w.gen = m.gen /\ w.invalid = m.invalid
      /\ w.unsync = m.unsync /\ w.roots = m.roots
      /\ w.used = m.used /\ w.valid = m.valid /\ w.writable = m.writable
      /\ w.reload = m.reload
  BY <1>1, Zenon DEF MmuType
<1>7. x \in MmuType /\ w \in MmuType
  <2> HIDE DEF t, b
  <2>1. x = [m EXCEPT !.spt = t] /\ w = [x EXCEPT !.bits = b]
    BY Zenon
  <2> HIDE DEF x, w
  <2>2. x = [active |-> m.active, older |-> m.older, zapped |-> m.zapped, key |-> m.key,
             gen |-> m.gen, invalid |-> m.invalid, unsync |-> m.unsync, roots |-> m.roots,
             spt |-> t, bits |-> m.bits, used |-> m.used, valid |-> m.valid,
             writable |-> m.writable, reload |-> m.reload]
    BY <1>1, <2>1, Zenon DEF MmuType
  <2>3. w = [active |-> m.active, older |-> m.older, zapped |-> m.zapped, key |-> m.key,
             gen |-> m.gen, invalid |-> m.invalid, unsync |-> m.unsync, roots |-> m.roots,
             spt |-> t, bits |-> b, used |-> m.used, valid |-> m.valid,
             writable |-> m.writable, reload |-> m.reload]
    BY <2>2, <2>1, Zenon
  <2>4. x \in MmuType
    BY <1>1, <1>2, <2>2, Zenon DEF MmuType
  <2>5. w \in MmuType
    BY <1>1, <1>2, <1>3, <2>3, Zenon DEF MmuType
  <2> QED
    BY <2>4, <2>5, Zenon
<1> HIDE DEF t, b, x, w
<1>8. \A q \in Allocated(m) : m.key[q].level \in 1..RootLevel
  BY ShadowAssumption, Zenon DEF MmuInv, Levels
<1>9. m.key[p].level > 1 /\ m.key[child].level = m.key[p].level - 1
  BY <1>8, ShadowAssumption, SMTT(30) DEF Level, Allocated
<1>10. ASSUME NEW n, n \in {x, w}
       PROVE  /\ SameLists(m, n)
              /\ Lists(n) /\ Levels(n) /\ Clean(n) /\ Links(n) /\ Unique(n) /\ Protected(n)
              /\ Ages(n)
  <2>1. /\ n.active = m.active /\ n.older = m.older /\ n.zapped = m.zapped
        /\ n.key = m.key /\ n.gen = m.gen /\ n.invalid = m.invalid
        /\ n.unsync = m.unsync /\ n.roots = m.roots
        /\ n.used = m.used /\ n.valid = m.valid /\ n.writable = m.writable
        /\ n.reload = m.reload /\ n.spt = t
    BY <1>5, <1>6, <1>10, Zenon
  <2>2. \A q \in Sp \ {p} : n.bits[q] = m.bits[q]
    BY <1>3, <1>5, <1>6, <1>10, Zenon
  <2>3. Allocated(n) = Allocated(m) /\ ValidSp(n) = ValidSp(m) /\ Allocated(m) \subseteq Sp
    BY <1>1, <2>1, Zenon DEF Allocated, ValidSp, IsObsolete
  <2>4. SameLists(m, n) /\ Lists(n)
    BY <2>1, <2>3, Zenon DEF MmuInv, Lists, SameLists
  <2>5. Levels(n)
    BY <1>9, <2>1, <2>2, <2>3 DEF MmuInv, Levels, Level
  <2>6. Clean(n)
    BY <2>2, <2>3, Zenon DEF MmuInv, Clean, Allocated
  <2>7. Links(n)
    <3> SUFFICES ASSUME NEW q \in Sp, NEW j \in Slots, t[q][j] # None
                 PROVE  /\ q \in m.active
                        /\ t[q][j] \in m.active \ m.invalid
                        /\ m.key[t[q][j]].level = m.key[q].level - 1
      BY <2>1, ZenonT(60) DEF Links, Level
    <3>1. CASE q = p /\ j = i
      BY <1>2, <1>9, <3>1, Zenon
    <3>2. CASE ~(q = p /\ j = i)
      BY <1>2, <3>2 DEF MmuInv, Links, Level
    <3> QED
      BY <3>1, <3>2, Zenon
  <2>8. Unique(n)
    BY <2>1, <2>3, Zenon DEF MmuInv, Unique
  <2>9. Protected(n)
    BY <2>1, <2>3, Zenon DEF MmuInv, Protected, Level
  <2>10. Ages(n)
    BY <2>1, Zenon DEF MmuInv, Ages
  <2> QED
    BY <2>4, <2>5, <2>6, <2>7, <2>8, <2>9, <2>10, Zenon
<1>11. CASE ~(child \in m.unsync \/ m.bits[child] # {})
  <2>1. Marks(x)
    <3> SUFFICES ASSUME NEW q \in Sp, NEW j \in Slots, t[q][j] # None,
                        t[q][j] \in m.unsync \/ m.bits[t[q][j]] # {}
                 PROVE  j \in m.bits[q]
      BY <1>5, Zenon DEF Marks
    <3>1. t[q][j] = m.spt[q][j]
      BY <1>2, <1>11, Zenon
    <3> QED
      BY <3>1, Zenon DEF MmuInv, Marks
  <2> QED
    BY <1>4, <1>7, <1>10, <1>11, <2>1, Zenon DEF MmuInv
<1>12. CASE child \in m.unsync \/ m.bits[child] # {}
  <2>1. ASSUME NEW q \in Sp, NEW j \in Slots, t[q][j] # None,
               t[q][j] \in m.unsync \/ b[t[q][j]] # {},
               t[q][j] # p \/ m.bits[p] # {}
        PROVE  j \in b[q]
    <3>1. CASE q = p /\ j = i
      BY <1>3, <3>1, Zenon
    <3>2. CASE ~(q = p /\ j = i)
      <4>1. t[q][j] = m.spt[q][j] /\ m.spt[q][j] \in Sp
        BY <1>1, <1>2, <2>1, <3>2
      <4>2. m.spt[q][j] \in m.unsync \/ m.bits[m.spt[q][j]] # {}
        BY <1>3, <2>1, <4>1, Zenon
      <4>3. j \in m.bits[q]
        BY <2>1, <4>1, <4>2, Zenon DEF MmuInv, Marks
      <4> QED
        BY <1>3, <4>3, Zenon
    <3> QED
      BY <3>1, <3>2, Zenon
  <2>2. CASE m.bits[p] = {}
    <3>1. MarksBut(w, {p})
      BY <1>6, <2>1, Zenon DEF MarksBut
    <3>2. MmuInvBut(w, {p})
      BY <1>7, <1>10, <3>1 DEF MmuInv, MmuInvBut
    <3>3. {p} \in SUBSET Sp
      BY <1>1, Zenon
    <3>4. MmuInv(MarkParentsUnsync(w, {p})) /\ SameLists(w, MarkParentsUnsync(w, {p}))
      BY <1>7, <3>2, <3>3, MarkParentsKeep, MarkParentsSame, Zenon
    <3>5. SameLists(m, MarkParentsUnsync(w, {p}))
      BY <1>6, <3>4, Zenon DEF SameLists
    <3> QED
      BY <1>4, <1>12, <2>2, <3>4, <3>5, Zenon
  <2>3. CASE m.bits[p] # {}
    <3>1. Marks(w)
      BY <1>6, <2>1, <2>3, Zenon DEF Marks
    <3> QED
      BY <1>4, <1>7, <1>10, <1>12, <2>3, <3>1, Zenon DEF MmuInv
  <2> QED
    BY <2>2, <2>3, Zenon
<1> QED
  BY <1>11, <1>12, Zenon

\* mmu_need_write_protect: an untracked frame is shadowed by leaves only, and
\* every usable one goes unsync when the frame becomes writable.
LEMMA UnsyncPagesKeep ==
    ASSUME NEW m, MmuInv(m), NEW g \in Gfns, ~PageTrackIsActive(m, g),
           NEW u, u = [m EXCEPT !.writable = m.writable \cup {g}]
    PROVE  /\ MmuInv(UnsyncPages(u, ValidSpOf(u, g) \ u.unsync))
           /\ SameLists(m, UnsyncPages(u, ValidSpOf(u, g) \ u.unsync))
<1> DEFINE S == ValidSpOf(m, g) \ m.unsync
           y == m.unsync \cup S
           w == [u EXCEPT !.unsync = y]
<1>1. /\ m \in MmuType /\ m.active \in SUBSET Sp /\ m.zapped \in SUBSET Sp
      /\ m.unsync \in SUBSET Sp
      /\ m.writable \in SUBSET Gfns
  BY Zenon DEF MmuInv, MmuType
<1>2. /\ u.spt = m.spt /\ u.bits = m.bits
      /\ u.active = m.active /\ u.older = m.older /\ u.zapped = m.zapped
      /\ u.key = m.key /\ u.gen = m.gen /\ u.invalid = m.invalid
      /\ u.unsync = m.unsync /\ u.roots = m.roots
      /\ u.used = m.used /\ u.valid = m.valid /\ u.writable = m.writable \cup {g}
      /\ u.reload = m.reload /\ u \in MmuType
  BY <1>1, Zenon DEF MmuType
<1>3. ValidSpOf(u, g) \ u.unsync = S
  BY <1>2, Zenon DEF ValidSpOf, ValidSp, Allocated, IsObsolete
<1>4. ValidSp(m) \subseteq m.active /\ ValidSp(m) \cap m.invalid = {}
  BY ValidSpIs, Zenon DEF ValidSp
<1>5. S \subseteq ValidSp(m) /\ S \in SUBSET Sp /\ y \in SUBSET Sp
  BY <1>1, <1>4, Zenon DEF ValidSpOf
<1>6. UnsyncPages(u, S) = MarkParentsUnsync(w, S)
  BY <1>2, Zenon DEF UnsyncPages
<1> HIDE DEF S, y
<1>7. /\ w.spt = m.spt /\ w.bits = m.bits
      /\ w.active = m.active /\ w.older = m.older /\ w.zapped = m.zapped
      /\ w.key = m.key /\ w.gen = m.gen /\ w.invalid = m.invalid
      /\ w.unsync = y /\ w.roots = m.roots
      /\ w.used = m.used /\ w.valid = m.valid /\ w.writable = m.writable \cup {g}
      /\ w.reload = m.reload /\ w \in MmuType
  BY <1>2, <1>5, ZenonT(60) DEF MmuType
<1> HIDE DEF w
<1>8. ASSUME NEW p \in ValidSp(m), m.key[p].gfn = g PROVE m.key[p].level = 1 /\ p \in y
  <2>1. m.key[p].level \in 1..RootLevel
    BY <1>4, ShadowAssumption, Zenon DEF MmuInv, Levels, Allocated
  <2>2. p \in Allocated(m) \ m.invalid
    BY <1>4, Zenon DEF Allocated
  <2>3. ~(m.key[p].level > 1)
    BY <1>8, <2>2, Zenon DEF PageTrackIsActive, Level
  <2> QED
    BY <1>8, <2>1, <2>3, ShadowAssumption DEF S, y, ValidSpOf
<1>9. Allocated(w) = Allocated(m) /\ ValidSp(w) = ValidSp(m)
  BY <1>7, Zenon DEF Allocated, ValidSp, IsObsolete
<1>10. Lists(w)
  BY <1>4, <1>5, <1>7, <1>9, Zenon DEF MmuInv, Lists, y
<1>11. Levels(w)
  <2>1. \A p \in S : m.key[p].level = 1
    BY <1>5, <1>8, Zenon DEF S, ValidSpOf
  <2> QED
    BY <1>7, <1>9, <2>1, Zenon DEF MmuInv, Levels, Level, y
<1>12. Clean(w)
  BY <1>7, <1>9, Zenon DEF MmuInv, Clean
<1>13. Links(w)
  BY <1>7, Zenon DEF MmuInv, Links, Level
<1>14. MarksBut(w, S)
  BY <1>7, Zenon DEF MmuInv, Marks, MarksBut, y
<1>15. Unique(w)
  BY <1>7, <1>9, Zenon DEF MmuInv, Unique
<1>16. Protected(w)
  BY <1>7, <1>8, <1>9, Zenon DEF MmuInv, Protected, Level, y
<1>17. Ages(w)
  BY <1>7, Zenon DEF MmuInv, Ages
<1>18. MmuInvBut(w, S)
  BY <1>7, <1>10, <1>11, <1>12, <1>13, <1>14, <1>15, <1>16, <1>17, Zenon DEF MmuInv, MmuInvBut
<1>19. MmuInv(MarkParentsUnsync(w, S)) /\ SameLists(w, MarkParentsUnsync(w, S))
  BY <1>5, <1>7, <1>18, MarkParentsKeep, MarkParentsSame, Zenon
<1>20. SameLists(m, MarkParentsUnsync(w, S))
  BY <1>7, <1>19, Zenon DEF SameLists
<1> QED
  BY <1>3, <1>6, <1>19, <1>20, Zenon

-----------------------------------------------------------------------------
(* The walk of mmu_sync_children.                                          *)

\* Marks may be taken back as long as what is above an unsync or a marked page
\* stays marked.
LEMMA BitsKeep ==
    ASSUME NEW m, MmuInv(m), NEW b \in [Sp -> SUBSET Slots],
           \A p \in Sp : b[p] \subseteq m.bits[p],
           NEW n, n = [m EXCEPT !.bits = b], Marks(n)
    PROVE  MmuInv(n) /\ SameLists(m, n)
<1>1. m \in MmuType
  BY Zenon DEF MmuInv
<1>2. /\ n.spt = m.spt /\ n.bits = b
      /\ n.active = m.active /\ n.older = m.older /\ n.zapped = m.zapped
      /\ n.key = m.key /\ n.gen = m.gen /\ n.invalid = m.invalid
      /\ n.unsync = m.unsync /\ n.roots = m.roots
      /\ n.used = m.used /\ n.valid = m.valid /\ n.writable = m.writable
      /\ n.reload = m.reload /\ n \in MmuType
  BY <1>1, Zenon DEF MmuType
<1>3. /\ Allocated(n) = Allocated(m) /\ ValidSp(n) = ValidSp(m)
  BY <1>2, Zenon DEF Allocated, ValidSp, IsObsolete
<1>4. \A p \in Sp : m.bits[p] = {} => n.bits[p] = {}
  BY <1>2, Zenon
<1>5. Allocated(m) \subseteq Sp
  BY <1>1, Zenon DEF MmuType, Allocated
<1>6. Lists(n)
  BY <1>2, <1>3, Zenon DEF MmuInv, Lists
<1>7. Levels(n)
  BY <1>2, <1>3, <1>4, <1>5 DEF MmuInv, Levels, Level
<1>8. Clean(n)
  BY <1>3, <1>4, Zenon DEF MmuInv, Clean
<1>9. Links(n)
  BY <1>2 DEF MmuInv, Links, Level
<1>10. Unique(n)
  BY <1>2, <1>3, ZenonT(60) DEF MmuInv, Unique
<1>11. Protected(n)
  BY <1>2, <1>3, Zenon DEF MmuInv, Protected, Level
<1>12. Ages(n)
  BY <1>2, Zenon DEF MmuInv, Ages
<1>13. SameLists(m, n)
  BY <1>2, Zenon DEF SameLists
<1> QED
  BY <1>2, <1>6, <1>7, <1>8, <1>9, <1>10, <1>11, <1>12, <1>13, Zenon DEF MmuInv

\* __mmu_unsync_walk takes back only marks that lead to no unsync page.
LEMMA WalkedKeeps ==
    ASSUME NEW m, MmuInv(m), NEW p \in Sp
    PROVE  /\ MmuInv(Walked(m, p)) /\ SameLists(m, Walked(m, p))
           /\ Walked(m, p).unsync = m.unsync /\ Walked(m, p).writable = m.writable
<1> DEFINE below == Below(m, {p})
           keeps(q, i) == /\ m.spt[q][i] # None
                          /\ Below(m, {m.spt[q][i]}) \cap UnsyncLeaves(m) # {}
           b == [q \in Sp |-> IF q \notin below THEN m.bits[q]
                              ELSE {i \in m.bits[q] : keeps(q, i)}]
           n == Walked(m, p)
<1>1. m \in MmuType /\ m.active \in SUBSET Sp
      /\ m.bits \in [Sp -> SUBSET Slots] /\ m.spt \in [Sp -> [Slots -> Sp \cup {None}]]
  BY Zenon DEF MmuInv, MmuType
<1>2. n = [m EXCEPT !.bits = b]
  BY Zenon DEF Walked
<1>3. Follows(m, below)
  BY <1>1, BelowIs, Zenon
<1> HIDE DEF below, keeps
<1>4. b \in [Sp -> SUBSET Slots] /\ \A q \in Sp : b[q] \subseteq m.bits[q]
  BY <1>1, Zenon
<1>5. \A q \in Sp, i \in Slots :
         i \in b[q] <=> i \in m.bits[q] /\ (q \in below => keeps(q, i))
  BY <1>1, Zenon
<1> HIDE DEF b, n
<1>6. n.spt = m.spt /\ n.bits = b /\ n.unsync = m.unsync /\ n.writable = m.writable
  BY <1>1, <1>2, Zenon DEF MmuType
<1>7. Marks(n)
  <2> SUFFICES ASSUME NEW q \in Sp, NEW i \in Slots, m.spt[q][i] # None,
                      m.spt[q][i] \in m.unsync \/ b[m.spt[q][i]] # {}
               PROVE  i \in b[q]
    BY <1>6, Zenon DEF Marks
  <2> DEFINE c == m.spt[q][i]
  <2>1. c \in m.active /\ c \in Sp
    BY <1>1, Zenon DEF MmuInv, Links
  <2>2. c \in m.unsync \/ m.bits[c] # {}
    BY <1>4, <2>1, Zenon
  <2>3. i \in m.bits[q]
    BY <2>2, Zenon DEF MmuInv, Marks
  <2>4. SUFFICES ASSUME q \in below PROVE keeps(q, i)
    BY <1>5, <2>3, Zenon
  <2>5. c \in below
    BY <1>3, <2>3, <2>4, Zenon DEF Follows
  <2>6. {c} \in SUBSET Sp
    BY <2>1, Zenon
  <2>7. c \in Below(m, {c})
    BY <1>1, <2>6, BelowIs, Zenon
  <2>8. CASE c \in m.unsync
    <3>1. m.key[c].level = 1
      BY <2>8, Zenon DEF MmuInv, Levels, Level
    <3>2. m.bits[c] = {}
      BY <2>1, <3>1, Zenon DEF MmuInv, Levels, Level, Allocated
    <3>3. c \in UnsyncLeaves(m)
      BY <2>8, <3>2, Zenon DEF UnsyncLeaves
    <3> QED
      BY <2>7, <3>3, Zenon DEF keeps
  <2>9. CASE b[c] # {}
    <3>1. PICK j \in b[c] : TRUE
      BY <2>9, Zenon
    <3>2. j \in Slots /\ j \in m.bits[c] /\ keeps(c, j)
      BY <1>4, <1>5, <2>1, <2>5, <3>1, Zenon
    <3>3. m.spt[c][j] # None /\ Below(m, {m.spt[c][j]}) \cap UnsyncLeaves(m) # {}
      BY <3>2, Zenon DEF keeps
    <3>4. Below(m, {m.spt[c][j]}) \subseteq Below(m, {c})
      BY <1>1, <2>1, <3>2, <3>3, BelowStep, Zenon
    <3> QED
      BY <3>3, <3>4, Zenon DEF keeps
  <2> QED
    BY <2>8, <2>9, Zenon
<1>8. MmuInv(n) /\ SameLists(m, n)
  BY <1>2, <1>4, <1>7, BitsKeep, Zenon
<1> QED
  BY <1>6, <1>8, Zenon DEF n

\* An entry of a path to an unsync page ends it or is followed by a marked entry
\* of the page it points to.
LEMMA PathStep ==
    ASSUME NEW m \in MmuType, NEW p \in Sp, NEW s \in UnsyncPaths(m, p), NEW k \in DOMAIN s
    PROVE  /\ s[k] \in MarkedPtes(m)
           /\ LeafOf(m, s) \in UnsyncLeaves(m)
           /\ \/ LeafOf(m, s) = m.spt[s[k][1]][s[k][2]]
              \/ \E e \in MarkedPtes(m) : e[1] = m.spt[s[k][1]][s[k][2]]
<1>1. PICK n \in 1..(RootLevel - 1) : s \in [1..n -> MarkedPtes(m)]
  BY Zenon DEF UnsyncPaths
<1>2. /\ LeafOf(m, s) \in UnsyncLeaves(m)
      /\ \A j \in 2..Len(s) : s[j][1] = m.spt[s[j - 1][1]][s[j - 1][2]]
  BY Zenon DEF UnsyncPaths
<1>3. n \in Nat /\ n >= 1 /\ Len(s) = n /\ DOMAIN s = 1..n /\ k \in 1..n
  BY <1>1, ShadowAssumption
<1>4. s[k] \in MarkedPtes(m)
  BY <1>1, <1>3, Zenon
<1>5. CASE k = n
  BY <1>2, <1>3, <1>4, <1>5, Zenon DEF LeafOf
<1>6. CASE k # n
  <2>1. k + 1 \in 2..n /\ (k + 1) - 1 = k /\ k + 1 \in 1..n
    BY <1>3, <1>6
  <2>2. s[k + 1] \in MarkedPtes(m)
    BY <1>1, <2>1, Zenon
  <2>3. s[k + 1][1] = m.spt[s[k][1]][s[k][2]]
    BY <1>2, <1>3, <2>1, Zenon
  <2> QED
    BY <1>2, <1>4, <2>2, <2>3, Zenon
<1> QED
  BY <1>5, <1>6, Zenon

\* Write protecting frames keeps the invariant.
LEMMA WritableKeep ==
    ASSUME NEW m, MmuInv(m), NEW w \in SUBSET m.writable,
           NEW n, n = [m EXCEPT !.writable = w]
    PROVE  /\ MmuInv(n) /\ SameLists(m, n)
           /\ n.writable = w /\ n.unsync = m.unsync /\ n.bits = m.bits /\ n.spt = m.spt
<1>1. m \in MmuType /\ w \in SUBSET Gfns
  BY Zenon DEF MmuInv, MmuType
<1>2. /\ n.spt = m.spt /\ n.bits = m.bits
      /\ n.active = m.active /\ n.older = m.older /\ n.zapped = m.zapped
      /\ n.key = m.key /\ n.gen = m.gen /\ n.invalid = m.invalid
      /\ n.unsync = m.unsync /\ n.roots = m.roots
      /\ n.used = m.used /\ n.valid = m.valid /\ n.writable = w
      /\ n.reload = m.reload /\ n \in MmuType
  BY <1>1, Zenon DEF MmuType
<1>3. /\ Allocated(n) = Allocated(m) /\ ValidSp(n) = ValidSp(m)
  BY <1>2, Zenon DEF Allocated, ValidSp, IsObsolete
<1>4. Lists(n) /\ Clean(n)
  BY <1>2, <1>3, Zenon DEF MmuInv, Lists, Clean
<1>5. Levels(n)
  BY <1>2, <1>3, Zenon DEF MmuInv, Levels, Level
<1>6. Links(n)
  BY <1>2 DEF MmuInv, Links, Level
<1>7. Marks(n)
  BY <1>2, Zenon DEF MmuInv, Marks
<1>8. Unique(n)
  BY <1>2, <1>3, ZenonT(60) DEF MmuInv, Unique
<1>9. Protected(n)
  BY <1>2, <1>3, Zenon DEF MmuInv, Protected, Level
<1>10. Ages(n)
  BY <1>2, Zenon DEF MmuInv, Ages
<1>11. SameLists(m, n)
  BY <1>2, Zenon DEF SameLists
<1> QED
  BY <1>2, <1>4, <1>5, <1>6, <1>7, <1>8, <1>9, <1>10, <1>11, Zenon DEF MmuInv

\* mmu_pages_clear_parents takes back only marks that led to pages of the walk
\* alone, which are in step by then.
LEMMA ClearKeeps ==
    ASSUME NEW m, MmuInv(m), NEW p \in Sp, NEW paths \in SUBSET UnsyncPaths(m, p),
           NEW n, MmuInv(n), n.unsync \subseteq m.unsync,
           \A s \in paths : LeafOf(m, s) \notin n.unsync,
           \A q \in Sp : n.bits[q] \subseteq m.bits[q],
           \A q \in Sp, i \in Slots : n.spt[q][i] # None => n.spt[q][i] = m.spt[q][i],
           NEW b, b = [q \in Sp |-> {i \in n.bits[q] : <<q, i>> \notin Cleared(m, paths)}]
    PROVE  MmuInv([n EXCEPT !.bits = b]) /\ SameLists(n, [n EXCEPT !.bits = b])
<1> DEFINE on == UNION {{s[k] : k \in DOMAIN s} : s \in paths}
           o == [n EXCEPT !.bits = b]
<1>1. /\ m \in MmuType /\ m.active \in SUBSET Sp
      /\ n \in MmuType /\ n.bits \in [Sp -> SUBSET Slots]
      /\ n.spt \in [Sp -> [Slots -> Sp \cup {None}]]
  BY Zenon DEF MmuInv, MmuType
<1>2. b \in [Sp -> SUBSET Slots] /\ \A q \in Sp : b[q] \subseteq n.bits[q]
  BY <1>1, Zenon
<1>3. \A q \in Sp, i \in Slots :
          i \in b[q] <=> i \in n.bits[q] /\ <<q, i>> \notin Cleared(m, paths)
  BY <1>1, Zenon
<1>4. o.bits = b /\ o.spt = n.spt /\ o.unsync = n.unsync
  BY <1>1, Zenon DEF MmuType
<1>5. \A e \in on : \E s \in paths : \E k \in DOMAIN s : e = s[k]
  <2> SUFFICES ASSUME NEW e \in on
               PROVE  \E s \in paths : \E k \in DOMAIN s : e = s[k]
    BY Zenon
  <2>1. PICK s \in paths : e \in {s[k] : k \in DOMAIN s}
    BY Zenon
  <2> QED
    BY <2>1, Zenon
<1>6. Cleared(m, paths) = {e \in on : \A q \in Below(m, {m.spt[e[1]][e[2]]}) :
                                         \A i \in m.bits[q] : <<q, i>> \in on}
  BY Zenon DEF Cleared
<1> HIDE DEF on, o
<1>7. ASSUME NEW q \in Sp, NEW i \in Slots, n.spt[q][i] # None,
             n.spt[q][i] \in n.unsync \/ b[n.spt[q][i]] # {},
             <<q, i>> \in Cleared(m, paths)
      PROVE  FALSE
  <2> DEFINE c == m.spt[q][i]
  <2>1. n.spt[q][i] = c /\ c # None
    BY <1>7, Zenon
  <2>2. c \in m.active /\ c \in Sp /\ {c} \in SUBSET Sp
    BY <1>1, <2>1, Zenon DEF MmuInv, Links
  <2>3. <<q, i>> \in on /\ \A r \in Below(m, {c}) : \A j \in m.bits[r] : <<r, j>> \in on
    <3>1. <<q, i>>[1] = q /\ <<q, i>>[2] = i
      BY Zenon
    <3> QED
      BY <1>6, <1>7, <3>1, Zenon
  <2>4. PICK s \in paths : \E k \in DOMAIN s : <<q, i>> = s[k]
    BY <1>5, <2>3, Zenon
  <2>5. PICK k \in DOMAIN s : <<q, i>> = s[k]
    BY <2>4, Zenon
  <2>6. s[k][1] = q /\ s[k][2] = i
    <3>1. <<q, i>>[1] = q /\ <<q, i>>[2] = i
      BY Zenon
    <3> QED
      BY <2>5, <3>1, Zenon
  <2> HIDE DEF c
  <2>7. CASE c \in n.unsync
    <3>1. c \in m.unsync /\ LeafOf(m, s) # c
      BY <2>7, Zenon
    <3>2. m.key[c].level = 1
      BY <3>1, Zenon DEF MmuInv, Levels, Level
    <3>3. m.bits[c] = {}
      BY <2>2, <3>2, ZenonT(60) DEF MmuInv, Levels, Level, Allocated
    <3>4. \/ LeafOf(m, s) = m.spt[s[k][1]][s[k][2]]
          \/ \E e \in MarkedPtes(m) : e[1] = m.spt[s[k][1]][s[k][2]]
      <4>1. s \in UnsyncPaths(m, p)
        BY Zenon
      <4> QED
        BY <1>1, <4>1, PathStep
    <3>5. PICK e \in MarkedPtes(m) : e[1] = c
      BY <2>6, <3>1, <3>4, Zenon DEF c
    <3>6. e[2] \in m.bits[e[1]]
      BY <1>1, <3>5, MarkedPtesIs, Zenon
    <3> QED
      BY <3>3, <3>5, <3>6, Zenon
  <2>8. CASE b[c] # {}
    <3>1. PICK j \in b[c] : TRUE
      BY <2>8, Zenon
    <3>2. j \in Slots
      BY <1>2, <2>2, <3>1, Zenon
    <3>3. j \in m.bits[c] /\ <<c, j>> \notin Cleared(m, paths)
      BY <1>3, <2>2, <3>1, <3>2, Zenon
    <3>4. c \in Below(m, {c})
      BY <1>1, <2>2, BelowIs, Zenon
    <3>5. <<c, j>> \in on
      BY <2>3, <3>3, <3>4, Zenon
    <3>6. PICK s1 \in paths : \E k1 \in DOMAIN s1 : <<c, j>> = s1[k1]
      BY <1>5, <3>5, Zenon
    <3>7. PICK k1 \in DOMAIN s1 : <<c, j>> = s1[k1]
      BY <3>6, Zenon
    <3>8. <<c, j>> \in MarkedPtes(m)
      <4>1. s1 \in UnsyncPaths(m, p)
        BY Zenon
      <4>2. s1[k1] \in MarkedPtes(m)
        BY <1>1, <4>1, PathStep, Zenon
      <4> QED
        BY <3>7, <4>2, Zenon
    <3>9. <<c, j>>[1] = c /\ <<c, j>>[2] = j
      BY Zenon
    <3>10. m.spt[c][j] \in Sp
      BY <1>1, <3>8, <3>9, MarkedPtesIs, Zenon
    <3>11. m.spt[c][j] # None
      BY <3>10, ShadowAssumption, Zenon
    <3>12. Below(m, {m.spt[c][j]}) \subseteq Below(m, {c})
      BY <1>1, <2>2, <3>3, <3>11, BelowStep, Zenon
    <3>13. \A r \in Below(m, {m.spt[c][j]}) : \A j1 \in m.bits[r] : <<r, j1>> \in on
      BY <2>3, <3>12, Zenon
    <3> QED
      BY <1>6, <3>3, <3>5, <3>9, <3>13, Zenon
  <2> QED
    BY <1>7, <2>1, <2>7, <2>8, Zenon
<1>8. Marks(o)
  <2> SUFFICES ASSUME NEW q \in Sp, NEW i \in Slots, n.spt[q][i] # None,
                      n.spt[q][i] \in n.unsync \/ b[n.spt[q][i]] # {}
               PROVE  i \in b[q]
    BY <1>4, ZenonT(60) DEF Marks
  <2>1. n.spt[q][i] \in Sp
    BY <1>1
  <2>2. n.spt[q][i] \in n.unsync \/ n.bits[n.spt[q][i]] # {}
    BY <1>2, <2>1, Zenon
  <2>3. i \in n.bits[q]
    BY <2>2, Zenon DEF MmuInv, Marks
  <2> QED
    BY <1>3, <1>7, <2>3, Zenon
<1> QED
  BY <1>2, <1>8, BitsKeep, Zenon DEF o

\* One round of mmu_sync_children over the paths of the walk from p: the leaves
\* are protected, then synced or zapped, and the marks above are cleared.
SyncRound(m, p, bad) ==
    LET paths == FirstPaths(m, p)
        leaves == {LeafOf(m, path) : path \in paths}
        n == SyncPages([m EXCEPT !.writable = @ \ {m.key[q].gfn : q \in leaves}], leaves, bad)
    IN [n EXCEPT !.bits = [q \in Sp |-> {i \in @[q] : <<q, i>> \notin Cleared(m, paths)}]]

\* A round of mmu_sync_children, whichever of the pages fail to sync, keeps the
\* invariant and adds no page.
LEMMA SyncRoundKeeps ==
    ASSUME NEW m, MmuInv(m), NEW p \in Sp,
           NEW bad \in SUBSET {LeafOf(m, path) : path \in FirstPaths(m, p)}
    PROVE  Reduced(m, SyncRound(m, p, bad))
<1> DEFINE paths == FirstPaths(m, p)
           leaves == {LeafOf(m, path) : path \in paths}
           w == m.writable \ {m.key[q].gfn : q \in leaves}
           u == [m EXCEPT !.writable = w]
           n == SyncPages(u, leaves, bad)
           b == [q \in Sp |-> {i \in n.bits[q] : <<q, i>> \notin Cleared(m, paths)}]
           o == [n EXCEPT !.bits = b]
<1>1. m \in MmuType /\ m.unsync \subseteq m.active
  BY Zenon DEF MmuInv, Lists
<1>2. SyncRound(m, p, bad) = o
  BY Zenon DEF SyncRound
<1>3. paths \in SUBSET UnsyncPaths(m, p)
  BY Zenon DEF FirstPaths
<1> HIDE DEF paths
<1>4. \A s \in UnsyncPaths(m, p) : LeafOf(m, s) \in UnsyncLeaves(m)
  BY Zenon DEF UnsyncPaths
<1>5. leaves \in SUBSET m.unsync /\ bad \in SUBSET leaves /\ \A s \in paths : LeafOf(m, s) \in leaves
  BY <1>3, <1>4, Zenon DEF UnsyncLeaves, paths
<1> HIDE DEF leaves
<1>6. w \in SUBSET m.writable /\ \A q \in leaves : m.key[q].gfn \notin w
  BY Zenon
<1> HIDE DEF w
<1>7. /\ MmuInv(u) /\ SameLists(m, u) /\ u.writable = w
      /\ u.unsync = m.unsync /\ u.bits = m.bits /\ u.spt = m.spt
  BY <1>6, WritableKeep
<1> HIDE DEF u
<1>8. u.key = m.key /\ u.active = m.active /\ u.used = m.used
  BY <1>7, Zenon DEF SameLists
<1>9. Committed(u, n, bad) /\ n.unsync \cap leaves = {}
  <2>1. \A q \in leaves : u.key[q].gfn \notin u.writable
    BY <1>6, <1>7, <1>8, Zenon
  <2>2. leaves \in SUBSET u.unsync /\ bad \in SUBSET u.active
    BY <1>1, <1>5, <1>7, <1>8, ZenonT(60)
  <2> QED
    BY <1>7, <2>1, <2>2, SyncPagesIs, Zenon
<1> HIDE DEF n
<1>10. /\ MmuInv(n) /\ n.used <= m.used /\ n.unsync \subseteq m.unsync
       /\ \A q \in Sp : n.bits[q] \subseteq m.bits[q]
       /\ \A q \in Sp, i \in Slots : n.spt[q][i] # None => n.spt[q][i] = m.spt[q][i]
       /\ \A rt : RootInv(u, rt) => RootInv(n, rt)
  BY <1>7, <1>8, <1>9 DEF Committed
<1>11. \A s \in paths : LeafOf(m, s) \notin n.unsync
  BY <1>5, <1>9, Zenon
<1>12. MmuInv(o) /\ SameLists(n, o)
  <2>1. b = [q \in Sp |-> {i \in n.bits[q] : <<q, i>> \notin Cleared(m, paths)}]
    BY Zenon
  <2> HIDE DEF b
  <2>2. /\ \A q \in Sp : n.bits[q] \subseteq m.bits[q]
        /\ \A q \in Sp, i \in Slots : n.spt[q][i] # None => n.spt[q][i] = m.spt[q][i]
        /\ MmuInv(n) /\ n.unsync \subseteq m.unsync
    BY <1>10, Zenon
  <2> QED
    BY <1>3, <1>11, <2>1, <2>2, ClearKeeps
<1> HIDE DEF o
<1>13. o.used <= m.used
  BY <1>10, <1>12, Zenon DEF SameLists
<1>14. ASSUME NEW rt, RootInv(m, rt) PROVE RootInv(o, rt)
  <2>1. RootInv(u, rt)
    BY <1>7, <1>14, SameListsRoots, Zenon
  <2>2. RootInv(n, rt)
    BY <1>10, <2>1, Zenon
  <2> QED
    BY <1>12, <2>2, SameListsRoots, Zenon
<1>15. Reduced(m, o)
  BY <1>12, <1>13, <1>14, Zenon DEF Reduced
<1> QED
  BY <1>2, <1>15, Zenon

-----------------------------------------------------------------------------
(* A write to a guest table, and a new generation.                         *)

\* vmrun_mmu_pte_write drops the entry of the pages it does not zap.
LEMMA DropEntryKeeps ==
    ASSUME NEW m, MmuInv(m), NEW left \in SUBSET Sp, NEW i \in Slots,
           NEW t, t = [p \in Sp |-> IF p \in left THEN [m.spt[p] EXCEPT ![i] = None] ELSE m.spt[p]],
           NEW n, n = [m EXCEPT !.spt = t]
    PROVE  MmuInv(n) /\ SameLists(m, n)
<1>1. m \in MmuType /\ m.spt \in [Sp -> [Slots -> Sp \cup {None}]]
  BY Zenon DEF MmuInv, MmuType
<1>2. /\ t \in [Sp -> [Slots -> Sp \cup {None}]]
      /\ \A p \in Sp, j \in Slots : t[p][j] # None => t[p][j] = m.spt[p][j]
  BY <1>1, Zenon
<1>3. /\ n.spt = t /\ n.bits = m.bits
      /\ n.active = m.active /\ n.older = m.older /\ n.zapped = m.zapped
      /\ n.key = m.key /\ n.gen = m.gen /\ n.invalid = m.invalid
      /\ n.unsync = m.unsync /\ n.roots = m.roots
      /\ n.used = m.used /\ n.valid = m.valid /\ n.writable = m.writable
      /\ n.reload = m.reload /\ n \in MmuType
  <2>1. n = [active |-> m.active, older |-> m.older, zapped |-> m.zapped, key |-> m.key,
             gen |-> m.gen, invalid |-> m.invalid, unsync |-> m.unsync, roots |-> m.roots,
             spt |-> t, bits |-> m.bits, used |-> m.used, valid |-> m.valid,
             writable |-> m.writable, reload |-> m.reload]
    BY <1>1, Zenon DEF MmuType
  <2>2. n \in MmuType
    BY <1>1, <1>2, <2>1, ZenonT(60) DEF MmuType
  <2> QED
    BY <2>1, <2>2, Zenon
<1>4. /\ Allocated(n) = Allocated(m) /\ ValidSp(n) = ValidSp(m)
  BY <1>3, Zenon DEF Allocated, ValidSp, IsObsolete
<1>5. Lists(n) /\ Clean(n)
  BY <1>3, <1>4, Zenon DEF MmuInv, Lists, Clean
<1>6. Levels(n)
  BY <1>3, <1>4 DEF MmuInv, Levels, Level
<1>7. Links(n)
  <2> SUFFICES ASSUME NEW p \in Sp, NEW j \in Slots, t[p][j] # None
               PROVE  /\ p \in m.active
                      /\ t[p][j] \in m.active \ m.invalid
                      /\ m.key[t[p][j]].level = m.key[p].level - 1
    BY <1>3 DEF Links, Level
  <2>1. t[p][j] = m.spt[p][j]
    BY <1>2, Zenon
  <2> QED
    BY <2>1, ZenonT(60) DEF MmuInv, Links, Level
<1>8. Marks(n)
  <2> SUFFICES ASSUME NEW p \in Sp, NEW j \in Slots, t[p][j] # None,
                      t[p][j] \in m.unsync \/ m.bits[t[p][j]] # {}
               PROVE  j \in m.bits[p]
    BY <1>3, Zenon DEF Marks
  <2>1. t[p][j] = m.spt[p][j]
    BY <1>2, Zenon
  <2> QED
    BY <2>1, Zenon DEF MmuInv, Marks
<1>9. Unique(n)
  BY <1>3, <1>4 DEF MmuInv, Unique
<1>10. Protected(n)
  BY <1>3, <1>4, ZenonT(60) DEF MmuInv, Protected, Level
<1>11. Ages(n)
  BY <1>3, Zenon DEF MmuInv, Ages
<1>12. SameLists(m, n)
  BY <1>3, Zenon DEF SameLists
<1> QED
  BY <1>3, <1>5, <1>6, <1>7, <1>8, <1>9, <1>10, <1>11, <1>12, ZenonT(60) DEF MmuInv

\* After the generation bump no page is usable, and everybody was asked to
\* reload.
LEMMA NewGenerationKeeps ==
    ASSUME NEW m, MmuInv(m), m.valid < MaxGen,
           NEW n, n = [m EXCEPT !.valid = m.valid + 1, !.reload = Vcpus]
    PROVE  MmuInv(n) /\ n.used = m.used /\ \A rt : RootInv(m, rt) => RootInv(n, rt)
<1>1. m \in MmuType /\ m.valid \in Nat /\ m.gen \in [Sp -> Nat] /\ m.active \in SUBSET Sp
  BY Zenon DEF MmuInv, MmuType
<1>2. /\ n.spt = m.spt /\ n.bits = m.bits
      /\ n.active = m.active /\ n.older = m.older /\ n.zapped = m.zapped
      /\ n.key = m.key /\ n.gen = m.gen /\ n.invalid = m.invalid
      /\ n.unsync = m.unsync /\ n.roots = m.roots
      /\ n.used = m.used /\ n.valid = m.valid + 1 /\ n.writable = m.writable
      /\ n.reload = Vcpus /\ n \in MmuType
  <2> DEFINE v == m.valid + 1
  <2>1. v \in Nat
    BY <1>1
  <2>2. n = [m EXCEPT !.valid = v, !.reload = Vcpus]
    BY Zenon
  <2> HIDE DEF v
  <2>3. n = [active |-> m.active, older |-> m.older, zapped |-> m.zapped, key |-> m.key,
             gen |-> m.gen, invalid |-> m.invalid, unsync |-> m.unsync, roots |-> m.roots,
             spt |-> m.spt, bits |-> m.bits, used |-> m.used, valid |-> v,
             writable |-> m.writable, reload |-> Vcpus]
    BY <1>1, <2>2, Zenon DEF MmuType
  <2>4. n \in MmuType
    BY <1>1, <2>1, <2>3 DEF MmuType
  <2> QED
    BY <2>3, <2>4, Zenon DEF v
<1>3. Allocated(n) = Allocated(m) /\ Allocated(m) \subseteq Sp
  BY <1>1, <1>2, Zenon DEF Allocated, MmuType
<1>4. \A p \in Sp : m.gen[p] <= m.valid
  BY Zenon DEF MmuInv, Ages
<1>5. ValidSp(n) = {}
  BY <1>1, <1>2, <1>3, <1>4 DEF ValidSp, IsObsolete
<1>6. Lists(n) /\ Clean(n)
  BY <1>2, <1>3, Zenon DEF MmuInv, Lists, Clean
<1>7. Levels(n)
  BY <1>2, <1>3, SMTT(30) DEF MmuInv, Levels, Level
<1>8. Links(n)
  BY <1>2 DEF MmuInv, Links, Level
<1>9. Marks(n)
  BY <1>2, Zenon DEF MmuInv, Marks
<1>10. Unique(n) /\ Protected(n)
  BY <1>5, Zenon DEF Unique, Protected
<1>11. Ages(n)
  <2>1. \A p \in Sp : n.gen[p] <= n.valid
    BY <1>1, <1>2, <1>4
  <2>2. n.valid <= MaxGen
    BY <1>1, <1>2, ShadowAssumption
  <2> QED
    BY <1>2, <2>1, <2>2, Zenon DEF MmuInv, Ages
<1>12. ASSUME NEW rt, RootInv(m, rt) PROVE RootInv(n, rt)
  BY <1>2, <1>12, Zenon DEF RootInv, Level
<1> QED
  BY <1>2, <1>6, <1>7, <1>8, <1>9, <1>10, <1>11, <1>12, Zenon DEF MmuInv

=============================================================================
