------------------------------ MODULE Memslots ------------------------------
(***************************************************************************)
(* The memory slots of one VM (kernel/vmrun.c) and the MMIO sptes that     *)
(* cache "no slot here" under a memslots generation (kernel/mmu.c).        *)
(*                                                                         *)
(* A memslots array lives in one of two buffers per address space.  The    *)
(* writer (__vmrun_set_memory_region, under slots_lock) prepares the       *)
(* buffer that is not installed, installs it, waits for the SRCU readers   *)
(* and then advances its generation; deleting or moving a slot does this   *)
(* twice.  Readers are vCPU threads handling a page fault inside an SRCU   *)
(* read-side section.                                                      *)
(***************************************************************************)
EXTENDS Integers, FiniteSets

CONSTANTS
    AddressSpaces,   \* 0 .. VMRUN_ADDRESS_SPACE_NUM - 1
    SlotsNum,        \* VMRUN_MEM_SLOTS_NUM
    UserSlots,       \* VMRUN_USER_MEM_SLOTS
    MaxGfn,          \* bound: guest frames 0 .. MaxGfn
    FaultGfns,       \* bound: the frames vCPUs fault on
    GenMod,          \* MMIO_GEN_MASK + 1, scaled down
    Requests,        \* bound: the regions user space asks for
    Readers,         \* vCPU threads
    MaxUpdates       \* bound: memory region updates

ASSUME SlotsAssumption ==
    /\ AddressSpaces \in {{0}, {0, 1}}
    /\ SlotsNum \in Nat /\ UserSlots \in 1 .. SlotsNum
    /\ MaxGfn \in Nat /\ MaxUpdates \in Nat
    /\ Requests \subseteq [as : AddressSpaces, id : 0 .. SlotsNum - 1, base : 0 .. MaxGfn,
                           n : 0 .. MaxGfn + 1, log : BOOLEAN]
    /\ \A q \in Requests : q.base + q.n <= MaxGfn + 1
    /\ FaultGfns \subseteq 0 .. MaxGfn
    /\ GenMod \in Nat /\ GenMod >= 8 /\ GenMod % 4 = 0

VARIABLES
    arr,        \* buffers: arr[as][b] = [mslots, id_to_index, used_slots, generation]
    memslots,   \* memslots[as]: the installed buffer
    freed,      \* freed[as]: the other buffer is not allocated
    writer,     \* the update in progress, and the readers synchronize_srcu waits for
    reader,     \* per reader: in a section, buffers it uses, frame without slot
    mmio,       \* frames with an MMIO spte (address space 0) -> stored generation
    warned,     \* a WARN_ON of the memslots code fired
    updates     \* updates so far

vars == <<arr, memslots, freed, writer, reader, mmio, warned, updates>>

-----------------------------------------------------------------------------
(* Data *)

Gfn == 0 .. MaxGfn
Ids == 0 .. SlotsNum - 1
Buffers == {0, 1}
None == -1
Slot == [id : Ids, base_gfn : Gfn, npages : 0 .. MaxGfn + 1,
         log_dirty : BOOLEAN, invalid : BOOLEAN]
EmptySlot(i) == [id |-> i, base_gfn |-> 0, npages |-> 0,
                 log_dirty |-> FALSE, invalid |-> FALSE]
Pages(s) == s.base_gfn .. (s.base_gfn + s.npages - 1)

\* vmrun_alloc_memslots, and the generation vmrun_create_vm starts with.
AllocMemslots(as) ==
    [mslots |-> [i \in Ids |-> EmptySlot(i)],
     id_to_index |-> [i \in Ids |-> i],
     used_slots |-> 0,
     generation |-> (as * 2 - 150) % GenMod]

Installed(as) == arr[as][memslots[as]]
Other(as) == 1 - memslots[as]
IdToMemslot(a, id) == a.mslots[a.id_to_index[id]]

\* generation_mmio_spte_mask followed by get_mmio_spte_generation: an spte has no
\* room for the low bit of the generation.
EvenPart(gen) == gen - (gen % 2)

\* check_mmio_spte against the installed memslots.
CheckMmioSpte(gfn) == mmio[gfn] # None /\ mmio[gfn] = Installed(0).generation

\* The slot lookup of a fault, as gfn_to_hva answers it: a frame in a slot that
\* is being deleted or moved has no slot.
HasSlot(a, gfn) == \E i \in Ids : /\ gfn \in Pages(a.mslots[i])
                                  /\ ~a.mslots[i].invalid

Idle == [pc |-> "idle", as |-> 0, new |-> EmptySlot(0), wait |-> {}]
Out == [in |-> FALSE, held |-> {}, gfn |-> None]

TypeOK ==
    /\ \A as \in AddressSpaces, b \in Buffers :
          /\ arr[as][b].mslots \in [Ids -> Slot]
          /\ arr[as][b].id_to_index \in [Ids -> Ids]
          /\ arr[as][b].used_slots \in 0 .. SlotsNum
          /\ arr[as][b].generation \in 0 .. GenMod - 1
    /\ memslots \in [AddressSpaces -> Buffers]
    /\ freed \in [AddressSpaces -> BOOLEAN]
    /\ writer.pc \in {"idle", "sync_invalid", "sync_new"}
    /\ writer.wait \subseteq Readers
    /\ reader \in [Readers -> [in : BOOLEAN, held : SUBSET Buffers,
                               gfn : Gfn \cup {None}]]
    /\ mmio \in [Gfn -> (0 .. GenMod - 1) \cup {None}]
    /\ warned \in BOOLEAN
    /\ updates \in 0 .. MaxUpdates

Init ==
    /\ arr = [as \in AddressSpaces |-> [b \in Buffers |-> AllocMemslots(as)]]
    /\ memslots = [as \in AddressSpaces |-> 0]
    /\ freed = [as \in AddressSpaces |-> TRUE]
    /\ writer = Idle
    /\ reader = [r \in Readers |-> Out]
    /\ mmio = [g \in Gfn |-> None]
    /\ warned = FALSE
    /\ updates = 0

-----------------------------------------------------------------------------
(* vmrun_update_memslots: the position the two loops leave i at, the entries *)
(* they shift on the way, and the new entry.                                 *)

LeastOf(S) == CHOOSE x \in S : \A y \in S : x <= y
MostOf(S) == CHOOSE x \in S : \A y \in S : x >= y

\* The first loop, from position i towards the end.
ForwardStop(m, new, i) ==
    LeastOf({j \in i .. SlotsNum - 1 :
               \/ j = SlotsNum - 1
               \/ new.base_gfn > m[j + 1].base_gfn
               \/ m[j + 1].npages = 0})

\* Mutant: ">" where the comment in vmrun_update_memslots asks for ">=".
BackwardStopStrict(m, new, i) ==
    MostOf({j \in 0 .. i : j = 0 \/ new.base_gfn <= m[j - 1].base_gfn})

\* The second loop, from position i towards the beginning.
BackwardStop(m, new, i) ==
    MostOf({j \in 0 .. i : j = 0 \/ new.base_gfn < m[j - 1].base_gfn})

ShiftDown(m, from, to) == [k \in Ids |-> IF k \in from .. (to - 1) THEN m[k + 1] ELSE m[k]]
ShiftUp(m, from, to) == [k \in Ids |-> IF k \in (to + 1) .. from THEN m[k - 1] ELSE m[k]]

\* Mutant: any update of a slot with pages decrements used_slots.
UsedAfterAnyUpdate(a, new) ==
    IF IdToMemslot(a, new.id).npages # 0 THEN a.used_slots - 1 ELSE a.used_slots + 1

\* Mutant: deleting a slot does not decrement used_slots.
UsedAfterNoDelete(a, new) ==
    IF new.npages # 0 /\ IdToMemslot(a, new.id).npages = 0
      THEN a.used_slots + 1
      ELSE a.used_slots

UsedAfter(a, new) ==
    LET was == IdToMemslot(a, new.id).npages # 0
        is == new.npages # 0
    IN  CASE was /\ ~is -> a.used_slots - 1
          [] ~was /\ is -> a.used_slots + 1
          [] OTHER -> a.used_slots

UpdateMemslots(a, new) ==
    LET i0 == a.id_to_index[new.id]
        i1 == ForwardStop(a.mslots, new, i0)
        m1 == ShiftDown(a.mslots, i0, i1)
        i2 == IF new.npages # 0 THEN BackwardStop(m1, new, i1) ELSE i1
        m2 == [ShiftUp(m1, i1, i2) EXCEPT ![i2] = new]
        written == (i0 .. i1 - 1) \cup (i2 .. i1)
    IN  [a EXCEPT !.mslots = m2,
                  !.used_slots = UsedAfter(a, new),
                  !.id_to_index =
                      [id \in Ids |->
                         IF \E k \in written : m2[k].id = id
                           THEN CHOOSE k \in written : m2[k].id = id
                           ELSE a.id_to_index[id]]]

\* The WARN_ONs of id_to_memslot and vmrun_update_memslots.
UpdateWarns(a, new) ==
    LET i0 == a.id_to_index[new.id]
    IN  \/ a.mslots[i0].id # new.id
        \/ /\ new.npages = 0
           /\ \/ a.mslots[i0].npages = 0
              \/ ForwardStop(a.mslots, new, i0) # UsedAfter(a, new)

-----------------------------------------------------------------------------
(* The writer: __vmrun_set_memory_region with slots_lock held *)

\* Mutant: the array is installed with its final generation.
InstallFinalGeneration(as, a) ==
    /\ arr' = [arr EXCEPT ![as][Other(as)] =
                 [a EXCEPT !.generation = (Installed(as).generation + 4) % GenMod]]
    /\ memslots' = [memslots EXCEPT ![as] = Other(as)]
    /\ freed' = [freed EXCEPT ![as] = FALSE]

\* vmrun_install_new_memslots up to rcu_assign_pointer: a becomes the installed
\* array of as, in the buffer that was free, with an odd generation.
Install(as, a) ==
    /\ arr' = [arr EXCEPT ![as][Other(as)] =
                 [a EXCEPT !.generation = (Installed(as).generation + 1) % GenMod]]
    /\ memslots' = [memslots EXCEPT ![as] = Other(as)]
    /\ freed' = [freed EXCEPT ![as] = FALSE]

\* The readers synchronize_srcu_expedited has to wait for.
InSection == {r \in Readers : reader[r].in}

\* Mutant: the generation space is not split between the address spaces.
AdvanceByOne(gen) == (gen + 1) % GenMod

\* The generation at the end of vmrun_install_new_memslots.
AdvanceGeneration(gen) == (gen + 2 * 2 - 1) % GenMod

\* vmrun_mmu_invalidate_mmio_sptes.
InvalidateMmioSptes(gen, sptes) ==
    IF gen = 0 THEN [g \in Gfn |-> None] ELSE sptes

\* The overlap check against the other user slots.
Overlaps(a, new) ==
    \E i \in Ids : LET s == a.mslots[i] IN
        /\ s.npages # 0 /\ s.id < UserSlots /\ s.id # new.id
        /\ ~(\/ new.base_gfn + new.npages <= s.base_gfn
             \/ new.base_gfn >= s.base_gfn + s.npages)

\* VMRUN_SET_USER_MEMORY_REGION asks for slot id at [base, base + n).  The
\* requests that are refused (-EINVAL, -EEXIST) or change nothing leave the
\* state alone.
New(id, base, n, log) ==
    [EmptySlot(id) EXCEPT !.base_gfn = IF n = 0 THEN 0 ELSE base, !.npages = n,
                          !.log_dirty = (n # 0 /\ log)]

Change(old, new) ==
    IF old.npages = 0 THEN IF new.npages = 0 THEN "EINVAL" ELSE "CREATE"
    ELSE CASE new.npages = 0 -> "DELETE"
           [] new.npages \notin {0, old.npages} -> "EINVAL"
           [] new.npages = old.npages /\ new.base_gfn # old.base_gfn -> "MOVE"
           [] /\ new.npages = old.npages /\ new.base_gfn = old.base_gfn
              /\ new.log_dirty # old.log_dirty -> "FLAGS_ONLY"
           [] OTHER -> "NOTHING"

SetMemoryRegion(as, id, base, n, log) ==
    LET a == Installed(as)
        new == New(id, base, n, log)
        change == Change(IdToMemslot(a, id), new)
        invalid == [a EXCEPT !.mslots[a.id_to_index[id]].invalid = TRUE]
    IN  /\ writer.pc = "idle"
        /\ updates < MaxUpdates
        /\ id < UserSlots
        /\ change \in {"CREATE", "DELETE", "MOVE", "FLAGS_ONLY"}
        /\ change \in {"CREATE", "MOVE"} => ~Overlaps(a, new)
        /\ updates' = updates + 1
        /\ \/ /\ change \in {"DELETE", "MOVE"}
              /\ Install(as, invalid)
              /\ writer' = [pc |-> "sync_invalid", as |-> as, new |-> new, wait |-> InSection]
              /\ warned' = (warned \/ a.generation % 2 = 1)
           \/ /\ change \in {"CREATE", "FLAGS_ONLY"}
              /\ Install(as, UpdateMemslots(a, new))
              /\ writer' = [pc |-> "sync_new", as |-> as, new |-> new, wait |-> InSection]
              /\ warned' = (warned \/ a.generation % 2 = 1 \/ UpdateWarns(a, new))
        /\ UNCHANGED <<reader, mmio>>

\* Mutant: the old array is re-used without waiting for its readers.
InstallUpdatedNoWait ==
    LET as == writer.as
        cur == Installed(as)
        gen == AdvanceGeneration(cur.generation)
        upd == UpdateMemslots(arr[as][Other(as)], writer.new)
    IN  /\ writer.pc = "sync_invalid"
        /\ mmio' = [g \in Gfn |-> None]
        /\ arr' = [arr EXCEPT ![as] =
                     [b \in Buffers |->
                        IF b = memslots[as]
                          THEN [cur EXCEPT !.generation = gen]
                          ELSE [upd EXCEPT !.generation = (gen + 1) % GenMod]]]
        /\ memslots' = [memslots EXCEPT ![as] = Other(as)]
        /\ writer' = [writer EXCEPT !.pc = "sync_new", !.wait = InSection]
        /\ UNCHANGED <<freed, reader, warned, updates>>

\* synchronize_srcu returned for the array with the invalid slot: its generation
\* is advanced, the shadow pages are zapped (vmrun_page_track_flush_slot), and
\* the old array is updated and installed in its turn.
InstallUpdated ==
    LET as == writer.as
        cur == Installed(as)
        gen == AdvanceGeneration(cur.generation)
        old == arr[as][Other(as)]
        upd == UpdateMemslots(old, writer.new)
    IN  /\ writer.pc = "sync_invalid"
        /\ writer.wait = {}
        /\ mmio' = [g \in Gfn |-> None]
        /\ arr' = [arr EXCEPT ![as] =
                     [b \in Buffers |->
                        IF b = memslots[as]
                          THEN [cur EXCEPT !.generation = gen]
                          ELSE [upd EXCEPT !.generation = (gen + 1) % GenMod]]]
        /\ memslots' = [memslots EXCEPT ![as] = Other(as)]
        /\ warned' = (warned \/ gen % 2 = 1 \/ UpdateWarns(old, writer.new))
        /\ writer' = [writer EXCEPT !.pc = "sync_new", !.wait = InSection]
        /\ UNCHANGED <<freed, reader, updates>>

\* Mutant: the grace period waits for every reader, late ones included.
FinishUpdateWaitsForAll ==
    LET as == writer.as
        gen == AdvanceGeneration(Installed(as).generation)
    IN  /\ writer.pc = "sync_new"
        /\ InSection = {}
        /\ arr' = [arr EXCEPT ![as][memslots[as]].generation = gen,
                              ![as][Other(as)] = AllocMemslots(as)]
        /\ mmio' = InvalidateMmioSptes(gen, mmio)
        /\ freed' = [freed EXCEPT ![as] = TRUE]
        /\ writer' = Idle
        /\ UNCHANGED <<memslots, reader, warned, updates>>

\* synchronize_srcu returned for the updated array: its generation is advanced
\* and the old array is freed.
FinishUpdate ==
    LET as == writer.as
        gen == AdvanceGeneration(Installed(as).generation)
    IN  /\ writer.pc = "sync_new"
        /\ writer.wait = {}
        /\ arr' = [arr EXCEPT ![as][memslots[as]].generation = gen,
                              ![as][Other(as)] = AllocMemslots(as)]
        /\ mmio' = InvalidateMmioSptes(gen, mmio)
        /\ freed' = [freed EXCEPT ![as] = TRUE]
        /\ writer' = Idle
        /\ UNCHANGED <<memslots, reader, warned, updates>>

-----------------------------------------------------------------------------
(* Readers: a vCPU thread between srcu_read_lock and srcu_read_unlock *)

EnterSection(r) ==
    /\ ~reader[r].in
    /\ reader' = [reader EXCEPT ![r].in = TRUE]
    /\ UNCHANGED <<arr, memslots, freed, writer, mmio, warned, updates>>

\* The slot lookup of a page fault: the thread goes on to use the slots of the
\* buffer that is installed now.  gfn is remembered when it has no slot.
Lookup(r, gfn) ==
    /\ reader[r].in
    /\ reader[r].gfn = None
    /\ reader' = [reader EXCEPT ![r].held = @ \cup {memslots[0]},
                                ![r].gfn = IF HasSlot(Installed(0), gfn) THEN None ELSE gfn]
    /\ UNCHANGED <<arr, memslots, freed, writer, mmio, warned, updates>>

\* set_mmio_spte, under mmu_lock: the generation is read again, from whatever
\* array is installed by now, and stored without its low bit
\* (generation_mmio_spte_mask).
MarkMmioSpte(r) ==
    LET gen == Installed(0).generation
    IN  /\ reader[r].gfn # None
        /\ mmio' = [mmio EXCEPT ![reader[r].gfn] = EvenPart(gen)]
        /\ reader' = [reader EXCEPT ![r].gfn = None]
        /\ UNCHANGED <<arr, memslots, freed, writer, warned, updates>>

\* srcu_read_unlock; a grace period that waited for r no longer does.
LeaveSection(r) ==
    /\ reader[r].in
    /\ reader' = [reader EXCEPT ![r] = Out]
    /\ writer' = [writer EXCEPT !.wait = @ \ {r}]
    /\ UNCHANGED <<arr, memslots, freed, mmio, warned, updates>>

-----------------------------------------------------------------------------
(* Specification and properties *)

Write ==
    \/ \E q \in Requests : SetMemoryRegion(q.as, q.id, q.base, q.n, q.log)
    \/ InstallUpdated
    \/ FinishUpdate

Read(r) ==
    \/ EnterSection(r)
    \/ \E gfn \in FaultGfns : Lookup(r, gfn)
    \/ MarkMmioSpte(r)
    \/ LeaveSection(r)

Next == Write \/ \E r \in Readers : Read(r)

\* A thread leaves its SRCU section and a finished grace period is noticed.
Fairness == WF_vars(InstallUpdated) /\ WF_vars(FinishUpdate)
            /\ \A r \in Readers : WF_vars(LeaveSection(r))
Spec == Init /\ [][Next]_vars /\ Fairness

\* The installed array is what the comment of vmrun_update_memslots needs for a
\* binary search: the used slots come first, by decreasing base_gfn, the rest is
\* empty, id_to_index finds every slot, and no two slots share a frame.
WellFormed(a) ==
    /\ \A id \in Ids : IdToMemslot(a, id).id = id
    /\ \A i \in Ids : (a.mslots[i].npages # 0) = (i < a.used_slots)
    /\ \A i, j \in Ids : i < j => a.mslots[i].base_gfn >= a.mslots[j].base_gfn
    /\ \A i, j \in Ids : i # j => Pages(a.mslots[i]) \cap Pages(a.mslots[j]) = {}

\* Every array a reader can reach is well-formed, at every moment of every
\* create, delete, move and flags update.
InstalledWellFormed == \A as \in AddressSpaces : WellFormed(Installed(as))

\* The assertions in id_to_memslot, vmrun_update_memslots and
\* vmrun_install_new_memslots never fire.
NoWarn == ~warned

\* An MMIO spte that check_mmio_spte accepts never hides memory: its frame has no
\* slot in the installed array.  The fault that created it may have looked the
\* frame up before an update and read the generation after it.
MmioSpteFresh == \A gfn \in Gfn : CheckMmioSpte(gfn) => ~HasSlot(Installed(0), gfn)

\* "Generations must be unique even across address spaces": no value an spte can
\* store stands for arrays of two address spaces.
GenerationsUnique ==
    \A as, as2 \in AddressSpaces : as # as2 =>
        EvenPart(Installed(as).generation) # EvenPart(Installed(as2).generation)

\* SRCU discipline: the slots of an array that a reader uses are neither changed
\* nor freed under it, although the writer re-uses the old array.
ReadersStable ==
    [][\A r \in Readers : \A b \in reader[r].held \cap reader'[r].held :
          /\ arr'[0][b].mslots = arr[0][b].mslots
          /\ ~(freed'[0] /\ b # memslots'[0])]_vars

\* A memory region update ends although vCPU threads keep entering and leaving
\* SRCU sections.
UpdateEnds == writer.pc # "idle" ~> writer.pc = "idle"

=============================================================================
