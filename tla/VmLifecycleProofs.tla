-------------------------- MODULE VmLifecycleProofs --------------------------
(***************************************************************************)
(* Proofs about VmLifecycle, for any threads, vCPUs and ids.               *)
(*                                                                         *)
(* FileInv is the inductive invariant behind users_count.  Relative to it  *)
(* TableInv, Returned and Rest are inductive: the vCPU mutexes are held    *)
(* only inside ioctls, created_vcpus bounds the table of vCPUs and their   *)
(* ids differ, and what a vCPU allocated is given back.                    *)
(***************************************************************************)
EXTENDS VmLifecycle, FiniteSetTheorems, TLAPS

All == Allocated(Len(Stages))

Pcs == {"user", "dead"} \cup InVmIoctl \cup InVcpuIoctl \cup InDestroy

Things == {"struct", "run", "mmu", "vmcb", "hsave"}

Types ==
    /\ vm \in {"live", "destroying", "freed"}
    /\ users \in Nat /\ vmfds \in Nat
    /\ online \in Seq(Vcpus)
    /\ fds \in [Vcpus -> Nat]
    /\ mutex \in [Vcpus -> Threads \cup {None}]
    /\ id \in [Vcpus -> Ids \cup {None}]
    /\ res \in [Vcpus -> SUBSET Things]
    /\ pc \in [Threads -> Pcs]
    /\ on \in [Threads -> Vcpus \cup {None}]

Open == {c \in Vcpus : VcpuFileOpen(c)}

Counted == users = Cardinality(Open) + (IF VmFileOpen THEN 1 ELSE 0)

Alive == users > 0 <=> vm = "live"

\* An open file has its vCPU; the id tells it from a structure not yet used.
Stocked == \A c \in Open : res[c] = All /\ id[c] # None

Attached == \A t \in Threads : pc[t] \in InVcpuIoctl \cup Creating => on[t] \in Vcpus

\* A vCPU under creation belongs to one thread until it has a descriptor.
Private ==
    \A t \in Threads : pc[t] \in Creating =>
        /\ id[on[t]] # None
        /\ pc[t] # "c_publish" => on[t] \notin Open
        /\ pc[t] = "c_online" => res[on[t]] = All
        /\ \A u \in Threads : pc[u] \in Creating /\ on[u] = on[t] => u = t

OneDestroyer ==
    \A t \in Threads : pc[t] \in InDestroy =>
        /\ vm = "destroying"
        /\ \A u \in Threads : pc[u] \in InDestroy => u = t

FileInv == Types /\ Counted /\ Alive /\ Stocked /\ Attached /\ Private /\ OneDestroyer

-----------------------------------------------------------------------------
(* Open files and their count *)

LEMMA OpenFinite == IsFiniteSet(Open) /\ Cardinality(Open) \in Nat
<1>1. IsFiniteSet(Open)
  BY LifecycleAssumption, FS_Subset, Zenon DEF Open
<1> QED
  BY <1>1, FS_CardinalityType, Zenon

LEMMA InitInv == Init => FileInv
<1> SUFFICES ASSUME Init PROVE FileInv
  BY Zenon
<1>1. Types
  BY DEF Init, Types, Pcs
<1>2. Open = {} /\ VmFileOpen
  BY DEF Init, Open, VcpuFileOpen, VmFileOpen, InVcpuIoctl
<1>3. Counted
  BY <1>2, FS_EmptySet DEF Init, Counted
<1>4. Alive /\ Stocked
  BY <1>2 DEF Init, Alive, Stocked
<1>5. Attached /\ Private /\ OneDestroyer
  BY Zenon DEF Init, Attached, Private, OneDestroyer, InVcpuIoctl, Creating, InDestroy
<1> QED
  BY <1>1, <1>3, <1>4, <1>5, Zenon DEF FileInv

\* A thread that stays in its ioctl, or out of them all, opens and closes nothing.
LEMMA SameFiles ==
  ASSUME Types, NEW t \in Threads, NEW new,
         pc' = [pc EXCEPT ![t] = new], on' = on, fds' = fds, vmfds' = vmfds,
         new \in InVmIoctl <=> pc[t] \in InVmIoctl,
         new \in InVcpuIoctl <=> pc[t] \in InVcpuIoctl
  PROVE  Open' = Open /\ (VmFileOpen' <=> VmFileOpen)
<1>1. \A u \in Threads : pc'[u] = IF u = t THEN new ELSE pc[u]
  BY Zenon DEF Types
<1>2. VmFileOpen' <=> VmFileOpen
  BY <1>1, Zenon DEF VmFileOpen
<1>3. \A c \in Vcpus : VcpuFileOpen(c)' <=> VcpuFileOpen(c)
  BY <1>1, Zenon DEF VcpuFileOpen
<1> QED
  BY <1>2, <1>3, Zenon DEF Open

LEMMA CountKept ==
  ASSUME Counted, Alive, users' = users, vm' = vm, Open' = Open, VmFileOpen' <=> VmFileOpen
  PROVE  Counted' /\ Alive'
<1>1. (IF VmFileOpen' THEN 1 ELSE 0) = (IF VmFileOpen THEN 1 ELSE 0)
  BY Zenon
<1> QED
  BY <1>1, Zenon DEF Counted, Alive

\* Dropping the reference of a file that closes.
LEMMA PutInv ==
  ASSUME FileInv, NEW t \in Threads, PutVmrun(t), users > 0,
         Cardinality(Open') + (IF VmFileOpen' THEN 1 ELSE 0) = users - 1
  PROVE  /\ Counted' /\ Alive' /\ users' \in Nat /\ vm' \in {"live", "destroying", "freed"}
         /\ pc' = [pc EXCEPT ![t] = pc'[t]]
         /\ pc'[t] \in {"user", "d_unload"}
         /\ OneDestroyer'
<1> USE DEF FileInv, PutVmrun
<1>1. Counted'
  BY Zenon DEF Counted
<1>2. users' \in Nat /\ vm' \in {"live", "destroying", "freed"} /\ Alive' /\ vm = "live"
  BY DEF Types, Alive
<1>3. pc' = [pc EXCEPT ![t] = pc'[t]] /\ pc'[t] \in {"user", "d_unload"}
  BY Zenon DEF Types
<1>4. \A u \in Threads : pc'[u] \in InDestroy => u = t /\ vm' = "destroying"
  BY <1>2, Zenon DEF OneDestroyer, Types, InDestroy
<1>5. OneDestroyer'
  BY <1>4, Zenon DEF OneDestroyer
<1> QED
  BY <1>1, <1>2, <1>3, <1>5, Zenon

\* The thread leaves for user space or the destruction: what it leaves behind.
LEMMA LeaveInv ==
  ASSUME FileInv, NEW t \in Threads, pc' = [pc EXCEPT ![t] = pc'[t]],
         pc'[t] \in {"user", "d_unload"}, \A u \in Threads \ {t} : on'[u] = on[u],
         Open' \subseteq Open, res' = res, id' = id
  PROVE  Stocked' /\ Attached' /\ Private'
<1> USE DEF FileInv
<1>1. \A u \in Threads : IF u = t THEN pc'[u] \notin InVcpuIoctl \cup Creating
                         ELSE pc'[u] = pc[u] /\ on'[u] = on[u]
  BY Zenon DEF Types, InVcpuIoctl, Creating
<1>2. Stocked'
  BY Zenon DEF Stocked
<1>3. Attached'
  BY <1>1, Zenon DEF Attached
<1>4. Private'
  BY <1>1, Zenon DEF Private
<1> QED
  BY <1>2, <1>3, <1>4, Zenon

-----------------------------------------------------------------------------
(* Closing and returning *)

LEMMA CloseVmInv ==
  ASSUME FileInv, NEW t \in Threads, CloseVm(t)
  PROVE  FileInv'
<1> USE DEF FileInv, CloseVm
<1> DEFINE open == vmfds' > 0 \/ OtherInVm(t)
<1>1. VmFileOpen /\ vmfds' \in Nat
  BY DEF VmFileOpen, Types
<1>2. pc' = [pc EXCEPT ![t] = pc'[t]] /\ pc'[t] \in {"user", "d_unload"}
  BY Zenon DEF Fput, PutVmrun, Types
<1>3. \A u \in Threads : pc'[u] = IF u = t THEN pc'[t] ELSE pc[u]
  BY <1>2, Zenon DEF Types
<1>4. VmFileOpen' <=> open
  BY <1>2, <1>3, Zenon DEF VmFileOpen, OtherInVm, InVmIoctl, Creating
<1>5. Open' = Open
  BY <1>2, <1>3, Zenon DEF Open, VcpuFileOpen, InVcpuIoctl
<1>6. users = Cardinality(Open) + 1 /\ users > 0
  BY <1>1, OpenFinite DEF Counted
<1>7. Counted' /\ Alive' /\ users' \in Nat /\ vm' \in {"live", "destroying", "freed"} /\ OneDestroyer'
  <2>1. CASE open
    <3>1. users' = users /\ vm' = vm /\ pc'[t] = "user"
      BY <2>1, Zenon DEF Fput, Types
    <3>2. OneDestroyer'
      BY <3>1, <1>3, Zenon DEF OneDestroyer, InDestroy
    <3> QED
      BY <2>1, <3>1, <3>2, <1>1, <1>4, <1>5, CountKept, Zenon DEF Types
  <2>2. CASE ~open
    <3>1. PutVmrun(t)
      BY <2>2, Zenon DEF Fput
    <3>2. Cardinality(Open') + (IF VmFileOpen' THEN 1 ELSE 0) = users - 1
      BY <2>2, <1>4, <1>5, <1>6, OpenFinite
    <3> QED
      BY <3>1, <3>2, <1>6, PutInv, Zenon
  <2> QED
    BY <2>1, <2>2, Zenon
<1>8. Stocked' /\ Attached' /\ Private'
  BY <1>2, <1>5, LeaveInv, Zenon
<1>9. Types'
  BY <1>1, <1>2, <1>7, Zenon DEF Types, Pcs, InDestroy
<1> QED
  BY <1>7, <1>8, <1>9, Zenon

\* A vCPU file loses the descriptor or the ioctl that thread t held.
LEMMA CloseFile ==
  ASSUME FileInv, NEW t \in Threads, NEW c \in Open, NEW open \in BOOLEAN,
         Fput(t, open), VmFileOpen' <=> VmFileOpen,
         Open' = IF open THEN Open ELSE Open \ {c}
  PROVE  /\ Counted' /\ Alive' /\ users' \in Nat /\ vm' \in {"live", "destroying", "freed"}
         /\ OneDestroyer'
<1> USE DEF FileInv
<1>1. users = Cardinality(Open) + (IF VmFileOpen THEN 1 ELSE 0) /\ Cardinality(Open) > 0
  <2>1. Cardinality(Open \ {c}) = Cardinality(Open) - 1 /\ IsFiniteSet(Open \ {c})
    BY OpenFinite, FS_RemoveElement, Zenon
  <2>2. Cardinality(Open \ {c}) \in Nat
    BY <2>1, FS_CardinalityType, Zenon
  <2>3. Cardinality(Open) > 0
    BY ONLY <2>1, <2>2, OpenFinite
  <2> QED
    BY <2>3, Zenon DEF Counted
<1>2. CASE open
  <2>1. users' = users /\ vm' = vm /\ pc' = [pc EXCEPT ![t] = "user"]
    BY <1>2, Zenon DEF Fput
  <2>2. OneDestroyer'
    BY <2>1, Zenon DEF OneDestroyer, InDestroy, Types
  <2> QED
    BY <1>2, <2>1, <2>2, CountKept, Zenon DEF Types
<1>3. CASE ~open
  <2>1. PutVmrun(t)
    BY <1>3, Zenon DEF Fput
  <2>2. Cardinality(Open') = Cardinality(Open) - 1
    BY <1>3, OpenFinite, FS_RemoveElement, Zenon
  <2>3. (IF VmFileOpen' THEN 1 ELSE 0) = (IF VmFileOpen THEN 1 ELSE 0)
    BY Zenon
  <2>4. Cardinality(Open') + (IF VmFileOpen' THEN 1 ELSE 0) = users - 1 /\ users > 0
    BY ONLY <1>1, <2>2, <2>3, OpenFinite
  <2> QED
    BY <2>1, <2>4, PutInv, Zenon
<1> QED
  BY <1>2, <1>3, Zenon

LEMMA FputPc ==
  ASSUME Types, NEW t \in Threads, NEW open \in BOOLEAN, Fput(t, open)
  PROVE  pc' = [pc EXCEPT ![t] = pc'[t]] /\ pc'[t] \in {"user", "d_unload"}
  BY Zenon DEF Types, Fput, PutVmrun

LEMMA CloseVcpuInv ==
  ASSUME FileInv, NEW t \in Threads, NEW c \in Vcpus, CloseVcpu(t, c)
  PROVE  FileInv'
<1> USE DEF FileInv, CloseVcpu
<1> DEFINE open == fds'[c] > 0 \/ OtherInVcpu(t, c)
<1>1. c \in Open /\ fds' \in [Vcpus -> Nat] /\ \A d \in Vcpus \ {c} : fds'[d] = fds[d]
  BY DEF Open, VcpuFileOpen, Types
<1>2. open \in BOOLEAN /\ Fput(t, open)
  BY Zenon DEF OtherInVcpu
<1> HIDE DEF open
<1>3. pc' = [pc EXCEPT ![t] = pc'[t]] /\ pc'[t] \in {"user", "d_unload"}
  BY <1>2, FputPc, Zenon
<1>4. \A u \in Threads : pc'[u] = IF u = t THEN pc'[t] ELSE pc[u]
  BY <1>3, Zenon DEF Types
<1>5. VmFileOpen' <=> VmFileOpen
  BY <1>3, <1>4, Zenon DEF VmFileOpen, InVmIoctl, Creating
<1>6. VcpuFileOpen(c)' <=> open
  BY <1>3, <1>4, Zenon DEF VcpuFileOpen, OtherInVcpu, InVcpuIoctl, open
<1>7. \A d \in Vcpus \ {c} : VcpuFileOpen(d)' <=> VcpuFileOpen(d)
  BY <1>1, <1>3, <1>4, Zenon DEF VcpuFileOpen, InVcpuIoctl
<1>8. Open' = IF open THEN Open ELSE Open \ {c}
  BY <1>1, <1>6, <1>7, Zenon DEF Open
<1>9. /\ Counted' /\ Alive' /\ users' \in Nat /\ vm' \in {"live", "destroying", "freed"}
      /\ OneDestroyer'
  BY <1>1, <1>2, <1>5, <1>8, CloseFile, Zenon
<1>10. Stocked' /\ Attached' /\ Private'
  BY <1>3, <1>8, LeaveInv, Zenon
<1>11. Types'
  BY <1>1, <1>3, <1>9, Zenon DEF Types, Pcs, InDestroy
<1> QED
  BY <1>9, <1>10, <1>11, Zenon

LEMMA VcpuIoctlReturnInv ==
  ASSUME FileInv, NEW t \in Threads, VcpuIoctlReturn(t)
  PROVE  FileInv'
<1> USE DEF FileInv, VcpuIoctlReturn
<1> DEFINE open == fds[on[t]] > 0 \/ OtherInVcpu(t, on[t])
<1>0. PICK c \in Vcpus : c = on[t]
  BY Zenon DEF Attached, InVcpuIoctl
<1>1. c \in Open
  BY <1>0, Zenon DEF Open, VcpuFileOpen, InVcpuIoctl
<1>2. open \in BOOLEAN /\ Fput(t, open)
  BY Zenon DEF OtherInVcpu
<1> HIDE DEF open
<1>3. pc' = [pc EXCEPT ![t] = pc'[t]] /\ pc'[t] \in {"user", "d_unload"}
  BY <1>2, FputPc, Zenon
<1>4. \A u \in Threads : /\ pc'[u] = IF u = t THEN pc'[t] ELSE pc[u]
                         /\ on'[u] = IF u = t THEN None ELSE on[u]
  BY <1>3, Zenon DEF Types
<1>5. VmFileOpen' <=> VmFileOpen
  BY <1>3, <1>4, Zenon DEF VmFileOpen, InVmIoctl, Creating
<1>6. VcpuFileOpen(c)' <=> open
  BY <1>0, <1>3, <1>4, Zenon DEF VcpuFileOpen, OtherInVcpu, InVcpuIoctl, open
<1>7. \A d \in Vcpus \ {c} : VcpuFileOpen(d)' <=> VcpuFileOpen(d)
  BY <1>0, <1>1, <1>3, <1>4 DEF VcpuFileOpen, InVcpuIoctl
<1>8. Open' = IF open THEN Open ELSE Open \ {c}
  BY <1>1, <1>6, <1>7, Zenon DEF Open
<1>9. /\ Counted' /\ Alive' /\ users' \in Nat /\ vm' \in {"live", "destroying", "freed"}
      /\ OneDestroyer'
  BY <1>1, <1>2, <1>5, <1>8, CloseFile, Zenon
<1>10. Stocked' /\ Attached' /\ Private'
  BY <1>3, <1>4, <1>8, LeaveInv
<1>11. Types'
  BY <1>3, <1>9, Zenon DEF Types, Pcs, InDestroy
<1> QED
  BY <1>9, <1>10, <1>11, Zenon

LEMMA VmIoctlReturnInv ==
  ASSUME FileInv, NEW t \in Threads, VmIoctlReturn(t)
  PROVE  FileInv'
<1> USE DEF FileInv, VmIoctlReturn
<1> DEFINE open == vmfds > 0 \/ OtherInVm(t)
<1>1. VmFileOpen
  BY Zenon DEF VmFileOpen, InVmIoctl
<1>2. pc' = [pc EXCEPT ![t] = pc'[t]] /\ pc'[t] \in {"user", "d_unload"}
  BY Zenon DEF Fput, PutVmrun, Types
<1>3. \A u \in Threads : /\ pc'[u] = IF u = t THEN pc'[t] ELSE pc[u]
                         /\ on'[u] = IF u = t THEN None ELSE on[u]
  BY <1>2, Zenon DEF Types
<1>4. VmFileOpen' <=> open
  BY <1>2, <1>3, Zenon DEF VmFileOpen, OtherInVm, InVmIoctl, Creating
<1>5. Open' = Open
  BY <1>2, <1>3 DEF Open, VcpuFileOpen, InVcpuIoctl
<1>6. users = Cardinality(Open) + 1 /\ users > 0
  BY <1>1, OpenFinite DEF Counted
<1>7. Counted' /\ Alive' /\ users' \in Nat /\ vm' \in {"live", "destroying", "freed"} /\ OneDestroyer'
  <2>1. CASE open
    <3>1. users' = users /\ vm' = vm /\ pc'[t] = "user"
      BY <2>1, Zenon DEF Fput, Types
    <3>2. OneDestroyer'
      BY <3>1, <1>3, Zenon DEF OneDestroyer, InDestroy
    <3> QED
      BY <2>1, <3>1, <3>2, <1>1, <1>4, <1>5, CountKept, Zenon DEF Types
  <2>2. CASE ~open
    <3>1. PutVmrun(t)
      BY <2>2, Zenon DEF Fput
    <3>2. Cardinality(Open') + (IF VmFileOpen' THEN 1 ELSE 0) = users - 1
      BY <2>2, <1>4, <1>5, <1>6, OpenFinite
    <3> QED
      BY <3>1, <3>2, <1>6, PutInv, Zenon
  <2> QED
    BY <2>1, <2>2, Zenon
<1>8. Stocked' /\ Attached' /\ Private'
  BY <1>2, <1>3, <1>5, LeaveInv
<1>9. Types'
  BY <1>2, <1>7, Zenon DEF Types, Pcs, InDestroy
<1> QED
  BY <1>7, <1>8, <1>9, Zenon

-----------------------------------------------------------------------------
(* Steps inside an ioctl or the destruction *)

\* What such a step may do to the vCPUs under creation and to the destroyer.
Moves(old, new) ==
    /\ new \in Pcs
    /\ new \in InVmIoctl <=> old \in InVmIoctl
    /\ new \in InVcpuIoctl <=> old \in InVcpuIoctl
    /\ new \in Creating => old \in Creating \ {"c_publish"} /\ new # "c_publish"
    /\ new \in InDestroy => old \in InDestroy

Quiet(t, new) ==
    /\ pc' = [pc EXCEPT ![t] = new] /\ Moves(pc[t], new)
    /\ on' = on /\ fds' = fds /\ vmfds' = vmfds /\ users' = users /\ vm' = vm /\ id' = id
    /\ online' \in Seq(Vcpus) /\ mutex' \in [Vcpus -> Threads \cup {None}]
    /\ res' \in [Vcpus -> SUBSET Things]
    /\ new = "c_online" => res'[on[t]] = All
    /\ \/ res' = res
       \/ pc[t] \in Creating \ {"c_publish"} /\ \A c \in Vcpus \ {on[t]} : res'[c] = res[c]

LEMMA MoveFacts ==
  /\ Moves("c_create", "c_online") /\ Moves("c_create", "c_decrement")
  /\ Moves("c_online", "c_destroy") /\ Moves("c_publish", "vm_out")
  /\ Moves("c_destroy", "c_decrement") /\ Moves("c_decrement", "vm_out")
  /\ Moves("v_load", "v_ioctl") /\ Moves("v_load", "v_out") /\ Moves("v_ioctl", "v_out")
  /\ Moves("v_ioctl", "v_loop") /\ Moves("v_loop", "v_guest") /\ Moves("v_guest", "v_loop")
  /\ Moves("v_guest", "v_out") /\ Moves("d_unload", "d_free") /\ Moves("d_unload", "dead")
  BY Zenon DEF Moves, Pcs, Creating, InVmIoctl, InVcpuIoctl, InDestroy

LEMMA QuietInv ==
  ASSUME FileInv, NEW t \in Threads, NEW new, Quiet(t, new)
  PROVE  FileInv'
<1> USE DEF FileInv, Quiet, Moves
<1>1. Open' = Open /\ (VmFileOpen' <=> VmFileOpen)
  BY SameFiles, Zenon
<1>2. Counted' /\ Alive'
  BY <1>1, CountKept, Zenon
<1>3. \A u \in Threads : pc'[u] = IF u = t THEN new ELSE pc[u]
  BY Zenon DEF Types
<1>4. Types'
  BY Zenon DEF Types
<1>5. Stocked'
  <2> SUFFICES ASSUME NEW c \in Open PROVE res'[c] = All /\ id'[c] # None
    BY <1>1, Zenon DEF Stocked
  <2>1. res'[c] = res[c]
    BY Zenon DEF Private, Open
  <2> QED
    BY <2>1, Zenon DEF Stocked
<1>6. Attached'
  BY <1>3, Zenon DEF Attached, InVmIoctl
<1>7. Private'
  <2> SUFFICES ASSUME NEW u \in Threads, pc'[u] \in Creating
               PROVE  /\ id[on[u]] # None
                      /\ pc'[u] # "c_publish" => on[u] \notin Open
                      /\ pc'[u] = "c_online" => res'[on[u]] = All
                      /\ \A w \in Threads : pc'[w] \in Creating /\ on[w] = on[u] => w = u
    BY <1>1, Zenon DEF Private
  <2>1. pc[u] \in Creating /\ (pc'[u] # "c_publish" => pc[u] # "c_publish")
    BY <1>3, Zenon
  <2>2. id[on[u]] # None /\ (pc'[u] # "c_publish" => on[u] \notin Open)
    BY <2>1, Zenon DEF Private
  <2>3. \A w \in Threads : pc'[w] \in Creating /\ on[w] = on[u] => w = u
    BY <1>3, <2>1 DEF Private
  <2>4. ASSUME pc'[u] = "c_online" PROVE res'[on[u]] = All
    <3>1. CASE u = t
      BY <3>1, <1>3, <2>4, Zenon
    <3>2. CASE u # t
      <4>1. pc[u] = "c_online" /\ res[on[u]] = All /\ on[u] \in Vcpus
        BY <3>2, <1>3, <2>1, <2>4, Zenon DEF Private, Attached
      <4>2. res' = res \/ on[u] # on[t]
        BY <3>2, <2>1, Zenon DEF Private
      <4> QED
        BY <4>1, <4>2, Zenon
    <3> QED
      BY <3>1, <3>2, Zenon
  <2> QED
    BY <2>2, <2>3, <2>4, Zenon
<1>8. OneDestroyer'
  BY <1>3 DEF OneDestroyer
<1> QED
  BY <1>2, <1>4, <1>5, <1>6, <1>7, <1>8, Zenon

LEMMA CreationInv ==
  ASSUME FileInv, NEW t \in Threads,
         \/ VcpuCreate(t) \/ VcpuRefuse(t) \/ VcpuPublish(t) \/ VcpuDestroy(t)
         \/ VcpuDecrement(t)
  PROVE  FileInv'
<1>0. Types /\ (pc[t] \in Creating => on[t] \in Vcpus)
  BY Zenon DEF FileInv, Attached
<1>1. CASE VcpuCreate(t)
  <2>1. PICK n \in 0..Len(Stages) :
          /\ res' = [res EXCEPT ![on[t]] = IF n = Len(Stages) THEN Allocated(n)
                                           ELSE Allocated(n) \ Unwound(n)]
          /\ pc' = [pc EXCEPT ![t] = IF n = Len(Stages) THEN "c_online" ELSE "c_decrement"]
    BY <1>1, Zenon DEF VcpuCreate
  <2> DEFINE new == IF n = Len(Stages) THEN "c_online" ELSE "c_decrement"
  <2>2. Allocated(n) \in SUBSET Things
    BY DEF Allocated, Stages, Things
  <2>3. pc[t] = "c_create" /\ on[t] \in Vcpus /\ pc[t] \in Creating \ {"c_publish"}
    BY <1>0, <1>1, Zenon DEF VcpuCreate, Creating
  <2>4. /\ res' \in [Vcpus -> SUBSET Things]
        /\ new = "c_online" => res'[on[t]] = All
        /\ \A c \in Vcpus \ {on[t]} : res'[c] = res[c]
    BY <1>0, <2>1, <2>2, <2>3, Zenon DEF Types, All
  <2>5. Quiet(t, new)
    BY <1>0, <1>1, <2>1, <2>3, <2>4, MoveFacts, ZenonT(60) DEF Quiet, VcpuCreate, Types
  <2> QED
    BY <2>5, QuietInv, Zenon
<1>2. CASE VcpuRefuse(t)
  <2>1. Quiet(t, "c_destroy")
    BY <1>0, <1>2, MoveFacts, Zenon DEF Quiet, VcpuRefuse, Types
  <2> QED
    BY <2>1, QuietInv, Zenon
<1>3. CASE VcpuPublish(t)
  <2>1. online' \in Seq(Vcpus)
    BY <1>0, <1>3, SMTT(30) DEF VcpuPublish, Types, Creating
  <2>2. Quiet(t, "vm_out")
    BY <1>0, <1>3, <2>1, MoveFacts, Zenon DEF Quiet, VcpuPublish, Types
  <2> QED
    BY <2>2, QuietInv, Zenon
<1>4. CASE VcpuDestroy(t)
  <2>1. pc[t] = "c_destroy" /\ on[t] \in Vcpus /\ pc[t] \in Creating \ {"c_publish"}
    BY <1>0, <1>4, Zenon DEF VcpuDestroy, Creating
  <2>2. /\ res' \in [Vcpus -> SUBSET Things]
        /\ \A c \in Vcpus \ {on[t]} : res'[c] = res[c]
    BY <1>0, <1>4, <2>1, Zenon DEF VcpuDestroy, VcpuFree, Types
  <2>3. Quiet(t, "c_decrement")
    BY <1>0, <1>4, <2>1, <2>2, MoveFacts, Zenon DEF Quiet, VcpuDestroy, Types
  <2> QED
    BY <2>3, QuietInv, Zenon
<1>5. CASE VcpuDecrement(t)
  <2>1. Quiet(t, "vm_out")
    BY <1>0, <1>5, MoveFacts, Zenon DEF Quiet, VcpuDecrement, Types
  <2> QED
    BY <2>1, QuietInv, Zenon
<1> QED
  BY <1>1, <1>2, <1>3, <1>4, <1>5, Zenon

LEMMA VcpuIoctlStepInv ==
  ASSUME FileInv, NEW t \in Threads,
         \/ VcpuLoad(t) \/ VcpuLoadKilled(t) \/ VcpuIoctlDone(t) \/ VcpuIoctlUnknown(t)
         \/ RunBegin(t) \/ EnterGuest(t) \/ HandleExitAgain(t) \/ HandleExitToUser(t)
  PROVE  FileInv'
<1>0. Types
  BY Zenon DEF FileInv
<1>1. CASE VcpuLoad(t)
  <2>1. Quiet(t, "v_ioctl")
    BY <1>0, <1>1, MoveFacts, Zenon DEF Quiet, VcpuLoad, Types
  <2> QED
    BY <2>1, QuietInv, Zenon
<1>2. CASE VcpuLoadKilled(t)
  <2>1. Quiet(t, "v_out")
    BY <1>0, <1>2, MoveFacts, Zenon DEF Quiet, VcpuLoadKilled, Types
  <2> QED
    BY <2>1, QuietInv, Zenon
<1>3. CASE VcpuIoctlDone(t)
  <2>1. Quiet(t, "v_out")
    BY <1>0, <1>3, MoveFacts, Zenon DEF Quiet, VcpuIoctlDone, VcpuPut, Types
  <2> QED
    BY <2>1, QuietInv, Zenon
<1>4. CASE VcpuIoctlUnknown(t)
  <2>1. Quiet(t, "v_out")
    BY <1>0, <1>4, MoveFacts, Zenon DEF Quiet, VcpuIoctlUnknown, Types
  <2> QED
    BY <2>1, QuietInv, Zenon
<1>5. CASE RunBegin(t)
  <2>1. Quiet(t, "v_loop")
    BY <1>0, <1>5, MoveFacts, Zenon DEF Quiet, RunBegin, Types
  <2> QED
    BY <2>1, QuietInv, Zenon
<1>6. CASE EnterGuest(t)
  <2>1. Quiet(t, "v_guest")
    BY <1>0, <1>6, MoveFacts, Zenon DEF Quiet, EnterGuest, Types
  <2> QED
    BY <2>1, QuietInv, Zenon
<1>7. CASE HandleExitAgain(t)
  <2>1. Quiet(t, "v_loop")
    BY <1>0, <1>7, MoveFacts, Zenon DEF Quiet, HandleExitAgain, Types
  <2> QED
    BY <2>1, QuietInv, Zenon
<1>8. CASE HandleExitToUser(t)
  <2>1. Quiet(t, "v_out")
    BY <1>0, <1>8, MoveFacts, Zenon DEF Quiet, HandleExitToUser, VcpuPut, Types
  <2> QED
    BY <2>1, QuietInv, Zenon
<1> QED
  BY <1>1, <1>2, <1>3, <1>4, <1>5, <1>6, <1>7, <1>8, Zenon

LEMMA DestroyStepInv ==
  ASSUME FileInv, NEW t \in Threads, DestroyUnload(t) \/ DestroyKilled(t)
  PROVE  FileInv'
<1>0. Types
  BY Zenon DEF FileInv
<1>1. CASE DestroyUnload(t)
  <2>1. Quiet(t, "d_free")
    BY <1>0, <1>1, MoveFacts, Zenon DEF Quiet, DestroyUnload, Types
  <2> QED
    BY <2>1, QuietInv, Zenon
<1>2. CASE DestroyKilled(t)
  <2>1. Quiet(t, "dead")
    BY <1>0, <1>2, MoveFacts, Zenon DEF Quiet, DestroyKilled, Types
  <2> QED
    BY <2>1, QuietInv, Zenon
<1> QED
  BY <1>1, <1>2, Zenon

\* The machine is freed only when no file is open, so nobody creates a vCPU.
LEMMA DestroyFreeInv ==
  ASSUME FileInv, NEW t \in Threads, DestroyFree(t)
  PROVE  FileInv'
<1>0. Types /\ Counted
  BY Zenon DEF FileInv
<1>1. /\ pc[t] = "d_free" /\ pc' = [pc EXCEPT ![t] = "user"] /\ online' = <<>> /\ vm' = "freed"
      /\ on' = on /\ fds' = fds /\ vmfds' = vmfds /\ users' = users /\ id' = id /\ mutex' = mutex
  BY Zenon DEF DestroyFree
<1>2. vm = "destroying" /\ users = 0
  BY <1>1 DEF FileInv, OneDestroyer, InDestroy, Alive, Types
<1>3. Cardinality(Open) = 0 /\ ~VmFileOpen
  BY ONLY <1>0, <1>2, OpenFinite DEF Counted
<1>4. Open = {}
  BY <1>3, OpenFinite, FS_EmptySet, Zenon
<1>5. \A u \in Threads : pc[u] \notin Creating
  BY <1>3, Zenon DEF VmFileOpen, InVmIoctl
<1>6. \A u \in Threads : pc'[u] = IF u = t THEN "user" ELSE pc[u]
  BY <1>0, <1>1, Zenon DEF Types
<1>7. Open' = Open /\ (VmFileOpen' <=> VmFileOpen)
  <2>1. /\ "user" \in InVmIoctl <=> pc[t] \in InVmIoctl
        /\ "user" \in InVcpuIoctl <=> pc[t] \in InVcpuIoctl
    BY <1>1, Zenon DEF InVmIoctl, InVcpuIoctl, Creating
  <2> QED
    BY <1>0, <1>1, <2>1, SameFiles, Zenon
<1>8. Types'
  <2>1. res' \in [Vcpus -> SUBSET Things]
    BY <1>0, Zenon DEF DestroyFree, Types, VcpuFree
  <2>2. online' \in Seq(Vcpus)
    BY <1>1
  <2> QED
    BY <1>0, <1>1, <2>1, <2>2, Zenon DEF Types, Pcs
<1>9. Counted'
  BY <1>0, <1>1, <1>7, Zenon DEF Counted
<1>10. Alive' /\ Stocked'
  BY <1>1, <1>2, <1>4, <1>7, SMTT(30) DEF Alive, Stocked
<1>11. Attached' /\ Private'
  BY <1>1, <1>5, <1>6 DEF FileInv, Attached, Private, InVcpuIoctl, Creating
<1>12. OneDestroyer'
  BY <1>1, <1>6 DEF FileInv, OneDestroyer, InDestroy
<1> QED
  BY <1>8, <1>9, <1>10, <1>11, <1>12, Zenon DEF FileInv

-----------------------------------------------------------------------------
(* Creations, ioctls and descriptors; every step *)

LEMMA CreateVcpuInv ==
  ASSUME FileInv, NEW t \in Threads, NEW c \in Vcpus, NEW i \in Ids, CreateVcpu(t, c, i)
  PROVE  FileInv'
<1>0. Types /\ Counted /\ Alive /\ Stocked /\ Attached /\ Private /\ OneDestroyer
  BY Zenon DEF FileInv
<1>1. /\ pc[t] = "user" /\ pc' = [pc EXCEPT ![t] = "c_create"] /\ on' = [on EXCEPT ![t] = c]
      /\ id[c] = None /\ id' = [id EXCEPT ![c] = i] /\ vmfds > 0
      /\ vm' = vm /\ users' = users /\ fds' = fds /\ vmfds' = vmfds /\ res' = res
      /\ mutex' = mutex /\ online' = online
  BY Zenon DEF CreateVcpu
<1>2. \A u \in Threads : /\ pc'[u] = IF u = t THEN "c_create" ELSE pc[u]
                         /\ on'[u] = IF u = t THEN c ELSE on[u]
  BY <1>0, <1>1, Zenon DEF Types
<1>3. id'[c] = i /\ i # None /\ \A d \in Vcpus \ {c} : id'[d] = id[d]
  BY <1>0, <1>1, LifecycleAssumption, Zenon DEF Types
<1>4. Open' = Open /\ VmFileOpen /\ VmFileOpen'
  <2>1. pc[t] \notin InVcpuIoctl /\ pc'[t] \notin InVcpuIoctl
    BY <1>1, <1>2 DEF InVcpuIoctl
  <2>2. \A d \in Vcpus : VcpuFileOpen(d)' <=> VcpuFileOpen(d)
    BY <1>1, <1>2, <2>1, Zenon DEF VcpuFileOpen
  <2> QED
    BY <1>1, <2>2, Zenon DEF Open, VmFileOpen
<1>5. Counted' /\ Alive'
  BY <1>0, <1>1, <1>4, CountKept, Zenon
<1>6. c \notin Open
  BY <1>0, <1>1, Zenon DEF Stocked
<1>7. Types'
  BY <1>0, <1>1, Zenon DEF Types, Pcs, InVmIoctl, Creating
<1>8. Stocked'
  <2> SUFFICES ASSUME NEW d \in Open PROVE res[d] = All /\ id'[d] # None
    BY <1>1, <1>4, Zenon DEF Stocked
  <2>1. d \in Vcpus \ {c}
    BY <1>6, Zenon DEF Open
  <2> QED
    BY <1>0, <1>3, <2>1, Zenon DEF Stocked
<1>9. Attached' /\ OneDestroyer'
  BY <1>0, <1>1, <1>2 DEF Attached, OneDestroyer, InDestroy
<1>10. \A u \in Threads : pc[u] \in Creating => on[u] \in Vcpus \ {c}
  BY <1>0, <1>1, Zenon DEF Private, Attached
<1>11. Private'
  <2> SUFFICES ASSUME NEW u \in Threads, pc'[u] \in Creating
               PROVE  /\ id'[on'[u]] # None
                      /\ pc'[u] # "c_publish" => on'[u] \notin Open
                      /\ pc'[u] = "c_online" => res[on'[u]] = All
                      /\ \A w \in Threads : pc'[w] \in Creating /\ on'[w] = on'[u] => w = u
    BY <1>1, <1>4, Zenon DEF Private
  <2>1. CASE u = t
    BY <1>2, <1>3, <1>6, <1>10, <2>1, Zenon
  <2>2. CASE u # t
    BY <1>0, <1>2, <1>3, <1>10, <2>2 DEF Private
  <2> QED
    BY <2>1, <2>2, Zenon
<1> QED
  BY <1>5, <1>7, <1>8, <1>9, <1>11, Zenon DEF FileInv

LEMMA CreateVcpuTooManyInv ==
  ASSUME FileInv, NEW t \in Threads, CreateVcpuTooMany(t)
  PROVE  FileInv'
<1>0. Types /\ Counted /\ Alive /\ Stocked /\ Attached /\ Private /\ OneDestroyer
  BY Zenon DEF FileInv
<1>1. /\ pc[t] = "user" /\ pc' = [pc EXCEPT ![t] = "vm_out"] /\ on' = on /\ id' = id
      /\ vmfds > 0 /\ vm' = vm /\ users' = users /\ fds' = fds /\ vmfds' = vmfds
      /\ res' = res /\ mutex' = mutex /\ online' = online
  BY Zenon DEF CreateVcpuTooMany
<1>2. \A u \in Threads : pc'[u] = IF u = t THEN "vm_out" ELSE pc[u]
  BY <1>0, <1>1, Zenon DEF Types
<1>3. Open' = Open /\ VmFileOpen /\ VmFileOpen'
  <2>1. pc[t] \notin InVcpuIoctl /\ pc'[t] \notin InVcpuIoctl
    BY <1>1, <1>2 DEF InVcpuIoctl
  <2>2. \A d \in Vcpus : VcpuFileOpen(d)' <=> VcpuFileOpen(d)
    BY <1>1, <1>2, <2>1, Zenon DEF VcpuFileOpen
  <2> QED
    BY <1>1, <2>2, Zenon DEF Open, VmFileOpen
<1>4. Counted' /\ Alive'
  BY <1>0, <1>1, <1>3, CountKept, Zenon
<1>5. Types'
  BY <1>0, <1>1, Zenon DEF Types, Pcs, InVmIoctl
<1>6. Stocked'
  BY <1>0, <1>1, <1>3, Zenon DEF Stocked
<1>7. Attached' /\ Private' /\ OneDestroyer'
  BY <1>0, <1>1, <1>2, <1>3
  DEF Attached, Private, OneDestroyer, InVcpuIoctl, Creating, InDestroy
<1> QED
  BY <1>4, <1>5, <1>6, <1>7, Zenon DEF FileInv

LEMMA VcpuIoctlInv ==
  ASSUME FileInv, NEW t \in Threads, NEW c \in Vcpus, VcpuIoctl(t, c)
  PROVE  FileInv'
<1>0. Types /\ Counted /\ Alive /\ Stocked /\ Attached /\ Private /\ OneDestroyer
  BY Zenon DEF FileInv
<1>1. /\ pc[t] = "user" /\ pc' = [pc EXCEPT ![t] = "v_load"] /\ on' = [on EXCEPT ![t] = c]
      /\ fds[c] > 0 /\ id' = id /\ vm' = vm /\ users' = users /\ fds' = fds
      /\ vmfds' = vmfds /\ res' = res /\ mutex' = mutex /\ online' = online
  BY Zenon DEF VcpuIoctl
<1>2. \A u \in Threads : /\ pc'[u] = IF u = t THEN "v_load" ELSE pc[u]
                         /\ on'[u] = IF u = t THEN c ELSE on[u]
  BY <1>0, <1>1, Zenon DEF Types
<1>3. pc[t] \notin InVcpuIoctl \cup InVmIoctl /\ pc'[t] \notin InVmIoctl
  BY <1>1, <1>2 DEF InVcpuIoctl, InVmIoctl, Creating
<1>4. \A d \in Vcpus : VcpuFileOpen(d)' <=> VcpuFileOpen(d)
  BY <1>1, <1>2, <1>3 DEF VcpuFileOpen
<1>5. Open' = Open
  BY <1>4, Zenon DEF Open
<1>6. VmFileOpen' <=> VmFileOpen
  BY <1>1, <1>2, <1>3, Zenon DEF VmFileOpen
<1>7. Counted' /\ Alive'
  BY <1>0, <1>1, <1>5, <1>6, CountKept, Zenon
<1>8. Types'
  BY <1>0, <1>1, Zenon DEF Types, Pcs, InVcpuIoctl
<1>9. Stocked' /\ Attached'
  BY <1>0, <1>1, <1>2, <1>5, Zenon DEF Stocked, Attached
<1>10. Private' /\ OneDestroyer'
  BY <1>0, <1>1, <1>2, <1>5 DEF Private, OneDestroyer, Creating, InDestroy
<1> QED
  BY <1>7, <1>8, <1>9, <1>10, Zenon DEF FileInv

LEMMA DupVcpuInv ==
  ASSUME FileInv, NEW t \in Threads, NEW c \in Vcpus, DupVcpu(t, c)
  PROVE  FileInv'
<1>0. Types /\ Counted /\ Alive /\ Stocked /\ Attached /\ Private /\ OneDestroyer
  BY Zenon DEF FileInv
<1>1. /\ fds[c] \in 1..(MaxFds - 1) /\ fds' = [fds EXCEPT ![c] = @ + 1]
      /\ pc' = pc /\ on' = on /\ id' = id /\ vm' = vm /\ users' = users
      /\ vmfds' = vmfds /\ res' = res /\ mutex' = mutex /\ online' = online
  BY Zenon DEF DupVcpu
<1>2. fds' \in [Vcpus -> Nat] /\ \A d \in Vcpus : fds'[d] > 0 <=> fds[d] > 0
  BY <1>0, <1>1, LifecycleAssumption, SMTT(30) DEF Types
<1>3. \A d \in Vcpus : VcpuFileOpen(d)' <=> VcpuFileOpen(d)
  BY <1>1, <1>2, Zenon DEF VcpuFileOpen
<1>4. Open' = Open /\ (VmFileOpen' <=> VmFileOpen)
  BY <1>1, <1>3, Zenon DEF Open, VmFileOpen
<1>5. Counted' /\ Alive'
  BY <1>0, <1>1, <1>4, CountKept, Zenon
<1>6. Types'
  BY <1>0, <1>1, <1>2, Zenon DEF Types
<1>7. Stocked' /\ Attached' /\ Private' /\ OneDestroyer'
  BY <1>0, <1>1, <1>4, Zenon DEF Stocked, Attached, Private, OneDestroyer
<1> QED
  BY <1>5, <1>6, <1>7, Zenon DEF FileInv

\* The descriptor of a new vCPU takes the reference that its file will drop.
LEMMA VcpuDescriptorInv ==
  ASSUME FileInv, NEW t \in Threads, VcpuDescriptor(t)
  PROVE  FileInv'
<1>0. Types /\ Counted /\ Alive /\ Stocked /\ Attached /\ Private /\ OneDestroyer
  BY Zenon DEF FileInv
<1>1. /\ pc[t] = "c_online" /\ pc' = [pc EXCEPT ![t] = "c_publish"] /\ users' = users + 1
      /\ fds' = [fds EXCEPT ![on[t]] = 1] /\ on' = on /\ id' = id /\ vm' = vm
      /\ vmfds' = vmfds /\ res' = res /\ mutex' = mutex /\ online' = online
  BY Zenon DEF VcpuDescriptor, GetVmrun
<1>2. PICK c \in Vcpus : c = on[t]
  BY <1>0, <1>1, Zenon DEF Attached, Creating
<1>3. c \notin Open /\ res[c] = All /\ id[c] # None
  BY <1>0, <1>1, <1>2, Zenon DEF Private, Creating
<1>4. \A u \in Threads : pc'[u] = IF u = t THEN "c_publish" ELSE pc[u]
  BY <1>0, <1>1, Zenon DEF Types
<1>5. fds' \in [Vcpus -> Nat] /\ \A d \in Vcpus : fds'[d] = IF d = c THEN 1 ELSE fds[d]
  BY <1>0, <1>1, <1>2, Zenon DEF Types
<1>6. pc[t] \notin InVcpuIoctl /\ pc'[t] \notin InVcpuIoctl
  BY <1>1, <1>4 DEF InVcpuIoctl
<1>7. VcpuFileOpen(c)' /\ \A d \in Vcpus \ {c} : VcpuFileOpen(d)' <=> VcpuFileOpen(d)
  BY <1>1, <1>4, <1>5, <1>6 DEF VcpuFileOpen
<1>8. Open' = Open \cup {c}
  BY <1>3, <1>7, Zenon DEF Open
<1>9. VmFileOpen /\ VmFileOpen'
  BY <1>1, <1>4, Zenon DEF VmFileOpen, InVmIoctl, Creating
<1>10. users \in Nat /\ users = Cardinality(Open) + 1
  BY <1>0, <1>9, Zenon DEF Counted, Types
<1>11. Counted'
  <2>1. Cardinality(Open') = Cardinality(Open) + 1
    BY <1>3, <1>8, OpenFinite, FS_AddElement, Zenon
  <2>2. users' = Cardinality(Open') + 1
    BY ONLY <1>1, <1>10, <2>1, OpenFinite, Zenon
  <2> QED
    BY <1>9, <2>2, Zenon DEF Counted
<1>12. Alive'
  BY <1>0, <1>1, <1>10, OpenFinite, SMTT(30) DEF Alive
<1>13. Types'
  BY <1>0, <1>1, <1>5, SMTT(30) DEF Types, Pcs, InVmIoctl, Creating
<1>14. Stocked'
  BY <1>0, <1>1, <1>3, <1>8, Zenon DEF Stocked
<1>15. Attached' /\ OneDestroyer'
  BY <1>0, <1>1, <1>4, SMTT(30), Zenon
     DEF Attached, OneDestroyer, InVcpuIoctl, Creating, InDestroy
<1>16. Private'
  <2> SUFFICES ASSUME NEW u \in Threads, pc'[u] \in Creating
               PROVE  /\ id[on[u]] # None
                      /\ pc'[u] # "c_publish" => on[u] \notin Open'
                      /\ pc'[u] = "c_online" => res[on[u]] = All
                      /\ \A w \in Threads : pc'[w] \in Creating /\ on[w] = on[u] => w = u
    BY <1>1, Zenon DEF Private
  <2>1. \A w \in Threads : pc'[w] \in Creating => pc[w] \in Creating
    BY <1>1, <1>4, Zenon DEF Creating
  <2>2. CASE u = t
    BY <1>0, <1>2, <1>3, <1>4, <2>1, <2>2, Zenon DEF Private
  <2>3. CASE u # t
    <3>1. pc'[u] = pc[u] /\ pc[u] \in Creating /\ pc[t] \in Creating
      BY <1>1, <1>4, <2>1, <2>3, Zenon DEF Creating
    <3>2. on[u] # c /\ \A w \in Threads : pc[w] \in Creating /\ on[w] = on[u] => w = u
      BY <1>0, <1>2, <2>3, <3>1, Zenon DEF Private
    <3>3. /\ id[on[u]] # None /\ (pc[u] # "c_publish" => on[u] \notin Open)
          /\ pc[u] = "c_online" => res[on[u]] = All
      BY <1>0, <3>1, Zenon DEF Private
    <3> QED
      BY <1>8, <2>1, <3>1, <3>2, <3>3, Zenon
  <2> QED
    BY <2>2, <2>3, Zenon
<1> QED
  BY <1>11, <1>12, <1>13, <1>14, <1>15, <1>16, Zenon DEF FileInv

LEMMA SignalInv ==
  ASSUME FileInv, NEW t \in Threads, Signal(t)
  PROVE  FileInv'
<1> USE DEF FileInv, Signal
<1>1. Open' = Open /\ (VmFileOpen' <=> VmFileOpen)
  BY Zenon DEF Open, VcpuFileOpen, VmFileOpen
<1>2. Counted' /\ Alive'
  BY <1>1, CountKept, Zenon
<1>3. Types' /\ Stocked' /\ Attached' /\ Private' /\ OneDestroyer'
  BY <1>1, Zenon DEF Types, Stocked, Attached, Private, OneDestroyer
<1> QED
  BY <1>2, <1>3, Zenon

LEMMA NextInv ==
  ASSUME FileInv, [Next]_vars
  PROVE  FileInv'
<1>1. CASE UNCHANGED vars
  <2>1. Open' = Open /\ (VmFileOpen' <=> VmFileOpen)
    BY <1>1, Zenon DEF vars, Open, VcpuFileOpen, VmFileOpen
  <2>2. Counted' /\ Alive'
    BY <1>1, <2>1, CountKept, Zenon DEF vars, FileInv
  <2> QED
    BY <1>1, <2>1, <2>2, Zenon
    DEF vars, FileInv, Types, Stocked, Attached, Private, OneDestroyer
<1>2. CASE Next
  <2>1. PICK t \in Threads :
          \/ KernelStep(t)
          \/ CloseVm(t)
          \/ \E c \in Vcpus, i \in Ids : CreateVcpu(t, c, i)
          \/ CreateVcpuTooMany(t)
          \/ \E c \in Vcpus : CloseVcpu(t, c) \/ DupVcpu(t, c) \/ VcpuIoctl(t, c)
          \/ VcpuLoad(t)
          \/ VcpuLoadKilled(t)
          \/ VcpuIoctlDone(t)
          \/ VcpuIoctlUnknown(t)
          \/ RunBegin(t)
          \/ EnterGuest(t)
          \/ HandleExitAgain(t)
          \/ HandleExitToUser(t)
          \/ Signal(t)
          \/ DestroyKilled(t)
    BY <1>2, Zenon DEF Next
  <2>2. CASE KernelStep(t)
    BY <2>2, VmIoctlReturnInv, VcpuIoctlReturnInv, CreationInv, VcpuDescriptorInv,
       DestroyStepInv, DestroyFreeInv, Zenon DEF KernelStep
  <2>3. CASE CloseVm(t) \/ CreateVcpuTooMany(t) \/ Signal(t) \/ DestroyKilled(t)
    BY <2>3, CloseVmInv, CreateVcpuTooManyInv, SignalInv, DestroyStepInv, Zenon
  <2>4. ASSUME NEW c \in Vcpus, NEW i \in Ids, CreateVcpu(t, c, i) PROVE FileInv'
    BY <2>4, CreateVcpuInv, Zenon
  <2>5. ASSUME NEW c \in Vcpus, CloseVcpu(t, c) \/ DupVcpu(t, c) \/ VcpuIoctl(t, c)
        PROVE  FileInv'
    BY <2>5, CloseVcpuInv, DupVcpuInv, VcpuIoctlInv, Zenon
  <2>6. CASE \/ VcpuLoad(t) \/ VcpuLoadKilled(t) \/ VcpuIoctlDone(t) \/ VcpuIoctlUnknown(t)
             \/ RunBegin(t) \/ EnterGuest(t) \/ HandleExitAgain(t) \/ HandleExitToUser(t)
    BY <2>6, VcpuIoctlStepInv, Zenon
  <2> QED
    BY <2>1, <2>2, <2>3, <2>4, <2>5, <2>6, Zenon
<1> QED
  BY <1>1, <1>2, Zenon

\* users_count is the number of open files, and the machine and the vCPU of an
\* open file exist, whatever the number of threads, vCPUs and ids: the references
\* that vmrun_vm_ioctl_create_vcpu takes are those the release functions drop.
THEOREM LifetimeSafe == Spec => []ReferencesKeepAlive
<1>1. FileInv => ReferencesKeepAlive
  BY Zenon DEF FileInv, ReferencesKeepAlive, Counted, Alive, Stocked, Open, All
<1> QED
  BY <1>1, InitInv, NextInv, PTL DEF Spec

-----------------------------------------------------------------------------
(* The mutexes, the table of vCPUs and what was allocated *)

Running == {"v_ioctl", "v_loop", "v_guest"}

Held ==
    \A c \in Vcpus \ leaked :
        mutex[c] # None =>
            on[mutex[c]] = c /\ pc[mutex[c]] \in {"v_ioctl", "v_loop", "v_guest"}

BugLeaked == bug => leaked # {}

Makers == {t \in Threads : pc[t] \in Creating}

CountInv ==
    /\ created \in Nat /\ created <= VMRUN_MAX_VCPUS
    /\ vm # "freed" => created = Len(online) + Cardinality(Makers)
    /\ vm = "freed" => online = <<>>

\* The thread between anon_inode_getfd and mutex_unlock has looked its id up.
Looked == \A t \in Threads : pc[t] = "c_publish" => vmlock = t /\ ~Exists(id[on[t]])

Named == \A k \in DOMAIN online : id[online[k]] # None

Distinct == \A j, k \in DOMAIN online : j # k => id[online[j]] # id[online[k]]

TableInv == Held /\ BugLeaked /\ CountInv /\ Looked /\ Named /\ Distinct

Alone(t) == \A u \in Threads \ {t} : pc'[u] = pc[u] /\ on'[u] = on[u]

\* A step that takes and drops no lock, and neither begins nor ends a creation.
Plain(t) ==
    /\ Alone(t)
    /\ mutex' = mutex /\ leaked' = leaked /\ bug' = bug
    /\ created' = created /\ online' = online /\ id' = id /\ vmlock' = vmlock
    /\ vm' = "freed" <=> vm = "freed"
    /\ pc[t] \notin Running \/ (pc'[t] \in Running /\ on'[t] = on[t])
    /\ pc'[t] \in Creating <=> pc[t] \in Creating
    /\ pc'[t] # "c_publish"

LEMMA FputPlain ==
  ASSUME FileInv, NEW t \in Threads, NEW open \in BOOLEAN, Fput(t, open)
  PROVE  /\ \A u \in Threads \ {t} : pc'[u] = pc[u]
         /\ pc'[t] \in {"user", "d_unload"}
         /\ vm' = "freed" <=> vm = "freed"
<1>1. pc \in [Threads -> Pcs] /\ (users = 1 => vm = "live")
  BY DEF FileInv, Types, Alive
<1>2. CASE open
  BY <1>1, <1>2, Zenon DEF Fput
<1>3. CASE ~open
  BY <1>1, <1>3, Zenon DEF Fput, PutVmrun
<1> QED
  BY <1>2, <1>3, Zenon

LEMMA ClosePlain ==
  ASSUME FileInv, NEW t \in Threads,
         \/ VmIoctlReturn(t) \/ VcpuIoctlReturn(t) \/ CloseVm(t)
         \/ \E c \in Vcpus : CloseVcpu(t, c)
  PROVE  Plain(t)
<1>1. on \in [Threads -> Vcpus \cup {None}]
  BY Zenon DEF FileInv, Types
<1> USE DEF Plain, Alone, Running, Creating
<1>2. CASE VmIoctlReturn(t)
  <2>1. PICK open \in BOOLEAN : Fput(t, open)
    BY <1>2, Zenon DEF VmIoctlReturn, OtherInVm
  <2> QED
    BY <1>1, <1>2, <2>1, FputPlain, Zenon DEF VmIoctlReturn
<1>3. CASE VcpuIoctlReturn(t)
  <2>1. PICK open \in BOOLEAN : Fput(t, open)
    BY <1>3, Zenon DEF VcpuIoctlReturn, OtherInVcpu
  <2> QED
    BY <1>1, <1>3, <2>1, FputPlain, Zenon DEF VcpuIoctlReturn
<1>4. CASE CloseVm(t)
  <2>1. PICK open \in BOOLEAN : Fput(t, open)
    BY <1>4, Zenon DEF CloseVm, OtherInVm
  <2> QED
    BY <1>1, <1>4, <2>1, FputPlain, Zenon DEF CloseVm
<1>5. ASSUME NEW c \in Vcpus, CloseVcpu(t, c) PROVE Plain(t)
  <2>1. PICK open \in BOOLEAN : Fput(t, open)
    BY <1>5, Zenon DEF CloseVcpu, OtherInVcpu
  <2> QED
    BY <1>1, <1>5, <2>1, FputPlain, Zenon DEF CloseVcpu
<1> QED
  BY <1>2, <1>3, <1>4, <1>5, Zenon

LEMMA StepPlain ==
  ASSUME FileInv, NEW t \in Threads
  PROVE  /\ VcpuCreate(t) => Plain(t)
         /\ VcpuRefuse(t) => Plain(t)
         /\ VcpuDestroy(t) => Plain(t)
         /\ CreateVcpuTooMany(t) => Plain(t)
         /\ DestroyUnload(t) => Plain(t)
         /\ VcpuLoadKilled(t) => Plain(t)
         /\ RunBegin(t) => Plain(t)
         /\ EnterGuest(t) => Plain(t)
         /\ HandleExitAgain(t) => Plain(t)
         /\ Signal(t) => Plain(t)
         /\ \A c \in Vcpus : DupVcpu(t, c) \/ VcpuIoctl(t, c) => Plain(t)
<1>1. pc \in [Threads -> Pcs] /\ on \in [Threads -> Vcpus \cup {None}]
  BY Zenon DEF FileInv, Types
<1> USE DEF Plain, Alone, Running, Creating
<1>2. VcpuCreate(t) => Plain(t)
  BY <1>1, Zenon DEF VcpuCreate
<1>3. VcpuRefuse(t) => Plain(t)
  BY <1>1, Zenon DEF VcpuRefuse
<1>4. VcpuDestroy(t) => Plain(t)
  BY <1>1, Zenon DEF VcpuDestroy
<1>5. CreateVcpuTooMany(t) => Plain(t)
  BY <1>1, Zenon DEF CreateVcpuTooMany
<1>6. DestroyUnload(t) => Plain(t)
  BY <1>1, Zenon DEF DestroyUnload
<1>7. VcpuLoadKilled(t) => Plain(t)
  BY <1>1, Zenon DEF VcpuLoadKilled
<1>8. RunBegin(t) => Plain(t)
  BY <1>1, Zenon DEF RunBegin
<1>9. EnterGuest(t) => Plain(t)
  BY <1>1, Zenon DEF EnterGuest
<1>10. HandleExitAgain(t) => Plain(t)
  BY <1>1, Zenon DEF HandleExitAgain
<1>11. Signal(t) => Plain(t)
  BY <1>1, Zenon DEF Signal, InVcpuIoctl, InDestroy
<1>12. ASSUME NEW c \in Vcpus PROVE DupVcpu(t, c) => Plain(t)
  BY <1>1, Zenon DEF DupVcpu
<1>13. ASSUME NEW c \in Vcpus PROVE VcpuIoctl(t, c) => Plain(t)
  BY <1>1, Zenon DEF VcpuIoctl
<1> HIDE DEF Plain
<1> QED
  BY <1>2, <1>3, <1>4, <1>5, <1>6, <1>7, <1>8, <1>9, <1>10, <1>11, <1>12, <1>13, ZenonT(60)

LEMMA PlainInv ==
  ASSUME FileInv, TableInv, NEW t \in Threads, Plain(t)
  PROVE  TableInv'
<1>1. mutex \in [Vcpus -> Threads \cup {None}]
  BY Zenon DEF FileInv, Types
<1>2. Held'
  BY <1>1 DEF TableInv, Held, Plain, Alone, Running
<1>3. BugLeaked'
  BY Zenon DEF TableInv, BugLeaked, Plain
<1>4. CountInv'
  <2>1. Makers' = Makers
    BY Zenon DEF Makers, Plain, Alone
  <2> QED
    BY <2>1, Zenon DEF TableInv, CountInv, Plain
<1>5. Looked'
  BY DEF TableInv, Looked, Exists, Plain, Alone
<1>6. Named' /\ Distinct'
  BY DEF TableInv, Named, Distinct, Plain
<1> QED
  BY <1>2, <1>3, <1>4, <1>5, <1>6, Zenon DEF TableInv

LEMMA MakersFinite == IsFiniteSet(Makers) /\ Cardinality(Makers) \in Nat
<1>1. IsFiniteSet(Makers)
  BY LifecycleAssumption, FS_Subset, Zenon DEF Makers
<1> QED
  BY <1>1, FS_CardinalityType, Zenon

LEMMA MakersSame ==
  ASSUME NEW t \in Threads, Alone(t), pc'[t] \in Creating <=> pc[t] \in Creating, CountInv,
         created' = created, online' = online, vm' = vm
  PROVE  CountInv'
<1>1. Makers' = Makers
  BY Zenon DEF Makers, Alone
<1> QED
  BY <1>1, Zenon DEF CountInv

LEMMA OpenIsLive ==
  ASSUME FileInv, VmFileOpen
  PROVE  vm = "live"
<1>1. users > 0
  BY ONLY FileInv, VmFileOpen, OpenFinite DEF FileInv, Counted
<1> QED
  BY <1>1, Zenon DEF FileInv, Alive

\* At most one thread is between the lookup of an id and the end of the section.
LEMMA OnePublisher ==
  ASSUME TableInv, NEW t \in Threads, vmlock = None \/ pc[t] = "c_publish"
  PROVE  \A u \in Threads \ {t} : pc[u] # "c_publish"
  BY LifecycleAssumption, Zenon DEF TableInv, Looked

LEMMA CreateVcpuTable ==
  ASSUME FileInv, TableInv, NEW t \in Threads, NEW c \in Vcpus, NEW i \in Ids,
         CreateVcpu(t, c, i)
  PROVE  TableInv'
<1>1. /\ pc \in [Threads -> Pcs] /\ on \in [Threads -> Vcpus \cup {None}]
      /\ id \in [Vcpus -> Ids \cup {None}] /\ online \in Seq(Vcpus)
      /\ mutex \in [Vcpus -> Threads \cup {None}]
  BY Zenon DEF FileInv, Types
<1>2. /\ pc[t] = "user" /\ pc' = [pc EXCEPT ![t] = "c_create"] /\ on' = [on EXCEPT ![t] = c]
      /\ mutex' = mutex /\ leaked' = leaked /\ bug' = bug /\ vm' = vm /\ online' = online
      /\ vmlock = None /\ vmfds > 0
  BY Zenon DEF CreateVcpu
<1>3. created' = created + 1 /\ created # VMRUN_MAX_VCPUS
  BY Zenon DEF CreateVcpu
<1>4. id[c] = None /\ id' = [id EXCEPT ![c] = i]
  BY Zenon DEF CreateVcpu
<1>5. Alone(t) /\ pc'[t] = "c_create"
  BY <1>1, <1>2, Zenon DEF Alone
<1>6. Held' /\ BugLeaked'
  BY <1>1, <1>2, <1>5 DEF TableInv, Held, BugLeaked, Alone
<1>7. CountInv'
  <2>1. Makers' = Makers \cup {t} /\ t \notin Makers
    BY <1>2, <1>5, Zenon DEF Makers, Creating, Alone
  <2>2. Cardinality(Makers') = Cardinality(Makers) + 1
    BY <2>1, MakersFinite, FS_AddElement, Zenon
  <2>3. vm = "live"
    BY <1>2, OpenIsLive, Zenon DEF VmFileOpen
  <2>4. Len(online) \in Nat
    BY <1>1
  <2> QED
    BY <1>2, <1>3, <2>2, <2>3, <2>4, MakersFinite, LifecycleAssumption DEF TableInv, CountInv
<1>8. Looked'
  <2>1. \A u \in Threads : pc'[u] # "c_publish"
    BY <1>2, <1>5, OnePublisher DEF Alone
  <2> QED
    BY <2>1, Zenon DEF Looked
<1>9. \A k \in DOMAIN online : id'[online[k]] = id[online[k]]
  <2>1. \A k \in DOMAIN online : online[k] \in Vcpus
    BY <1>1
  <2>2. \A k \in DOMAIN online : online[k] # c
    BY <1>4, Zenon DEF TableInv, Named
  <2> QED
    BY <1>1, <1>4, <2>1, <2>2, Zenon
<1>10. Named' /\ Distinct'
  BY <1>2, <1>9 DEF TableInv, Named, Distinct
<1> QED
  BY <1>6, <1>7, <1>8, <1>10, Zenon DEF TableInv

LEMMA VcpuDescriptorTable ==
  ASSUME FileInv, TableInv, NEW t \in Threads, VcpuDescriptor(t)
  PROVE  TableInv'
<1>1. pc \in [Threads -> Pcs] /\ mutex \in [Vcpus -> Threads \cup {None}]
  BY Zenon DEF FileInv, Types
<1>2. /\ pc[t] = "c_online" /\ pc' = [pc EXCEPT ![t] = "c_publish"] /\ on' = on
      /\ mutex' = mutex /\ leaked' = leaked /\ bug' = bug /\ vm' = vm /\ online' = online
      /\ created' = created /\ id' = id /\ vmlock = None /\ vmlock' = t
      /\ ~Exists(id[on[t]])
  BY Zenon DEF VcpuDescriptor
<1>3. Alone(t) /\ pc'[t] = "c_publish"
  BY <1>1, <1>2, Zenon DEF Alone
<1>4. Held' /\ BugLeaked'
  BY <1>1, <1>2, <1>3 DEF TableInv, Held, BugLeaked, Alone
<1>5. CountInv'
  BY <1>2, <1>3, MakersSame, Zenon DEF TableInv, Creating
<1>6. Looked'
  <2>1. \A u \in Threads \ {t} : pc'[u] # "c_publish"
    BY <1>2, <1>3, OnePublisher, Zenon DEF Alone
  <2>2. ~Exists(id[on[t]])'
    BY <1>2, Zenon DEF Exists
  <2> QED
    BY <1>2, <2>1, <2>2, Zenon DEF Looked
<1>7. Named' /\ Distinct'
  BY <1>2 DEF TableInv, Named, Distinct
<1> QED
  BY <1>4, <1>5, <1>6, <1>7, Zenon DEF TableInv

LEMMA VcpuPublishTable ==
  ASSUME FileInv, TableInv, NEW t \in Threads, VcpuPublish(t)
  PROVE  TableInv'
<1>1. /\ pc \in [Threads -> Pcs] /\ mutex \in [Vcpus -> Threads \cup {None}]
      /\ online \in Seq(Vcpus)
  BY Zenon DEF FileInv, Types
<1>2. /\ pc[t] = "c_publish" /\ pc' = [pc EXCEPT ![t] = "vm_out"] /\ on' = on
      /\ mutex' = mutex /\ leaked' = leaked /\ bug' = bug /\ vm' = vm
      /\ created' = created /\ id' = id
  BY Zenon DEF VcpuPublish
<1>3. PICK c \in Vcpus : c = on[t]
  BY <1>2, Zenon DEF FileInv, Attached, Creating
<1>4. online' = Append(online, c)
  BY <1>3, Zenon DEF VcpuPublish
<1>5. Alone(t) /\ pc'[t] = "vm_out"
  BY <1>1, <1>2, Zenon DEF Alone
<1>6. Held' /\ BugLeaked'
  BY <1>1, <1>2, <1>5 DEF TableInv, Held, BugLeaked, Alone
<1>7. CountInv'
  <2>1. Makers' = Makers \ {t} /\ t \in Makers
    BY <1>2, <1>5, Zenon DEF Makers, Creating, Alone
  <2>2. Cardinality(Makers') = Cardinality(Makers) - 1
    BY <2>1, MakersFinite, FS_RemoveElement, Zenon
  <2>3. vm = "live"
    BY <1>2, OpenIsLive, Zenon DEF VmFileOpen, InVmIoctl, Creating
  <2>4. Len(online) \in Nat /\ Len(online') = Len(online) + 1
    BY <1>1, <1>4
  <2> QED
    BY <1>2, <2>2, <2>3, <2>4, MakersFinite DEF TableInv, CountInv
<1>8. Looked'
  <2>1. \A u \in Threads : pc'[u] # "c_publish"
    BY <1>2, <1>5, OnePublisher, Zenon DEF Alone
  <2> QED
    BY <2>1, Zenon DEF Looked
<1>9. id[c] # None /\ \A k \in DOMAIN online : id[online[k]] # id[c]
  <2>1. id[c] # None
    BY <1>2, <1>3, Zenon DEF FileInv, Private, Creating
  <2>2. ~Exists(id[c])
    BY <1>2, <1>3, Zenon DEF TableInv, Looked
  <2> QED
    BY <2>1, <2>2, Zenon DEF Exists
<1>10. /\ DOMAIN online' = DOMAIN online \cup {Len(online) + 1}
       /\ \A k \in DOMAIN online' : k \in DOMAIN online \/ online'[k] = c
       /\ \A k \in DOMAIN online : online'[k] = online[k]
       /\ \A j, k \in DOMAIN online' : j # k => j \in DOMAIN online \/ k \in DOMAIN online
  BY <1>1, <1>4
<1>11. Named'
  BY <1>2, <1>9, <1>10, Zenon DEF TableInv, Named
<1>12. Distinct'
  <2> SUFFICES ASSUME NEW j \in DOMAIN online', NEW k \in DOMAIN online', j # k
               PROVE  id[online'[j]] # id[online'[k]]
    BY <1>2, Zenon DEF Distinct
  <2>1. CASE j \in DOMAIN online /\ k \in DOMAIN online
    BY <1>10, <2>1, Zenon DEF TableInv, Distinct
  <2>2. CASE j \notin DOMAIN online \/ k \notin DOMAIN online
    BY <1>9, <1>10, <2>2
  <2> QED
    BY <2>1, <2>2, Zenon
<1> QED
  BY <1>6, <1>7, <1>8, <1>11, <1>12, Zenon DEF TableInv

LEMMA VcpuDecrementTable ==
  ASSUME FileInv, TableInv, NEW t \in Threads, VcpuDecrement(t)
  PROVE  TableInv'
<1>1. /\ pc \in [Threads -> Pcs] /\ mutex \in [Vcpus -> Threads \cup {None}]
      /\ online \in Seq(Vcpus)
  BY Zenon DEF FileInv, Types
<1>2. /\ pc[t] = "c_decrement" /\ pc' = [pc EXCEPT ![t] = "vm_out"] /\ on' = on
      /\ mutex' = mutex /\ leaked' = leaked /\ bug' = bug /\ vm' = vm /\ online' = online
      /\ created' = created - 1 /\ id' = id /\ vmlock' = vmlock
  BY Zenon DEF VcpuDecrement
<1>3. Alone(t) /\ pc'[t] = "vm_out"
  BY <1>1, <1>2, Zenon DEF Alone
<1>4. Held' /\ BugLeaked'
  BY <1>1, <1>2, <1>3 DEF TableInv, Held, BugLeaked, Alone
<1>5. CountInv'
  <2>1. Makers' = Makers \ {t} /\ t \in Makers
    BY <1>2, <1>3, Zenon DEF Makers, Creating, Alone
  <2>2. Cardinality(Makers') = Cardinality(Makers) - 1
    BY <2>1, MakersFinite, FS_RemoveElement, Zenon
  <2>3. Cardinality(Makers') \in Nat
    <3>1. IsFiniteSet(Makers \ {t})
      BY MakersFinite, FS_RemoveElement, Zenon
    <3> QED
      BY <2>1, <3>1, FS_CardinalityType, Zenon
  <2>4. vm = "live"
    BY <1>2, OpenIsLive, Zenon DEF VmFileOpen, InVmIoctl, Creating
  <2>5. Len(online) \in Nat
    BY <1>1
  <2> QED
    BY <1>2, <2>2, <2>3, <2>4, <2>5, MakersFinite, LifecycleAssumption, SMTT(30)
       DEF TableInv, CountInv
<1>6. Looked'
  BY <1>2, <1>3, Zenon DEF TableInv, Looked, Exists, Alone
<1>7. Named' /\ Distinct'
  BY <1>2 DEF TableInv, Named, Distinct
<1> QED
  BY <1>4, <1>5, <1>6, <1>7, Zenon DEF TableInv

\* Taking and releasing a mutex leaves the table alone.
LEMMA MutexTable ==
  ASSUME FileInv, TableInv, NEW t \in Threads, Alone(t), on' = on,
         pc[t] \in InVcpuIoctl, pc'[t] \in InVcpuIoctl, bug' = bug, leaked \subseteq leaked',
         created' = created, online' = online, id' = id, vmlock' = vmlock, vm' = vm
  PROVE  BugLeaked' /\ CountInv' /\ Looked' /\ Named' /\ Distinct'
<1>1. pc[t] \notin Creating /\ pc'[t] \notin Creating /\ pc'[t] # "c_publish"
  BY Zenon DEF InVcpuIoctl, Creating
<1>2. BugLeaked'
  BY Zenon DEF TableInv, BugLeaked
<1>3. CountInv'
  BY <1>1, MakersSame, Zenon DEF TableInv
<1>4. Looked'
  BY <1>1, ZenonT(60) DEF TableInv, Looked, Exists, Alone
<1>5. Named' /\ Distinct'
  BY DEF TableInv, Named, Distinct
<1> QED
  BY <1>2, <1>3, <1>4, <1>5, Zenon

LEMMA VcpuLoadTable ==
  ASSUME FileInv, TableInv, NEW t \in Threads, VcpuLoad(t)
  PROVE  TableInv'
<1>1. pc \in [Threads -> Pcs] /\ mutex \in [Vcpus -> Threads \cup {None}]
  BY Zenon DEF FileInv, Types
<1>2. /\ pc[t] = "v_load" /\ pc' = [pc EXCEPT ![t] = "v_ioctl"] /\ on' = on
      /\ mutex' = [mutex EXCEPT ![on[t]] = t] /\ leaked' = leaked
  BY Zenon DEF VcpuLoad
<1>3. Alone(t) /\ pc'[t] = "v_ioctl"
  BY <1>1, <1>2, Zenon DEF Alone
<1>4. on[t] \in Vcpus
  BY <1>2, Zenon DEF FileInv, Attached, InVcpuIoctl
<1>5. Held'
  <2> SUFFICES ASSUME NEW c \in Vcpus \ leaked, mutex'[c] # None
               PROVE  on[mutex'[c]] = c /\ pc'[mutex'[c]] \in Running
    BY <1>2, Zenon DEF Held, Running
  <2>1. CASE c = on[t]
    BY <1>1, <1>2, <1>3, <1>4, <2>1, Zenon DEF Running
  <2>2. CASE c # on[t]
    <3>1. mutex'[c] = mutex[c]
      BY <1>1, <1>2, <2>2, Zenon
    <3>2. mutex[c] \in Threads \ {t} /\ on[mutex[c]] = c /\ pc[mutex[c]] \in Running
      BY <1>1, <1>2, <2>2, <3>1, Zenon DEF TableInv, Held, Running
    <3> QED
      BY <1>3, <3>1, <3>2, Zenon DEF Alone
  <2> QED
    BY <2>1, <2>2, Zenon
<1>6. BugLeaked' /\ CountInv' /\ Looked' /\ Named' /\ Distinct'
  BY <1>2, <1>3, MutexTable, Zenon DEF VcpuLoad, InVcpuIoctl
<1> QED
  BY <1>5, <1>6, Zenon DEF TableInv

LEMMA VcpuPutTable ==
  ASSUME FileInv, TableInv, NEW t \in Threads, VcpuIoctlDone(t) \/ HandleExitToUser(t)
  PROVE  TableInv'
<1>1. pc \in [Threads -> Pcs] /\ mutex \in [Vcpus -> Threads \cup {None}]
  BY Zenon DEF FileInv, Types
<1>2. /\ pc[t] \in Running /\ pc' = [pc EXCEPT ![t] = "v_out"] /\ on' = on
      /\ mutex' = [mutex EXCEPT ![on[t]] = None] /\ leaked' = leaked
      /\ bug' = bug /\ created' = created /\ online' = online /\ id' = id
      /\ vmlock' = vmlock /\ vm' = vm
  BY Zenon DEF VcpuIoctlDone, HandleExitToUser, VcpuPut, Running
<1>3. Alone(t) /\ pc'[t] = "v_out"
  BY <1>1, <1>2, Zenon DEF Alone
<1>4. on[t] \in Vcpus
  BY <1>2, Zenon DEF FileInv, Attached, InVcpuIoctl, Running
<1>5. Held'
  <2> SUFFICES ASSUME NEW c \in Vcpus \ leaked, mutex'[c] # None
               PROVE  on[mutex'[c]] = c /\ pc'[mutex'[c]] \in Running
    BY <1>2, Zenon DEF Held, Running
  <2>1. c # on[t] /\ mutex'[c] = mutex[c]
    BY <1>1, <1>2, <1>4, Zenon
  <2>2. mutex[c] \in Threads \ {t} /\ on[mutex[c]] = c /\ pc[mutex[c]] \in Running
    BY <1>1, <2>1, Zenon DEF TableInv, Held, Running
  <2> QED
    BY <1>3, <2>1, <2>2, Zenon DEF Alone
<1>6. BugLeaked' /\ CountInv' /\ Looked' /\ Named' /\ Distinct'
  BY <1>2, <1>3, MutexTable, Zenon DEF InVcpuIoctl, Running
<1> QED
  BY <1>5, <1>6, Zenon DEF TableInv

LEMMA VcpuIoctlUnknownTable ==
  ASSUME FileInv, TableInv, NEW t \in Threads, VcpuIoctlUnknown(t)
  PROVE  TableInv'
<1>1. pc \in [Threads -> Pcs] /\ mutex \in [Vcpus -> Threads \cup {None}]
  BY Zenon DEF FileInv, Types
<1>2. /\ pc[t] = "v_ioctl" /\ pc' = [pc EXCEPT ![t] = "v_out"] /\ on' = on
      /\ mutex' = mutex /\ leaked' = leaked \cup {on[t]}
      /\ bug' = bug /\ created' = created /\ online' = online /\ id' = id
      /\ vmlock' = vmlock /\ vm' = vm
  BY Zenon DEF VcpuIoctlUnknown
<1>3. Alone(t) /\ pc'[t] = "v_out"
  BY <1>1, <1>2, Zenon DEF Alone
<1>4. Held'
  <2> SUFFICES ASSUME NEW c \in Vcpus \ leaked', mutex[c] # None
               PROVE  on[mutex[c]] = c /\ pc'[mutex[c]] \in Running
    BY <1>2, Zenon DEF Held, Running
  <2>1. mutex[c] \in Threads \ {t} /\ on[mutex[c]] = c /\ pc[mutex[c]] \in Running
    BY <1>1, <1>2, Zenon DEF TableInv, Held, Running
  <2> QED
    BY <1>3, <2>1, Zenon DEF Alone
<1>5. BugLeaked' /\ CountInv' /\ Looked' /\ Named' /\ Distinct'
  BY <1>2, <1>3, MutexTable, Zenon DEF InVcpuIoctl
<1> QED
  BY <1>4, <1>5, Zenon DEF TableInv

\* A thread that destroys the machine waits for no mutex an ioctl still holds.
LEMMA DestroyLoadable ==
  ASSUME FileInv, Held, leaked = {}, NEW t \in Threads, pc[t] \in InDestroy
  PROVE  AllLoadable
<1>1. vm = "destroying" /\ users = 0
  BY DEF FileInv, OneDestroyer, Alive, Types
<1>2. Cardinality(Open) = 0
  BY ONLY <1>1, FileInv, OpenFinite DEF FileInv, Counted
<1>3. Open = {}
  BY <1>2, OpenFinite, FS_EmptySet, Zenon
<1>4. online \in Seq(Vcpus) /\ mutex \in [Vcpus -> Threads \cup {None}]
  BY Zenon DEF FileInv, Types
<1>5. SUFFICES ASSUME NEW c \in Vcpus, mutex[c] # None PROVE FALSE
  BY <1>4 DEF AllLoadable
<1>6. mutex[c] \in Threads /\ on[mutex[c]] = c /\ pc[mutex[c]] \in InVcpuIoctl
  BY <1>4, <1>5, Zenon DEF Held, InVcpuIoctl
<1> QED
  BY <1>3, <1>6, Zenon DEF Open, VcpuFileOpen

LEMMA DestroyKilledTable ==
  ASSUME FileInv, TableInv, NEW t \in Threads, DestroyKilled(t)
  PROVE  TableInv'
<1>1. pc \in [Threads -> Pcs] /\ mutex \in [Vcpus -> Threads \cup {None}]
  BY Zenon DEF FileInv, Types
<1>2. /\ pc[t] = "d_unload" /\ pc' = [pc EXCEPT ![t] = "dead"] /\ on' = on
      /\ mutex' = mutex /\ leaked' = leaked /\ created' = created /\ online' = online
      /\ id' = id /\ vmlock' = vmlock /\ vm' = vm /\ ~AllLoadable
  BY Zenon DEF DestroyKilled
<1>3. Alone(t) /\ pc'[t] = "dead"
  BY <1>1, <1>2, Zenon DEF Alone
<1>4. Held'
  BY <1>1, <1>2, <1>3 DEF TableInv, Held, Alone
<1>5. BugLeaked'
  BY <1>2, DestroyLoadable, Zenon DEF TableInv, BugLeaked, InDestroy
<1>6. CountInv'
  BY <1>2, <1>3, MakersSame, Zenon DEF TableInv, Creating
<1>7. Looked'
  BY <1>2, <1>3, Zenon DEF TableInv, Looked, Exists, Alone
<1>8. Named' /\ Distinct'
  BY <1>2 DEF TableInv, Named, Distinct
<1> QED
  BY <1>4, <1>5, <1>6, <1>7, <1>8, Zenon DEF TableInv

LEMMA DestroyFreeTable ==
  ASSUME FileInv, TableInv, NEW t \in Threads, DestroyFree(t)
  PROVE  TableInv'
<1>1. pc \in [Threads -> Pcs] /\ mutex \in [Vcpus -> Threads \cup {None}]
  BY Zenon DEF FileInv, Types
<1>2. /\ pc[t] = "d_free" /\ pc' = [pc EXCEPT ![t] = "user"] /\ on' = on
      /\ mutex' = mutex /\ leaked' = leaked /\ bug' = bug /\ created' = created
      /\ online' = <<>> /\ vmlock = None /\ vm' = "freed"
  BY Zenon DEF DestroyFree
<1>3. Alone(t) /\ pc'[t] = "user"
  BY <1>1, <1>2, Zenon DEF Alone
<1>4. Held' /\ BugLeaked'
  BY <1>1, <1>2, <1>3 DEF TableInv, Held, BugLeaked, Alone
<1>5. CountInv'
  BY <1>2, Zenon DEF TableInv, CountInv
<1>6. Looked'
  <2>1. \A u \in Threads : pc'[u] # "c_publish"
    BY <1>2, <1>3, OnePublisher DEF Alone
  <2> QED
    BY <2>1, Zenon DEF Looked
<1>7. DOMAIN online' = {}
  BY <1>2
<1>8. Named' /\ Distinct'
  BY <1>7, Zenon DEF Named, Distinct
<1> QED
  BY <1>4, <1>5, <1>6, <1>8, Zenon DEF TableInv

LEMMA TableNext ==
  ASSUME FileInv, TableInv, [Next]_vars
  PROVE  TableInv'
<1>1. CASE UNCHANGED vars
  <2>1. Held' /\ BugLeaked'
    BY <1>1, Zenon DEF vars, TableInv, Held, BugLeaked
  <2>2. CountInv'
    <3>1. Makers' = Makers
      BY <1>1, Zenon DEF vars, Makers
    <3> QED
      BY <1>1, <3>1, Zenon DEF vars, TableInv, CountInv
  <2>3. Looked' /\ Named' /\ Distinct'
    BY <1>1, SMTT(30) DEF vars, TableInv, Looked, Exists, Named, Distinct
  <2> QED
    BY <2>1, <2>2, <2>3, Zenon DEF TableInv
<1>2. ASSUME NEW t \in Threads, KernelStep(t) PROVE TableInv'
  BY <1>2, ClosePlain, StepPlain, PlainInv, VcpuDescriptorTable, VcpuPublishTable,
     VcpuDecrementTable, DestroyFreeTable, Zenon DEF KernelStep
<1>3. ASSUME NEW t \in Threads, NEW c \in Vcpus, NEW i \in Ids, CreateVcpu(t, c, i)
      PROVE  TableInv'
  BY <1>3, CreateVcpuTable, Zenon
<1>4. ASSUME NEW t \in Threads, NEW c \in Vcpus,
             CloseVcpu(t, c) \/ DupVcpu(t, c) \/ VcpuIoctl(t, c)
      PROVE  TableInv'
  BY <1>4, ClosePlain, StepPlain, PlainInv, Zenon
<1>5. ASSUME NEW t \in Threads,
             \/ CloseVm(t) \/ CreateVcpuTooMany(t) \/ VcpuLoadKilled(t) \/ RunBegin(t)
             \/ EnterGuest(t) \/ HandleExitAgain(t) \/ Signal(t)
      PROVE  TableInv'
  BY <1>5, ClosePlain, StepPlain, PlainInv, Zenon
<1>6. ASSUME NEW t \in Threads,
             \/ VcpuLoad(t) \/ VcpuIoctlDone(t) \/ HandleExitToUser(t)
             \/ VcpuIoctlUnknown(t) \/ DestroyKilled(t)
      PROVE  TableInv'
  BY <1>6, VcpuLoadTable, VcpuPutTable, VcpuIoctlUnknownTable, DestroyKilledTable, Zenon
<1> QED
  BY <1>1, <1>2, <1>3, <1>4, <1>5, <1>6, Zenon DEF Next

LEMMA TableInit == Init => TableInv
<1> SUFFICES ASSUME Init PROVE TableInv
  BY Zenon
<1>1. Makers = {}
  BY Zenon DEF Init, Makers, Creating
<1>2. Cardinality(Makers) = 0 /\ Len(online) = 0
  BY <1>1, FS_EmptySet, Zenon DEF Init
<1>3. CountInv
  BY <1>2, LifecycleAssumption DEF Init, CountInv
<1>4. Held /\ BugLeaked /\ Looked /\ Named /\ Distinct
  BY DEF Init, Held, BugLeaked, Looked, Named, Distinct
<1> QED
  BY <1>3, <1>4, Zenon DEF TableInv

\* The mutex of a vCPU is held only by a thread inside an ioctl on it, and the
\* BUG_ON of vmrun_vcpu_unload_mmu is out of reach, unless the default case of
\* vmrun_vcpu_ioctl has kept a mutex.
THEOREM MutexSafe == Spec => []MutexHeld
<1>1. TableInv => MutexHeld
  BY Zenon DEF TableInv, Held, BugLeaked, MutexHeld
<1> QED
  BY <1>1, InitInv, NextInv, TableInit, TableNext, PTL DEF Spec

\* The check of created_vcpus keeps vcpus[] from overflowing and the lookup of
\* vmrun_get_vcpu_by_id keeps ids apart, though vmrun->lock is dropped between the
\* two: for any number of creations at a time.
THEOREM TableSafe == Spec => []VcpusCounted
<1>1. FileInv /\ TableInv => VcpusCounted
  <2> SUFFICES ASSUME FileInv, TableInv PROVE VcpusCounted
    BY Zenon
  <2>1. Len(online) \in Nat
    BY DEF FileInv, Types
  <2>2. Len(online) <= VMRUN_MAX_VCPUS
    <3>1. CASE vm = "freed"
      BY <3>1, LifecycleAssumption DEF TableInv, CountInv
    <3>2. CASE vm # "freed"
      BY <3>2, <2>1, MakersFinite, LifecycleAssumption, SMTT(30) DEF TableInv, CountInv
    <3> QED
      BY <3>1, <3>2, Zenon
  <2> QED
    BY <2>2, Zenon DEF VcpusCounted, TableInv, CountInv, Distinct, Makers
<1> QED
  BY <1>1, InitInv, NextInv, TableInit, TableNext, PTL DEF Spec


-----------------------------------------------------------------------------
(* What the vCPUs allocated *)

\* AllFreed and what makes it inductive: at the decrement of created_vcpus the
\* failed creation has nothing left.
Returned ==
    /\ AllFreed
    /\ \A t \in Threads : pc[t] = "c_decrement" => res[on[t]] \subseteq {"hsave"}

\* A step that allocates and frees nothing and ends no creation.
Keeps(t) ==
    /\ Alone(t)
    /\ res' = res /\ online' = online
    /\ vm' = "freed" <=> vm = "freed"
    /\ pc[t] \in Creating => pc'[t] \in Creating /\ on'[t] = on[t]
    /\ pc'[t] # "c_decrement"

LEMMA CloseKeeps ==
  ASSUME FileInv, NEW t \in Threads,
         \/ VmIoctlReturn(t) \/ VcpuIoctlReturn(t) \/ CloseVm(t)
         \/ \E c \in Vcpus : CloseVcpu(t, c)
  PROVE  Keeps(t)
<1>1. Plain(t)
  BY ClosePlain, Zenon
<1>2. res' = res /\ pc[t] \notin Creating
  BY Zenon DEF VmIoctlReturn, VcpuIoctlReturn, CloseVm, CloseVcpu, Creating
<1> QED
  BY <1>1, <1>2, Zenon DEF Keeps, Plain, Creating

LEMMA StepKeeps ==
  ASSUME FileInv, NEW t \in Threads,
         \/ VcpuRefuse(t) \/ VcpuDescriptor(t) \/ DestroyUnload(t) \/ DestroyKilled(t)
         \/ \E c \in Vcpus, i \in Ids : CreateVcpu(t, c, i)
         \/ CreateVcpuTooMany(t)
         \/ \E c \in Vcpus : DupVcpu(t, c) \/ VcpuIoctl(t, c)
         \/ VcpuLoad(t) \/ VcpuLoadKilled(t) \/ VcpuIoctlDone(t) \/ VcpuIoctlUnknown(t)
         \/ RunBegin(t) \/ EnterGuest(t) \/ HandleExitAgain(t) \/ HandleExitToUser(t)
         \/ Signal(t)
  PROVE  Keeps(t)
<1>1. pc \in [Threads -> Pcs] /\ on \in [Threads -> Vcpus \cup {None}]
  BY Zenon DEF FileInv, Types
<1> USE DEF Keeps, Alone, Creating
<1>2. CASE VcpuRefuse(t) \/ VcpuDescriptor(t)
  BY <1>1, <1>2, Zenon DEF VcpuRefuse, VcpuDescriptor
<1>3. CASE DestroyUnload(t) \/ DestroyKilled(t) \/ CreateVcpuTooMany(t)
  BY <1>1, <1>3, Zenon DEF DestroyUnload, DestroyKilled, CreateVcpuTooMany
<1>4. ASSUME NEW c \in Vcpus, NEW i \in Ids, CreateVcpu(t, c, i) PROVE Keeps(t)
  BY <1>1, <1>4, Zenon DEF CreateVcpu
<1>5. ASSUME NEW c \in Vcpus, DupVcpu(t, c) \/ VcpuIoctl(t, c) PROVE Keeps(t)
  BY <1>1, <1>5, Zenon DEF DupVcpu, VcpuIoctl
<1>6. CASE VcpuLoad(t) \/ VcpuLoadKilled(t) \/ VcpuIoctlDone(t) \/ VcpuIoctlUnknown(t)
  BY <1>1, <1>6, Zenon DEF VcpuLoad, VcpuLoadKilled, VcpuIoctlDone, VcpuIoctlUnknown
<1>7. CASE RunBegin(t) \/ EnterGuest(t) \/ HandleExitAgain(t) \/ HandleExitToUser(t)
  BY <1>1, <1>7, Zenon DEF RunBegin, EnterGuest, HandleExitAgain, HandleExitToUser
<1>8. CASE Signal(t)
  BY <1>1, <1>8, Zenon DEF Signal, InVcpuIoctl, InDestroy
<1> HIDE DEF Keeps
<1> QED
  BY <1>2, <1>3, <1>4, <1>5, <1>6, <1>7, <1>8, ZenonT(60)

LEMMA KeepsInv ==
  ASSUME FileInv, Returned, NEW t \in Threads, Keeps(t)
  PROVE  Returned'
<1>1. AllFreed'
  <2> SUFFICES ASSUME NEW c \in Vcpus
               PROVE  \/ res'[c] \subseteq {"hsave"}
                      \/ vm' # "freed" /\ \E k \in DOMAIN online' : online'[k] = c
                      \/ \E u \in Threads : pc'[u] \in Creating /\ on'[u] = c
    BY Zenon DEF AllFreed
  <2>1. \/ res[c] \subseteq {"hsave"}
        \/ vm # "freed" /\ \E k \in DOMAIN online : online[k] = c
        \/ \E u \in Threads : pc[u] \in Creating /\ on[u] = c
    BY Zenon DEF Returned, AllFreed
  <2>2. ASSUME NEW u \in Threads, pc[u] \in Creating, on[u] = c
        PROVE  pc'[u] \in Creating /\ on'[u] = c
    BY <2>2, Zenon DEF Keeps, Alone
  <2> QED
    BY <2>1, <2>2, Zenon DEF Keeps
<1>2. \A u \in Threads : pc'[u] = "c_decrement" => res'[on'[u]] \subseteq {"hsave"}
  BY Zenon DEF Returned, Keeps, Alone
<1> QED
  BY <1>1, <1>2, Zenon DEF Returned

\* vmrun_vcpu_create unwinds what it allocated, vmrun_vcpu_destroy all but hsave.
LEMMA FailedReturns ==
  ASSUME FileInv, Returned, NEW t \in Threads, VcpuCreate(t) \/ VcpuDestroy(t)
  PROVE  Returned'
<1>1. /\ pc \in [Threads -> Pcs] /\ on \in [Threads -> Vcpus \cup {None}]
      /\ res \in [Vcpus -> SUBSET Things]
  BY Zenon DEF FileInv, Types
<1>2. pc[t] \in {"c_create", "c_destroy"} /\ on' = on /\ online' = online /\ vm' = vm
  BY Zenon DEF VcpuCreate, VcpuDestroy
<1>3. PICK c \in Vcpus : c = on[t]
  BY <1>2, Zenon DEF FileInv, Attached, Creating
<1>4. Alone(t) /\ pc'[t] \in Creating
  BY <1>1, <1>2, Zenon DEF VcpuCreate, VcpuDestroy, Alone, Creating
<1>5. /\ \A d \in Vcpus \ {c} : res'[d] = res[d]
      /\ pc'[t] = "c_decrement" => res'[c] \subseteq {"hsave"}
  <2>1. CASE VcpuCreate(t)
    <3>1. PICK n \in 0..Len(Stages) :
            /\ res' = [res EXCEPT ![c] = IF n = Len(Stages) THEN Allocated(n)
                                         ELSE Allocated(n) \ Unwound(n)]
            /\ pc' = [pc EXCEPT ![t] = IF n = Len(Stages) THEN "c_online" ELSE "c_decrement"]
      BY <2>1, <1>3, Zenon DEF VcpuCreate
    <3> HIDE DEF Stages
    <3>2. \A d \in Vcpus \ {c} : res'[d] = res[d]
      BY <1>1, <3>1, Zenon
    <3>3. pc'[t] = "c_decrement" => res'[c] = Allocated(n) \ Unwound(n)
      BY <1>1, <3>1, Zenon
    <3> QED
      BY <3>2, <3>3, Zenon DEF Unwound
  <2>2. CASE VcpuDestroy(t)
    BY <1>1, <1>3, <2>2, Zenon DEF VcpuDestroy, VcpuFree, Things
  <2> QED
    BY <2>1, <2>2, Zenon
<1>6. AllFreed'
  <2> SUFFICES ASSUME NEW d \in Vcpus
               PROVE  \/ res'[d] \subseteq {"hsave"}
                      \/ vm' # "freed" /\ \E k \in DOMAIN online' : online'[k] = d
                      \/ \E u \in Threads : pc'[u] \in Creating /\ on'[u] = d
    BY Zenon DEF AllFreed
  <2>1. CASE d = c
    BY <1>2, <1>3, <1>4, <2>1, Zenon
  <2>2. CASE d # c
    <3>1. \/ res[d] \subseteq {"hsave"}
          \/ vm # "freed" /\ \E k \in DOMAIN online : online[k] = d
          \/ \E u \in Threads \ {t} : pc[u] \in Creating /\ on[u] = d
      BY <1>3, <2>2, Zenon DEF Returned, AllFreed
    <3> QED
      BY <1>2, <1>4, <1>5, <2>2, <3>1, Zenon DEF Alone
  <2> QED
    BY <2>1, <2>2, Zenon
<1>7. ASSUME NEW u \in Threads, pc'[u] = "c_decrement"
      PROVE  res'[on'[u]] \subseteq {"hsave"}
  <2>1. CASE u = t
    BY <1>2, <1>3, <1>5, <1>7, <2>1, Zenon
  <2>2. CASE u # t
    <3>1. pc[u] = "c_decrement"
      BY <1>4, <1>7, <2>2, Zenon DEF Alone
    <3>2. on[u] \in Vcpus
      BY <3>1, Zenon DEF FileInv, Attached, Creating
    <3>3. on[u] # c
      BY <1>2, <1>3, <2>2, <3>1, Zenon DEF FileInv, Private, Creating
    <3> QED
      BY <1>2, <1>5, <3>1, <3>2, <3>3, Zenon DEF Returned
  <2> QED
    BY <2>1, <2>2, Zenon
<1> QED
  BY <1>6, <1>7, Zenon DEF Returned

\* A creation ends with the vCPU online or with nothing left of it.
LEMMA EndReturns ==
  ASSUME FileInv, Returned, NEW t \in Threads, VcpuPublish(t) \/ VcpuDecrement(t)
  PROVE  Returned'
<1>1. pc \in [Threads -> Pcs] /\ online \in Seq(Vcpus)
  BY Zenon DEF FileInv, Types
<1>2. /\ pc[t] \in {"c_publish", "c_decrement"} /\ pc' = [pc EXCEPT ![t] = "vm_out"]
      /\ on' = on /\ vm' = vm /\ res' = res
      /\ pc[t] = "c_publish" => online' = Append(online, on[t])
      /\ pc[t] = "c_decrement" => online' = online
  BY Zenon DEF VcpuPublish, VcpuDecrement
<1>3. PICK c \in Vcpus : c = on[t]
  BY <1>2, Zenon DEF FileInv, Attached, Creating
<1>4. Alone(t) /\ pc'[t] = "vm_out"
  BY <1>1, <1>2, Zenon DEF Alone
<1>5. vm # "freed"
  BY <1>2, OpenIsLive, Zenon DEF VmFileOpen, InVmIoctl, Creating
<1>6. /\ \A k \in DOMAIN online : k \in DOMAIN online' /\ online'[k] = online[k]
      /\ pc[t] = "c_publish" => \E k \in DOMAIN online' : online'[k] = c
  <2>1. CASE pc[t] = "c_publish"
    <3>1. online' = Append(online, c)
      BY <1>2, <1>3, <2>1, Zenon
    <3>2. Len(online) + 1 \in DOMAIN online' /\ online'[Len(online) + 1] = c
      BY <1>1, <3>1
    <3>3. \A k \in DOMAIN online : k \in DOMAIN online' /\ online'[k] = online[k]
      BY <1>1, <3>1
    <3> QED
      BY <3>2, <3>3, Zenon
  <2>2. CASE pc[t] = "c_decrement"
    BY <1>2, <2>2, Zenon
  <2> QED
    BY <1>2, <2>1, <2>2, Zenon
<1>7. AllFreed'
  <2> SUFFICES ASSUME NEW d \in Vcpus
               PROVE  \/ res'[d] \subseteq {"hsave"}
                      \/ vm' # "freed" /\ \E k \in DOMAIN online' : online'[k] = d
                      \/ \E u \in Threads : pc'[u] \in Creating /\ on'[u] = d
    BY Zenon DEF AllFreed
  <2>1. CASE d = c
    <3>1. CASE pc[t] = "c_publish"
      BY <1>2, <1>5, <1>6, <2>1, <3>1, Zenon
    <3>2. CASE pc[t] = "c_decrement"
      BY <1>2, <1>3, <2>1, <3>2, Zenon DEF Returned
    <3> QED
      BY <1>2, <3>1, <3>2, Zenon
  <2>2. CASE d # c
    <3>1. \/ res[d] \subseteq {"hsave"}
          \/ \E k \in DOMAIN online : online[k] = d
          \/ \E u \in Threads \ {t} : pc[u] \in Creating /\ on[u] = d
      BY <1>3, <2>2, Zenon DEF Returned, AllFreed
    <3> QED
      BY <1>2, <1>4, <1>5, <1>6, <3>1, Zenon DEF Alone
  <2> QED
    BY <2>1, <2>2, Zenon
<1>8. \A u \in Threads : pc'[u] = "c_decrement" => res'[on'[u]] \subseteq {"hsave"}
  BY <1>2, <1>4, Zenon DEF Returned, Alone
<1> QED
  BY <1>7, <1>8, Zenon DEF Returned

LEMMA DestroyReturns ==
  ASSUME FileInv, Returned, NEW t \in Threads, DestroyFree(t)
  PROVE  Returned'
<1>1. pc \in [Threads -> Pcs] /\ res \in [Vcpus -> SUBSET Things]
  BY Zenon DEF FileInv, Types
<1>2. pc[t] = "d_free" /\ pc' = [pc EXCEPT ![t] = "user"] /\ on' = on
  BY Zenon DEF DestroyFree
<1>3. Alone(t) /\ pc'[t] = "user" /\ pc[t] \notin Creating
  BY <1>1, <1>2, Zenon DEF Alone, Creating
<1>4. ASSUME NEW c \in Vcpus
      PROVE  /\ res'[c] \subseteq res[c]
             /\ (\E k \in DOMAIN online : online[k] = c) => res'[c] \subseteq {"hsave"}
  BY <1>1, Zenon DEF DestroyFree, VcpuFree, Things
<1>5. AllFreed'
  <2> SUFFICES ASSUME NEW c \in Vcpus
               PROVE  \/ res'[c] \subseteq {"hsave"}
                      \/ \E u \in Threads : pc'[u] \in Creating /\ on'[u] = c
    BY Zenon DEF AllFreed
  <2>1. \/ res[c] \subseteq {"hsave"}
        \/ \E k \in DOMAIN online : online[k] = c
        \/ \E u \in Threads \ {t} : pc[u] \in Creating /\ on[u] = c
    BY <1>3, Zenon DEF Returned, AllFreed
  <2> QED
    BY <1>2, <1>3, <1>4, <2>1, Zenon DEF Alone
<1>6. ASSUME NEW u \in Threads, pc'[u] = "c_decrement"
      PROVE  res'[on'[u]] \subseteq {"hsave"}
  <2>1. pc[u] = "c_decrement"
    BY <1>3, <1>6, Zenon DEF Alone
  <2>2. on[u] \in Vcpus /\ res[on[u]] \subseteq {"hsave"}
    BY <2>1, Zenon DEF FileInv, Attached, Creating, Returned
  <2> QED
    BY <1>2, <1>4, <2>2, Zenon
<1> QED
  BY <1>5, <1>6, Zenon DEF Returned

LEMMA ReturnedNext ==
  ASSUME FileInv, Returned, [Next]_vars
  PROVE  Returned'
<1>1. CASE UNCHANGED vars
  BY <1>1, Zenon DEF vars, Returned, AllFreed
<1>2. ASSUME NEW t \in Threads, KernelStep(t) PROVE Returned'
  BY <1>2, CloseKeeps, StepKeeps, KeepsInv, FailedReturns, EndReturns, DestroyReturns, ZenonT(60)
  DEF KernelStep
<1>3. ASSUME NEW t \in Threads, NEW c \in Vcpus, NEW i \in Ids, CreateVcpu(t, c, i)
      PROVE  Returned'
  BY <1>3, StepKeeps, KeepsInv, Zenon
<1>4. ASSUME NEW t \in Threads, NEW c \in Vcpus,
             CloseVcpu(t, c) \/ DupVcpu(t, c) \/ VcpuIoctl(t, c)
      PROVE  Returned'
  BY <1>4, CloseKeeps, StepKeeps, KeepsInv, Zenon
<1>5. ASSUME NEW t \in Threads,
             \/ CloseVm(t) \/ CreateVcpuTooMany(t) \/ VcpuLoadKilled(t) \/ RunBegin(t)
             \/ EnterGuest(t) \/ HandleExitAgain(t) \/ Signal(t)
             \/ VcpuLoad(t) \/ VcpuIoctlDone(t) \/ HandleExitToUser(t)
             \/ VcpuIoctlUnknown(t) \/ DestroyKilled(t)
      PROVE  Returned'
  BY <1>5, CloseKeeps, StepKeeps, KeepsInv, Zenon
<1> QED
  BY <1>1, <1>2, <1>3, <1>4, <1>5, ZenonT(60) DEF Next

\* A creation that failed at any stage, with or without a descriptor, and the
\* destruction of the machine give back what vmrun_vcpu_create allocated, the
\* hsave page excepted: for any number of creations at a time.
THEOREM NothingKept == Spec => []AllFreed
<1>1. Init => Returned
  BY Zenon DEF Init, Returned, AllFreed
<1>2. Returned => AllFreed
  BY Zenon DEF Returned
<1> QED
  BY <1>1, <1>2, InitInv, NextInv, ReturnedNext, PTL DEF Spec

-----------------------------------------------------------------------------
(* Types *)

\* What Types, Counted and CountInv leave of TypeOK.
Rest ==
    /\ vmlock \in Threads \cup {None}
    /\ vmfds <= MaxFds
    /\ \A c \in Vcpus : fds[c] <= MaxFds
    /\ signalled \subseteq Threads /\ leaked \subseteq Vcpus /\ bug \in BOOLEAN

LEMMA RestNext ==
  ASSUME FileInv, Rest, [Next]_vars
  PROVE  Rest'
<1>0. /\ vmfds \in Nat /\ fds \in [Vcpus -> Nat] /\ MaxFds \in Nat \ {0}
      /\ \A u \in Threads : pc[u] \in InVcpuIoctl \cup Creating => on[u] \in Vcpus
  BY LifecycleAssumption, Zenon DEF FileInv, Types, Attached
<1>1. CASE UNCHANGED vars
  BY <1>1, Zenon DEF vars, Rest
<1>2. ASSUME NEW t \in Threads, KernelStep(t) PROVE Rest'
  <2>1. CASE VcpuDescriptor(t)
    BY <1>0, <2>1, SMTT(30), Zenon DEF Rest, VcpuDescriptor, Creating
  <2>2. CASE ~VcpuDescriptor(t)
    BY <1>0, <1>2, <2>2, Zenon
    DEF Rest, KernelStep, VmIoctlReturn, VcpuIoctlReturn, VcpuCreate, VcpuRefuse, VcpuPublish,
        VcpuDestroy, VcpuDecrement, DestroyUnload, DestroyFree
  <2> QED
    BY <2>1, <2>2, Zenon
<1>3. ASSUME NEW t \in Threads, NEW c \in Vcpus, NEW i \in Ids, CreateVcpu(t, c, i)
      PROVE  Rest'
  BY <1>3, Zenon DEF Rest, CreateVcpu
<1>4. ASSUME NEW t \in Threads, NEW c \in Vcpus,
             CloseVcpu(t, c) \/ DupVcpu(t, c) \/ VcpuIoctl(t, c)
      PROVE  Rest'
  BY <1>0, <1>4, SMTT(30), Zenon DEF Rest, CloseVcpu, DupVcpu, VcpuIoctl
<1>5. ASSUME NEW t \in Threads,
             \/ CloseVm(t) \/ CreateVcpuTooMany(t) \/ VcpuLoadKilled(t) \/ RunBegin(t)
             \/ EnterGuest(t) \/ HandleExitAgain(t) \/ Signal(t)
             \/ VcpuLoad(t) \/ VcpuIoctlDone(t) \/ HandleExitToUser(t)
      PROVE  Rest'
  <2>1. CASE CloseVm(t)
    <3>1. vmfds' <= MaxFds
      <4>1. vmfds' = vmfds - 1 /\ vmfds <= MaxFds
        BY <2>1, Zenon DEF CloseVm, Rest
      <4> QED
        BY <1>0, <4>1
    <3> QED
      BY <2>1, <3>1, Zenon DEF Rest, CloseVm
  <2>2. CASE CreateVcpuTooMany(t) \/ VcpuLoadKilled(t) \/ RunBegin(t)
    BY <2>2, Zenon DEF Rest, CreateVcpuTooMany, VcpuLoadKilled, RunBegin
  <2>3. CASE EnterGuest(t) \/ HandleExitAgain(t)
    BY <2>3, Zenon DEF Rest, EnterGuest, HandleExitAgain
  <2>4. CASE Signal(t)
    <3>1. signalled' \subseteq Threads
      BY <2>4, Zenon DEF Rest, Signal
    <3> QED
      BY <2>4, <3>1, Zenon DEF Rest, Signal
  <2>5. CASE VcpuLoad(t)
    BY <2>5, Zenon DEF Rest, VcpuLoad
  <2>6. CASE VcpuIoctlDone(t) \/ HandleExitToUser(t)
    BY <2>6, Zenon DEF Rest, VcpuIoctlDone, HandleExitToUser
  <2> QED
    BY <1>5, <2>1, <2>2, <2>3, <2>4, <2>5, <2>6, ZenonT(60)
<1>6. ASSUME NEW t \in Threads, VcpuIoctlUnknown(t) PROVE Rest'
  BY <1>0, <1>6, Zenon DEF Rest, VcpuIoctlUnknown, InVcpuIoctl
<1>7. ASSUME NEW t \in Threads, DestroyKilled(t) PROVE Rest'
  <2>1. bug' \in BOOLEAN
    BY <1>7, Zenon DEF DestroyKilled
  <2> QED
    BY <1>7, <2>1, Zenon DEF Rest, DestroyKilled
<1> QED
  BY <1>1, <1>2, <1>3, <1>4, <1>5, <1>6, <1>7, SMTT(30) DEF Next

\* users_count stays below the number of vCPU structures and the machine's own
\* file together, created_vcpus within VMRUN_MAX_VCPUS, and every lock has a
\* thread or nobody for its holder.
THEOREM LifecycleTypes == Spec => []TypeOK
<1>1. Init => Rest
  <2> SUFFICES ASSUME Init PROVE Rest
    BY Zenon
  <2>1. vmfds <= MaxFds /\ \A c \in Vcpus : fds[c] <= MaxFds
    BY LifecycleAssumption DEF Init
  <2>2. vmlock \in Threads \cup {None} /\ signalled = {} /\ leaked = {} /\ bug = FALSE
    BY Zenon DEF Init
  <2> QED
    BY <2>1, <2>2, Zenon DEF Rest
<1>2. FileInv /\ TableInv /\ Rest => TypeOK
  <2> SUFFICES ASSUME FileInv, TableInv, Rest PROVE TypeOK
    BY Zenon
  <2>1. users \in 0..(Cardinality(Vcpus) + 1)
    <3>1. /\ Cardinality(Open) <= Cardinality(Vcpus)
          /\ Cardinality(Vcpus) \in Nat
      BY LifecycleAssumption, FS_Subset, FS_CardinalityType, Zenon DEF Open
    <3> QED
      BY <3>1, OpenFinite DEF FileInv, Counted
  <2>2. created \in 0..VMRUN_MAX_VCPUS
    BY LifecycleAssumption DEF TableInv, CountInv
  <2>3. vmfds \in 0..MaxFds /\ fds \in [Vcpus -> 0..MaxFds]
    BY LifecycleAssumption DEF FileInv, Types, Rest
  <2> QED
    BY <2>1, <2>2, <2>3, Zenon DEF FileInv, Types, Rest, TypeOK, Things, Pcs
<1> QED
  BY <1>1, <1>2, InitInv, NextInv, TableInit, TableNext, RestNext, PTL DEF Spec

=============================================================================
