---------------------------- MODULE VmLifecycle -----------------------------
(***************************************************************************)
(* The life of one virtual machine and its vCPUs as the descriptors of a   *)
(* process hold it (kernel/vmrun.c): the VM ioctl that creates a vCPU and  *)
(* its error paths, the vCPU ioctls under the vCPU's mutex, the run loop   *)
(* seen from outside, dup and close, and the destruction of the machine by *)
(* whoever drops the last reference.                                       *)
(*                                                                         *)
(* The machine exists in the initial state, with the descriptor that       *)
(* vmrun_dev_ioctl_create_vm would install.  An open file lives as long as *)
(* a descriptor, a mapping or an ioctl in progress refers to it; the last  *)
(* of them calls its release function.                                     *)
(***************************************************************************)
EXTENDS Naturals, Sequences, FiniteSets

CONSTANTS
    Threads,
    Vcpus,            \* vCPU structures, each used once
    Ids,              \* vCPU ids user space asks for
    VMRUN_MAX_VCPUS,
    MaxFds,           \* bound on the descriptors and mappings of one file
    None

ASSUME LifecycleAssumption ==
    /\ VMRUN_MAX_VCPUS \in Nat \ {0} /\ MaxFds \in Nat \ {0}
    /\ IsFiniteSet(Threads) /\ IsFiniteSet(Vcpus)
    /\ None \notin Threads \cup Vcpus \cup Ids

VARIABLES
    vm,         \* "live", "destroying", "freed"
    users,      \* users_count
    created,    \* created_vcpus
    online,     \* vcpus[0 .. online_vcpus - 1]
    vmlock,     \* holder of vmrun->lock
    res,        \* res[c]: what is allocated for the vCPU structure
    id,         \* vcpu_id
    mutex,      \* mutex[c]: holder of vcpu->mutex
    vmfds,      \* descriptors of the VM file
    fds,        \* fds[c]: descriptors and mappings of the vCPU file
    pc,         \* where each thread is
    on,         \* the vCPU the thread works on
    signalled,  \* threads with a signal pending
    leaked,     \* history: vCPUs an unknown ioctl returned from
    bug         \* a BUG_ON was hit

vars == <<vm, users, created, online, vmlock, res, id, mutex, vmfds, fds, pc, on,
          signalled, leaked, bug>>

Creating == {"c_create", "c_online", "c_publish", "c_destroy", "c_decrement"}
InVmIoctl == Creating \cup {"vm_out"}
InVcpuIoctl == {"v_load", "v_ioctl", "v_loop", "v_guest", "v_out"}
InDestroy == {"d_unload", "d_free"}

\* What vmrun_vcpu_create allocates, in order.
Stages == <<"struct", "run", "mmu", "vmcb", "hsave">>

Init ==
    /\ vm = "live" /\ users = 1 /\ created = 0 /\ online = <<>> /\ vmlock = None
    /\ res = [c \in Vcpus |-> {}]
    /\ id = [c \in Vcpus |-> None]
    /\ mutex = [c \in Vcpus |-> None]
    /\ vmfds = 1
    /\ fds = [c \in Vcpus |-> 0]
    /\ pc = [t \in Threads |-> "user"]
    /\ on = [t \in Threads |-> None]
    /\ signalled = {} /\ leaked = {} /\ bug = FALSE

-----------------------------------------------------------------------------
(* Files.                                                                  *)

VmFileOpen == vmfds > 0 \/ \E t \in Threads : pc[t] \in InVmIoctl

VcpuFileOpen(c) ==
    fds[c] > 0 \/ \E t \in Threads : pc[t] \in InVcpuIoctl /\ on[t] = c

\* Mutant: no reference is taken for the new file.
GetNothing == users' = users

\* vmrun_get_vmrun
GetVmrun == users' = users + 1

\* Mutant: the machine goes with the last but one reference.
PutVmrunEarly(t) ==
    /\ users' = users - 1
    /\ vm' = IF users <= 2 THEN "destroying" ELSE vm
    /\ pc' = [pc EXCEPT ![t] = IF users <= 2 THEN "d_unload" ELSE "user"]

\* vmrun_put_vmrun by thread t: the last reference destroys the machine.
PutVmrun(t) ==
    /\ users' = users - 1
    /\ vm' = IF users = 1 THEN "destroying" ELSE vm
    /\ pc' = [pc EXCEPT ![t] = IF users = 1 THEN "d_unload" ELSE "user"]

\* fput by thread t, after which the file is open or not.
Fput(t, open) ==
    IF open THEN pc' = [pc EXCEPT ![t] = "user"] /\ UNCHANGED <<vm, users>>
    ELSE PutVmrun(t)

OtherInVm(t) == \E u \in Threads \ {t} : pc[u] \in InVmIoctl

OtherInVcpu(t, c) == \E u \in Threads \ {t} : pc[u] \in InVcpuIoctl /\ on[u] = c

CloseVm(t) ==
    /\ pc[t] = "user" /\ vmfds > 0
    /\ vmfds' = vmfds - 1
    /\ Fput(t, vmfds' > 0 \/ OtherInVm(t))
    /\ UNCHANGED <<created, online, vmlock, res, id, mutex, fds, on, signalled, leaked, bug>>

CloseVcpu(t, c) ==
    /\ pc[t] = "user" /\ fds[c] > 0
    /\ fds' = [fds EXCEPT ![c] = @ - 1]
    /\ Fput(t, fds'[c] > 0 \/ OtherInVcpu(t, c))
    /\ UNCHANGED <<created, online, vmlock, res, id, mutex, vmfds, on, signalled, leaked, bug>>

\* dup of a descriptor, or vmrun_vcpu_mmap: another reference to the file.
DupVcpu(t, c) ==
    /\ pc[t] = "user" /\ fds[c] \in 1..(MaxFds - 1)
    /\ fds' = [fds EXCEPT ![c] = @ + 1]
    /\ UNCHANGED <<vm, users, created, online, vmlock, res, id, mutex, vmfds, pc, on,
                   signalled, leaked, bug>>

\* Return from a VM ioctl, and from a vCPU ioctl.
VmIoctlReturn(t) ==
    /\ pc[t] = "vm_out"
    /\ Fput(t, vmfds > 0 \/ OtherInVm(t))
    /\ on' = [on EXCEPT ![t] = None]
    /\ UNCHANGED <<created, online, vmlock, res, id, mutex, vmfds, fds, signalled, leaked, bug>>

VcpuIoctlReturn(t) ==
    /\ pc[t] = "v_out"
    /\ Fput(t, fds[on[t]] > 0 \/ OtherInVcpu(t, on[t]))
    /\ on' = [on EXCEPT ![t] = None]
    /\ signalled' = signalled \ {t}
    /\ UNCHANGED <<created, online, vmlock, res, id, mutex, vmfds, fds, leaked, bug>>

-----------------------------------------------------------------------------
(* vmrun_vm_ioctl_create_vcpu.                                             *)

\* The check of created_vcpus, under vmrun->lock.
CreateVcpu(t, c, i) ==
    /\ pc[t] = "user" /\ vmfds > 0 /\ vmlock = None
    /\ res[c] = {} /\ id[c] = None
    /\ created # VMRUN_MAX_VCPUS
    /\ created' = created + 1
    /\ pc' = [pc EXCEPT ![t] = "c_create"]
    /\ on' = [on EXCEPT ![t] = c]
    /\ id' = [id EXCEPT ![c] = i]
    /\ UNCHANGED <<vm, users, online, vmlock, res, mutex, vmfds, fds, signalled, leaked, bug>>

CreateVcpuTooMany(t) ==
    /\ pc[t] = "user" /\ vmfds > 0 /\ vmlock = None
    /\ created = VMRUN_MAX_VCPUS
    /\ pc' = [pc EXCEPT ![t] = "vm_out"]
    /\ UNCHANGED <<vm, users, created, online, vmlock, res, id, mutex, vmfds, fds, on,
                   signalled, leaked, bug>>

Allocated(n) == {Stages[k] : k \in 1..n}

\* Mutant: the page of vcpu->run is forgotten on the error path.
UnwoundNotRun(n) == Allocated(n) \ {"run"}

\* The gotos of vmrun_vcpu_create and vmrun_vcpu_init when stage n + 1 fails.
Unwound(n) == Allocated(n)

\* vmrun_vcpu_create and vmrun_vcpu_setup, which nobody else sees.
VcpuCreate(t) ==
    /\ pc[t] = "c_create"
    /\ \E n \in 0..Len(Stages) :
          /\ res' = [res EXCEPT ![on[t]] = IF n = Len(Stages) THEN Allocated(n)
                                           ELSE Allocated(n) \ Unwound(n)]
          /\ pc' = [pc EXCEPT ![t] = IF n = Len(Stages) THEN "c_online" ELSE "c_decrement"]
    /\ UNCHANGED <<vm, users, created, online, vmlock, id, mutex, vmfds, fds, on,
                   signalled, leaked, bug>>

\* Mutant: the table is not searched for the id.
ExistsNever(i) == FALSE

\* vmrun_get_vcpu_by_id
Exists(i) == \E k \in DOMAIN online : id[online[k]] = i

\* Under vmrun->lock: a taken id, or no descriptor to be had (vmrun_get_vmrun and
\* vmrun_put_vmrun cancel), or the descriptor is there for every thread to use.
VcpuRefuse(t) ==
    /\ pc[t] = "c_online" /\ vmlock = None
    /\ pc' = [pc EXCEPT ![t] = "c_destroy"]
    /\ UNCHANGED <<vm, users, created, online, vmlock, res, id, mutex, vmfds, fds, on,
                   signalled, leaked, bug>>

VcpuDescriptor(t) ==
    /\ pc[t] = "c_online" /\ vmlock = None
    /\ ~Exists(id[on[t]])
    /\ GetVmrun
    /\ fds' = [fds EXCEPT ![on[t]] = 1]
    /\ vmlock' = t
    /\ pc' = [pc EXCEPT ![t] = "c_publish"]
    /\ UNCHANGED <<vm, created, online, res, id, mutex, vmfds, on, signalled, leaked, bug>>

\* Mutant: vmrun->lock is kept on the way out.
VcpuPublishLocked(t) ==
    /\ pc[t] = "c_publish"
    /\ online' = Append(online, on[t])
    /\ pc' = [pc EXCEPT ![t] = "vm_out"]
    /\ UNCHANGED <<vm, users, created, vmlock, res, id, mutex, vmfds, fds, on,
                   signalled, leaked, bug>>

VcpuPublish(t) ==
    /\ pc[t] = "c_publish"
    /\ online' = Append(online, on[t])
    /\ vmlock' = None
    /\ pc' = [pc EXCEPT ![t] = "vm_out"]
    /\ UNCHANGED <<vm, users, created, res, id, mutex, vmfds, fds, on, signalled, leaked, bug>>

\* vmrun_vcpu_free
VcpuFree(r) == r \ {"struct", "run", "mmu", "vmcb"}

VcpuDestroy(t) ==
    /\ pc[t] = "c_destroy"
    /\ res' = [res EXCEPT ![on[t]] = VcpuFree(@)]
    /\ pc' = [pc EXCEPT ![t] = "c_decrement"]
    /\ UNCHANGED <<vm, users, created, online, vmlock, id, mutex, vmfds, fds, on,
                   signalled, leaked, bug>>

VcpuDecrement(t) ==
    /\ pc[t] = "c_decrement" /\ vmlock = None
    /\ created' = created - 1
    /\ pc' = [pc EXCEPT ![t] = "vm_out"]
    /\ UNCHANGED <<vm, users, online, vmlock, res, id, mutex, vmfds, fds, on,
                   signalled, leaked, bug>>

-----------------------------------------------------------------------------
(* vmrun_vcpu_ioctl.                                                       *)

VcpuIoctl(t, c) ==
    /\ pc[t] = "user" /\ fds[c] > 0
    /\ pc' = [pc EXCEPT ![t] = "v_load"]
    /\ on' = [on EXCEPT ![t] = c]
    /\ UNCHANGED <<vm, users, created, online, vmlock, res, id, mutex, vmfds, fds,
                   signalled, leaked, bug>>

\* vmrun_vcpu_load: mutex_lock_killable
VcpuLoad(t) ==
    /\ pc[t] = "v_load" /\ mutex[on[t]] = None
    /\ mutex' = [mutex EXCEPT ![on[t]] = t]
    /\ pc' = [pc EXCEPT ![t] = "v_ioctl"]
    /\ UNCHANGED <<vm, users, created, online, vmlock, res, id, vmfds, fds, on,
                   signalled, leaked, bug>>

VcpuLoadKilled(t) ==
    /\ pc[t] = "v_load" /\ t \in signalled
    /\ pc' = [pc EXCEPT ![t] = "v_out"]
    /\ UNCHANGED <<vm, users, created, online, vmlock, res, id, mutex, vmfds, fds, on,
                   signalled, leaked, bug>>

\* Mutant: the mutex is not given back.
PutNothing(t) == UNCHANGED mutex

\* The end of a known ioctl: vmrun_vcpu_put.
VcpuPut(t) == mutex' = [mutex EXCEPT ![on[t]] = None]

\* Every ioctl with a case of its own, VMRUN_RUN included when it returns at once.
VcpuIoctlDone(t) ==
    /\ pc[t] = "v_ioctl"
    /\ VcpuPut(t)
    /\ pc' = [pc EXCEPT ![t] = "v_out"]
    /\ UNCHANGED <<vm, users, created, online, vmlock, res, id, vmfds, fds, on,
                   signalled, leaked, bug>>

\* The default case returns without vmrun_vcpu_put.
VcpuIoctlUnknown(t) ==
    /\ pc[t] = "v_ioctl"
    /\ leaked' = leaked \cup {on[t]}
    /\ pc' = [pc EXCEPT ![t] = "v_out"]
    /\ UNCHANGED <<vm, users, created, online, vmlock, res, id, mutex, vmfds, fds, on,
                   signalled, bug>>

\* vmrun_vcpu_ioctl_run: a pending signal keeps vmrun_vcpu_enter_guest from the
\* guest, and the loop goes round; it ends when an exit is for user space.
RunBegin(t) ==
    /\ pc[t] = "v_ioctl"
    /\ pc' = [pc EXCEPT ![t] = "v_loop"]
    /\ UNCHANGED <<vm, users, created, online, vmlock, res, id, mutex, vmfds, fds, on,
                   signalled, leaked, bug>>

EnterGuest(t) ==
    /\ pc[t] = "v_loop" /\ t \notin signalled
    /\ pc' = [pc EXCEPT ![t] = "v_guest"]
    /\ UNCHANGED <<vm, users, created, online, vmlock, res, id, mutex, vmfds, fds, on,
                   signalled, leaked, bug>>

HandleExitAgain(t) ==
    /\ pc[t] = "v_guest"
    /\ pc' = [pc EXCEPT ![t] = "v_loop"]
    /\ UNCHANGED <<vm, users, created, online, vmlock, res, id, mutex, vmfds, fds, on,
                   signalled, leaked, bug>>

HandleExitToUser(t) ==
    /\ pc[t] = "v_guest"
    /\ VcpuPut(t)
    /\ pc' = [pc EXCEPT ![t] = "v_out"]
    /\ UNCHANGED <<vm, users, created, online, vmlock, res, id, vmfds, fds, on,
                   signalled, leaked, bug>>

Signal(t) ==
    /\ pc[t] \in InVcpuIoctl \cup InDestroy /\ t \notin signalled
    /\ signalled' = signalled \cup {t}
    /\ UNCHANGED <<vm, users, created, online, vmlock, res, id, mutex, vmfds, fds, pc, on,
                   leaked, bug>>

-----------------------------------------------------------------------------
(* vmrun_destroy_vm.                                                       *)

\* vmrun_free_vcpus, first loop: vmrun_vcpu_unload_mmu takes each mutex in turn.
AllLoadable == \A k \in DOMAIN online : mutex[online[k]] = None

DestroyUnload(t) ==
    /\ pc[t] = "d_unload" /\ AllLoadable
    /\ pc' = [pc EXCEPT ![t] = "d_free"]
    /\ UNCHANGED <<vm, users, created, online, vmlock, res, id, mutex, vmfds, fds, on,
                   signalled, leaked, bug>>

\* BUG_ON(r): the wait for a mutex was killed.
DestroyKilled(t) ==
    /\ pc[t] = "d_unload" /\ ~AllLoadable /\ t \in signalled
    /\ bug' = TRUE
    /\ pc' = [pc EXCEPT ![t] = "dead"]
    /\ UNCHANGED <<vm, users, created, online, vmlock, res, id, mutex, vmfds, fds, on,
                   signalled, leaked>>

\* The second loop, and the rest of vmrun_destroy_vm up to kfree.
DestroyFree(t) ==
    /\ pc[t] = "d_free" /\ vmlock = None
    /\ res' = [c \in Vcpus |-> IF \E k \in DOMAIN online : online[k] = c
                               THEN VcpuFree(res[c]) ELSE res[c]]
    /\ online' = <<>>
    /\ vm' = "freed"
    /\ pc' = [pc EXCEPT ![t] = "user"]
    /\ signalled' = signalled \ {t}
    /\ UNCHANGED <<users, created, vmlock, id, mutex, vmfds, fds, on, leaked, bug>>

-----------------------------------------------------------------------------

\* The steps a thread takes without waiting for user space or the guest.
KernelStep(t) ==
    \/ VmIoctlReturn(t)
    \/ VcpuIoctlReturn(t)
    \/ VcpuCreate(t)
    \/ VcpuRefuse(t)
    \/ VcpuDescriptor(t)
    \/ VcpuPublish(t)
    \/ VcpuDestroy(t)
    \/ VcpuDecrement(t)
    \/ DestroyUnload(t)
    \/ DestroyFree(t)

Next ==
    \E t \in Threads :
        \/ KernelStep(t)
        \/ CloseVm(t)
        \/ \E c \in Vcpus, i \in Ids : CreateVcpu(t, c, i)
        \/ CreateVcpuTooMany(t)
        \/ \E c \in Vcpus : CloseVcpu(t, c) \/ DupVcpu(t, c) \/ VcpuIoctl(t, c)
        \/ VcpuLoad(t)
        \/ VcpuLoadKilled(t)
        \/ VcpuIoctlDone(t)
        \/ VcpuIoctlUnknown(t)
        \/ RunBegin(t)
        \/ EnterGuest(t)
        \/ HandleExitAgain(t)
        \/ HandleExitToUser(t)
        \/ Signal(t)
        \/ DestroyKilled(t)

\* A thread in the kernel is scheduled, and a mutex is handed to its waiters.
Fairness == \A t \in Threads : SF_vars(KernelStep(t))

Spec == Init /\ [][Next]_vars /\ Fairness

-----------------------------------------------------------------------------
(* Properties.                                                             *)

TypeOK ==
    /\ vm \in {"live", "destroying", "freed"}
    /\ users \in 0..(Cardinality(Vcpus) + 1)
    /\ created \in 0..VMRUN_MAX_VCPUS
    /\ online \in Seq(Vcpus)
    /\ vmlock \in Threads \cup {None}
    /\ res \in [Vcpus -> SUBSET {"struct", "run", "mmu", "vmcb", "hsave"}]
    /\ id \in [Vcpus -> Ids \cup {None}]
    /\ mutex \in [Vcpus -> Threads \cup {None}]
    /\ vmfds \in 0..MaxFds
    /\ fds \in [Vcpus -> 0..MaxFds]
    /\ pc \in [Threads -> {"user", "dead"} \cup InVmIoctl \cup InVcpuIoctl \cup InDestroy]
    /\ on \in [Threads -> Vcpus \cup {None}]
    /\ signalled \subseteq Threads /\ leaked \subseteq Vcpus /\ bug \in BOOLEAN

\* users_count counts the open files of the machine, one for the VM and one for
\* each vCPU, through every failure of a creation and every race of a close with
\* an ioctl; and the machine, and all a vCPU file uses, exist as long as one is
\* open.
ReferencesKeepAlive ==
    /\ users = Cardinality({c \in Vcpus : VcpuFileOpen(c)}) + (IF VmFileOpen THEN 1 ELSE 0)
    /\ users > 0 <=> vm = "live"
    /\ \A c \in Vcpus : VcpuFileOpen(c) => Allocated(Len(Stages)) = res[c]

\* created_vcpus is the number of vCPUs that are online or on their way, so the
\* table never overflows; and no two online vCPUs have one id, though the id is
\* looked up long after the creation began.
VcpusCounted ==
    /\ vm = "live" =>
          created = Len(online) + Cardinality({t \in Threads : pc[t] \in Creating})
    /\ Len(online) <= VMRUN_MAX_VCPUS
    /\ \A j, k \in DOMAIN online : j # k => id[online[j]] # id[online[k]]

\* A vCPU that never came online, and every vCPU of a machine that is gone, has
\* given back what it allocated.  The hsave page is the exception: nothing frees
\* it once vmrun_vcpu_create has succeeded.
AllFreed ==
    \A c \in Vcpus :
        \/ res[c] \subseteq {"hsave"}
        \/ vm # "freed" /\ \E k \in DOMAIN online : online[k] = c
        \/ \E t \in Threads : pc[t] \in Creating /\ on[t] = c

\* A vCPU's mutex is held by a thread inside an ioctl on it, and no BUG_ON of the
\* destruction is reached, unless an unknown ioctl kept the mutex.
MutexHeld ==
    /\ \A c \in Vcpus \ leaked :
          mutex[c] # None =>
              on[mutex[c]] = c /\ pc[mutex[c]] \in {"v_ioctl", "v_loop", "v_guest"}
    /\ bug => leaked # {}

\* A creation, a return and the destruction of the machine come to an end: no
\* two of them wait for each other.  A mutex an unknown ioctl kept is the one
\* thing that stops a destruction for good.
KernelReturns ==
    \A t \in Threads :
        pc[t] \in InVmIoctl \cup InDestroy \cup {"v_out"} ~>
            (pc[t] = "user" \/ leaked # {})

=============================================================================
