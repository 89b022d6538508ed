----------------------------- MODULE CpuEnable -----------------------------
(***************************************************************************)
(* Loading and unloading the driver, and who turns SVM on and off on which *)
(* CPU: vmrun_usage_count, cpus_enabled and EFER.SVME, the on_each_cpu     *)
(* calls of the first and the last VM, and the CPU hotplug callbacks       *)
(* (kernel/vmrun.c).                                                       *)
(*                                                                         *)
(* vmrun_count_lock is held exactly while op # NoOp: on_each_cpu runs its  *)
(* function on the CPUs one by one (op.todo) while the caller spins.  The  *)
(* hotplug callbacks take the same lock, so they wait for op = NoOp.       *)
(***************************************************************************)
EXTENDS Naturals, FiniteSets

CONSTANTS
    CPU,        \* the possible CPUs
    Busy,       \* CPUs on which vmrun_cpu_enable_nolock fails: no usable SVM,
                \* or EFER.SVME already set by another hypervisor
    MaxVMs      \* bound: VMs alive at once

ASSUME CpuAssumption == IsFiniteSet(CPU) /\ CPU # {} /\ Busy \subseteq CPU
ASSUME MaxVMsAssumption == MaxVMs \in Nat

VARIABLES
    module,            \* "unloaded" or "loaded"
    cpu_data,          \* CPUs whose vmrun_cpu_data and save area are in use
    leaked,            \* data that was allocated and is now unreachable: of which
                       \* CPU, and left by which path
    vmrun_usage_count,
    cpus_enabled,
    cpu_enable_failed, \* whether the counter is nonzero
    svme,              \* CPUs whose EFER.SVME this driver has set
    cpu_state,         \* CPU -> "offline", "starting" or "online"
    op,                \* the call that holds vmrun_count_lock
    vms,               \* VMs that vmrun_cpu_enable_all was successful for
    missed             \* history, read by no action: the CPUs an on_each_cpu went
                       \* past while they were coming up, until a later one has
                       \* SVM off on them or they go down with their bit clear

vars == <<module, cpu_data, leaked, vmrun_usage_count, cpus_enabled,
          cpu_enable_failed, svme, cpu_state, op, vms, missed>>

NoOp == [kind |-> "none", todo |-> {}]
OpKinds == {"none", "enable", "rollback", "disable"}
Online == {c \in CPU : cpu_state[c] = "online"}
Starting == {c \in CPU : cpu_state[c] = "starting"}

\* The types; the BUG_ON of vmrun_cpu_disable_all_nolock keeps the count natural.
TypeOK ==
    /\ module \in {"unloaded", "loaded"}
    /\ cpu_data \subseteq CPU
    /\ leaked \subseteq CPU \X {"cpu_setup", "cpu_unsetup"}
    /\ vmrun_usage_count \in Nat
    /\ cpus_enabled \subseteq CPU
    /\ cpu_enable_failed \in BOOLEAN
    /\ svme \subseteq CPU
    /\ cpu_state \in [CPU -> {"offline", "starting", "online"}]
    /\ op \in [kind : OpKinds, todo : SUBSET CPU]
    /\ vms \in 0 .. MaxVMs
    /\ missed \subseteq CPU

Init ==
    /\ module = "unloaded"
    /\ cpu_data = {}
    /\ leaked = {}
    /\ vmrun_usage_count = 0
    /\ cpus_enabled = {}
    /\ cpu_enable_failed = FALSE
    /\ svme = {}
    /\ cpu_state \in [CPU -> {"offline", "online"}]
    /\ Online # {}
    /\ op = NoOp
    /\ vms = 0
    /\ missed = {}

-----------------------------------------------------------------------------
(* Module load and unload *)

\* The loop over the possible CPUs that calls vmrun_cpu_unsetup, by a thread that
\* the scheduler lets run on the CPUs in where during the loop: the function frees
\* the data of raw_smp_processor_id(), whatever CPU it is called for.  What is left.
UnsetupLeaves(data, where) == (data \ where) \X {"cpu_unsetup"}

\* vmrun_init: every possible CPU gets its data, then the notifier and the
\* device are registered.
ModuleInit ==
    /\ module = "unloaded"
    /\ vms = 0
    /\ module' = "loaded"
    /\ cpu_data' = CPU
    /\ vmrun_usage_count' = 0
    /\ cpus_enabled' = {}
    /\ cpu_enable_failed' = FALSE
    /\ UNCHANGED <<leaked, svme, cpu_state, op, vms, missed>>

\* vmrun_init fails once the data of the CPUs in done is allocated.  An allocation
\* failure skips vmrun_cpu_unsetup (out_free_iopm); a registration failure runs it
\* (out_free_cpus).
ModuleInitFails(where, done) ==
    /\ module = "unloaded"
    /\ vms = 0
    /\ leaked' = leaked \cup IF done = CPU THEN UnsetupLeaves(done, where)
                                          ELSE done \X {"cpu_setup"}
    /\ UNCHANGED <<module, cpu_data, vmrun_usage_count, cpus_enabled,
                   cpu_enable_failed, svme, cpu_state, op, vms, missed>>

\* vmrun_exit: the device and the notifier are unregistered, then SVM is switched
\* off on each online CPU.  No file of a VM or vCPU pins the module (their
\* file_operations have no owner), so VMs may still exist.  Unloading the code of a
\* call that is under way is not modelled (op = NoOp).
ModuleExit(where) ==
    /\ module = "loaded"
    /\ op = NoOp
    /\ module' = "unloaded"
    /\ leaked' = leaked \cup UnsetupLeaves(cpu_data, where)
    /\ cpu_data' = {}
    /\ svme' = svme \ (cpus_enabled \cap Online)
    /\ cpus_enabled' = cpus_enabled \ Online
    /\ missed' = (missed \ (Online \ svme')) \cup Starting
    /\ UNCHANGED <<vmrun_usage_count, cpu_enable_failed, cpu_state, op, vms>>

-----------------------------------------------------------------------------
(* The per-CPU functions *)

\* vmrun_cpu_enable_nolock on CPU c.
CpuEnableNolock(c) ==
    \/ /\ c \in cpus_enabled
       /\ UNCHANGED <<cpus_enabled, cpu_enable_failed, svme>>
    \/ /\ c \notin cpus_enabled
       /\ c \in Busy \cup svme
       /\ cpu_enable_failed' = TRUE
       /\ UNCHANGED <<cpus_enabled, svme>>
    \/ /\ c \notin cpus_enabled \cup Busy \cup svme
       /\ cpus_enabled' = cpus_enabled \cup {c}
       /\ svme' = svme \cup {c}
       /\ UNCHANGED cpu_enable_failed

\* Mutant: the bit is cleared but EFER.SVME stays set.
CpuDisableKeepsSvme(c) ==
    /\ cpus_enabled' = cpus_enabled \ {c}
    /\ UNCHANGED svme

\* vmrun_cpu_disable_nolock on CPU c.
CpuDisableNolock(c) ==
    /\ cpus_enabled' = cpus_enabled \ {c}
    /\ svme' = IF c \in cpus_enabled THEN svme \ {c} ELSE svme

-----------------------------------------------------------------------------
(* First and last VM *)

\* on_each_cpu sends its function to the CPUs of cpu_online_mask: a CPU that is
\* coming up is not among them, and nothing here waits for it.
OnEachCpu(kind) ==
    /\ op' = [kind |-> kind, todo |-> Online]
    /\ missed' = missed \cup Starting

\* vmrun_cpu_enable_all up to the point where on_each_cpu has sent its calls;
\* a VM that is not the first only counts itself.
EnableAll ==
    /\ module = "loaded"
    /\ op = NoOp
    /\ vms < MaxVMs
    /\ vmrun_usage_count' = vmrun_usage_count + 1
    /\ \/ /\ vmrun_usage_count' = 1
          /\ cpu_enable_failed' = FALSE
          /\ OnEachCpu("enable")
          /\ UNCHANGED vms
       \/ /\ vmrun_usage_count' # 1
          /\ vms' = vms + 1
          /\ UNCHANGED <<cpu_enable_failed, op, missed>>
    /\ UNCHANGED <<module, cpu_data, leaked, cpus_enabled, svme, cpu_state>>

\* on_each_cpu(vmrun_cpu_enable_nolock) reaches c.
EnableOn(c) ==
    /\ op.kind = "enable"
    /\ c \in op.todo
    /\ op' = [kind |-> op.kind, todo |-> op.todo \ {c}]
    /\ CpuEnableNolock(c)
    /\ UNCHANGED <<module, cpu_data, leaked, vmrun_usage_count, cpu_state, vms, missed>>

\* Mutant: a failed enable returns -EBUSY and keeps its count.
EnableAllDoneKeepsCount ==
    /\ op.kind = "enable"
    /\ op.todo = {}
    /\ vms' = IF cpu_enable_failed THEN vms ELSE vms + 1
    /\ IF cpu_enable_failed THEN OnEachCpu("rollback") ELSE op' = NoOp /\ UNCHANGED missed
    /\ UNCHANGED <<module, cpu_data, leaked, vmrun_usage_count, cpus_enabled,
                   cpu_enable_failed, svme, cpu_state>>

\* Mutant: a failed enable drops its count without disabling the other CPUs.
EnableAllDoneNoRollback ==
    /\ op.kind = "enable"
    /\ op.todo = {}
    /\ vms' = IF cpu_enable_failed THEN vms ELSE vms + 1
    /\ vmrun_usage_count' = IF cpu_enable_failed THEN vmrun_usage_count - 1
                                                 ELSE vmrun_usage_count
    /\ op' = NoOp
    /\ UNCHANGED <<module, cpu_data, leaked, cpus_enabled, cpu_enable_failed,
                   svme, cpu_state, missed>>

\* vmrun_cpu_enable_all after on_each_cpu: success, or the rollback through
\* vmrun_cpu_disable_all_nolock when some CPU failed.
EnableAllDone ==
    /\ op.kind = "enable"
    /\ op.todo = {}
    /\ \/ /\ ~cpu_enable_failed
          /\ vms' = vms + 1
          /\ op' = NoOp
          /\ UNCHANGED <<vmrun_usage_count, missed>>
       \/ /\ cpu_enable_failed
          /\ vmrun_usage_count' = vmrun_usage_count - 1
          /\ IF vmrun_usage_count' = 0 THEN OnEachCpu("rollback")
                                       ELSE op' = NoOp /\ UNCHANGED missed
          /\ UNCHANGED vms
    /\ UNCHANGED <<module, cpu_data, leaked, cpus_enabled, cpu_enable_failed, svme, cpu_state>>

\* Mutant: destroying does not require a VM, the BUG_ON of
\* vmrun_cpu_disable_all_nolock being what stops the count from going negative.
DisableAllUnmatched ==
    /\ module = "loaded"
    /\ op = NoOp
    /\ vms' = vms - 1
    /\ vmrun_usage_count' = vmrun_usage_count - 1
    /\ IF vmrun_usage_count' = 0 THEN OnEachCpu("disable")
                                 ELSE op' = NoOp /\ UNCHANGED missed
    /\ UNCHANGED <<module, cpu_data, leaked, cpus_enabled, cpu_enable_failed, svme, cpu_state>>

\* vmrun_cpu_disable_all, called when a VM is destroyed.
DisableAll ==
    /\ module = "loaded"
    /\ op = NoOp
    /\ vms > 0
    /\ vms' = vms - 1
    /\ vmrun_usage_count' = vmrun_usage_count - 1
    /\ IF vmrun_usage_count' = 0 THEN OnEachCpu("disable")
                                 ELSE op' = NoOp /\ UNCHANGED missed
    /\ UNCHANGED <<module, cpu_data, leaked, cpus_enabled, cpu_enable_failed, svme, cpu_state>>

\* on_each_cpu(vmrun_cpu_disable_nolock) reaches c.
DisableOn(c) ==
    /\ op.kind \in {"disable", "rollback"}
    /\ c \in op.todo
    /\ op' = [kind |-> op.kind, todo |-> op.todo \ {c}]
    /\ CpuDisableNolock(c)
    /\ missed' = IF c \in svme' THEN missed ELSE missed \ {c}
    /\ UNCHANGED <<module, cpu_data, leaked, vmrun_usage_count, cpu_enable_failed,
                   cpu_state, vms>>

\* The caller of on_each_cpu drops vmrun_count_lock.
DisableAllDone ==
    /\ op.kind \in {"disable", "rollback"}
    /\ op.todo = {}
    /\ op' = NoOp
    /\ UNCHANGED <<module, cpu_data, leaked, vmrun_usage_count, cpus_enabled,
                   cpu_enable_failed, svme, cpu_state, vms, missed>>

-----------------------------------------------------------------------------
(* CPU hotplug *)

\* Mutant: a CPU that comes up is not enabled.
CpuStartingIgnored(c) ==
    /\ cpu_state[c] = "offline"
    /\ op = NoOp
    /\ cpu_state' = [cpu_state EXCEPT ![c] = "starting"]
    /\ UNCHANGED <<module, cpu_data, leaked, vmrun_usage_count, cpus_enabled,
                   cpu_enable_failed, svme, op, vms, missed>>

\* CPU_STARTING: vmrun_cpu_enable on the new CPU c, which the kernel has not
\* put in cpu_online_mask yet, so on_each_cpu does not reach it.
CpuStarting(c) ==
    /\ cpu_state[c] = "offline"
    /\ op = NoOp
    /\ cpu_state' = [cpu_state EXCEPT ![c] = "starting"]
    /\ IF module = "loaded" /\ vmrun_usage_count # 0
         THEN CpuEnableNolock(c)
         ELSE UNCHANGED <<cpus_enabled, cpu_enable_failed, svme>>
    /\ UNCHANGED <<module, cpu_data, leaked, vmrun_usage_count, op, vms, missed>>

\* The kernel marks c online.
CpuOnline(c) ==
    /\ cpu_state[c] = "starting"
    /\ cpu_state' = [cpu_state EXCEPT ![c] = "online"]
    /\ UNCHANGED <<module, cpu_data, leaked, vmrun_usage_count, cpus_enabled,
                   cpu_enable_failed, svme, op, vms, missed>>

\* CPU_DYING: vmrun_cpu_disable on c, inside stop_machine; a CPU that goes down
\* loses its EFER.
CpuDying(c) ==
    /\ cpu_state[c] = "online"
    /\ Online # {c}
    /\ op = NoOp
    /\ cpu_state' = [cpu_state EXCEPT ![c] = "offline"]
    /\ svme' = svme \ {c}
    /\ cpus_enabled' = IF module = "loaded" /\ vmrun_usage_count # 0
                         THEN cpus_enabled \ {c}
                         ELSE cpus_enabled
    /\ missed' = IF c \in cpus_enabled' THEN missed ELSE missed \ {c}
    /\ UNCHANGED <<module, cpu_data, leaked, vmrun_usage_count, cpu_enable_failed, op, vms>>

-----------------------------------------------------------------------------
(* Next-state relations and properties *)

\* Calls of user space and the module loader.
Calls ==
    \/ ModuleInit
    \/ \E where \in (SUBSET Online) \ {{}} :
          \/ \E done \in SUBSET CPU : ModuleInitFails(where, done)
          \/ ModuleExit(where)
    \/ EnableAll
    \/ DisableAll

\* The progress of a call that holds vmrun_count_lock.
Progress ==
    \/ \E c \in CPU : EnableOn(c)
    \/ EnableAllDone
    \/ \E c \in CPU : DisableOn(c)
    \/ DisableAllDone

Hotplug == \E c \in CPU : CpuStarting(c) \/ CpuOnline(c) \/ CpuDying(c)

Next == Calls \/ Progress \/ Hotplug
Spec == Init /\ [][Next]_vars

\* The BUG_ON of vmrun_cpu_disable_all_nolock never fires and no count leaks:
\* vmrun_usage_count is the number of live VMs, plus the one being created, also
\* after enables that failed and were rolled back.
UsageCountExact ==
    module = "loaded" =>
        vmrun_usage_count = vms + (IF op.kind = "enable" THEN 1 ELSE 0)

\* cpus_enabled, which decides whether vmrun_cpu_enable_nolock and
\* vmrun_cpu_disable_nolock touch EFER, agrees with EFER.SVME on every CPU but
\* those an on_each_cpu missed.  Such a one may have been left on by the last VM;
\* when it goes down without VMs, CPU_DYING leaves its bit set.
EnabledIffSvme == module = "loaded" => cpus_enabled \ missed = svme \ missed

\* While a VM exists, every online CPU on which SVM can be enabled has it
\* enabled, whatever hotplug did, unless an on_each_cpu missed it: a vCPU thread
\* may execute VMRUN on any of them.
UsersHaveSvm ==
    module = "loaded" /\ op = NoOp /\ vms > 0 => Online \ (Busy \cup missed) \subseteq svme

\* The driver leaves no CPU with SVM on behind, except one that was coming up when
\* on_each_cpu should have reached it: not after the last VM is gone, not after a
\* vmrun_cpu_enable_all that failed on some CPU, and not after the module is
\* unloaded.
IdleIsOff ==
    (module = "loaded" /\ op = NoOp /\ vms = 0) \/ module = "unloaded" => svme \subseteq missed

\* README.md: for VMRUN to execute successfully a lot of CPU state needs to be
\* initialized, "all of which is done by this driver": while a VM exists, SVM is
\* on on every online CPU.
RunsWhereEnabled == module = "loaded" /\ op = NoOp /\ vms > 0 => Online \subseteq svme

\* The comment in vmrun_cpu_unsetup says that its argument and
\* raw_smp_processor_id() are the same CPU: it leaves the data of no CPU behind.
UnsetupFreesAll == \A c \in CPU : <<c, "cpu_unsetup">> \notin leaked

-----------------------------------------------------------------------------
(* What makes the properties inductive *)

Present == {c \in CPU : cpu_state[c] # "offline"}

\* What a call that holds vmrun_count_lock may rely on, and how far it got.
LockHolder ==
    /\ op.kind = "none" => op = NoOp
    /\ op.kind # "none" => /\ module = "loaded"
                           /\ vms = 0
                           /\ op.todo \subseteq Online
                           /\ Starting \subseteq missed
    /\ op.kind = "enable" =>
          /\ vms < MaxVMs
          /\ svme \cap op.todo \subseteq missed
          /\ ~cpu_enable_failed => Online \ op.todo \subseteq svme \cup missed
    /\ op.kind \in {"disable", "rollback"} => svme \subseteq op.todo \cup missed

\* A CPU that is coming up counts as one that VMs may use.
PresentHaveSvm ==
    module = "loaded" /\ op = NoOp /\ vms > 0 => Present \ (Busy \cup missed) \subseteq svme

\* The inductive invariant.
CpuInv ==
    /\ TypeOK
    /\ UsageCountExact
    /\ EnabledIffSvme
    /\ IdleIsOff
    /\ svme \subseteq Present
    /\ PresentHaveSvm
    /\ LockHolder

=============================================================================
