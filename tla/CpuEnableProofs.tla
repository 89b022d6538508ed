-------------------------- MODULE CpuEnableProofs --------------------------
(* CpuInv is inductive for Spec, for any CPUs and number of VMs. *)
EXTENDS CpuEnable, TLAPS

LEMMA InitInv == Init => CpuInv
<1> SUFFICES ASSUME Init PROVE CpuInv
  OBVIOUS
<1>1. TypeOK
  <2>1. cpu_state \in [CPU -> {"offline", "starting", "online"}]
    BY DEF Init
  <2>2. op \in [kind : OpKinds, todo : SUBSET CPU]
    BY DEF Init, NoOp, OpKinds
  <2>3. vms \in 0 .. MaxVMs /\ vmrun_usage_count \in Nat
    BY MaxVMsAssumption DEF Init
  <2> QED
    BY <2>1, <2>2, <2>3 DEF Init, TypeOK
<1>2. LockHolder
  BY DEF Init, LockHolder, NoOp
<1> QED
  BY <1>1, <1>2 DEF Init, CpuInv, UsageCountExact, EnabledIffSvme, IdleIsOff,
                    PresentHaveSvm, NoOp

\* Where the SVM bit can be set, as the parts of CpuInv use it.
LEMMA SvmePresent == CpuInv => svme \subseteq Online \cup Starting
  BY DEF CpuInv, TypeOK, Present, Online, Starting

LEMMA ModuleInitInv ==
  ASSUME CpuInv, ModuleInit PROVE CpuInv'
<1>1. svme \subseteq missed /\ op.kind = "none" /\ op = NoOp
  BY DEF CpuInv, ModuleInit, IdleIsOff, LockHolder, TypeOK, OpKinds
<1>2. TypeOK'
  BY DEF ModuleInit, CpuInv, TypeOK
<1>3. LockHolder'
  BY <1>1 DEF ModuleInit, LockHolder
<1>4. EnabledIffSvme' /\ IdleIsOff'
  BY <1>1 DEF ModuleInit, EnabledIffSvme, IdleIsOff
<1>5. (svme \subseteq Present)'
  BY DEF ModuleInit, CpuInv, Present
<1> QED
  BY <1>1, <1>2, <1>3, <1>4, <1>5
  DEF ModuleInit, CpuInv, UsageCountExact, PresentHaveSvm, NoOp

LEMMA ModuleInitFailsInv ==
  ASSUME CpuInv, NEW where, NEW done \in SUBSET CPU, ModuleInitFails(where, done)
  PROVE  CpuInv'
<1>1. leaked' \subseteq CPU \X {"cpu_setup", "cpu_unsetup"}
  <2>1. UnsetupLeaves(done, where) \subseteq CPU \X {"cpu_setup", "cpu_unsetup"}
    BY DEF UnsetupLeaves
  <2>2. done \X {"cpu_setup"} \subseteq CPU \X {"cpu_setup", "cpu_unsetup"}
    OBVIOUS
  <2>3. leaked \subseteq CPU \X {"cpu_setup", "cpu_unsetup"}
    BY DEF CpuInv, TypeOK
  <2>4. CASE done = CPU
    BY <2>1, <2>3, <2>4 DEF ModuleInitFails
  <2>5. CASE done # CPU
    BY <2>2, <2>3, <2>5 DEF ModuleInitFails
  <2> QED BY <2>4, <2>5
<1>2. TypeOK'
  BY <1>1 DEF CpuInv, TypeOK, ModuleInitFails
<1> QED
  BY <1>2 DEF ModuleInitFails, CpuInv, UsageCountExact, EnabledIffSvme, IdleIsOff,
              Present, PresentHaveSvm, LockHolder, Starting, Online

\* Unloading switches SVM off on the online CPUs whose bit is set; the others on
\* which it is on were missed before, or are coming up.
LEMMA ModuleExitInv ==
  ASSUME CpuInv, NEW where, ModuleExit(where) PROVE CpuInv'
<1>1. /\ svme' = svme \ (cpus_enabled \cap Online)
      /\ missed' = (missed \ (Online \ svme')) \cup Starting
      /\ module' = "unloaded" /\ op' = NoOp /\ UNCHANGED cpu_state
  BY DEF ModuleExit
<1>2. svme' \subseteq missed'
  <2>1. cpus_enabled \ missed = svme \ missed
    BY DEF ModuleExit, CpuInv, EnabledIffSvme
  <2> QED BY <1>1, <2>1, SvmePresent
<1>3. leaked' \subseteq CPU \X {"cpu_setup", "cpu_unsetup"}
  <2>1. UnsetupLeaves(cpu_data, where) \subseteq CPU \X {"cpu_setup", "cpu_unsetup"}
    BY DEF UnsetupLeaves, CpuInv, TypeOK
  <2> QED BY <2>1 DEF ModuleExit, CpuInv, TypeOK
<1>4. missed' \subseteq CPU
  BY <1>1 DEF CpuInv, TypeOK, Starting
<1>5. TypeOK'
  BY <1>3, <1>4 DEF CpuInv, TypeOK, ModuleExit
<1>6. LockHolder'
  BY <1>1 DEF LockHolder, NoOp
<1>7. (svme \subseteq Present)'
  BY <1>1 DEF CpuInv, Present
<1> QED
  BY <1>1, <1>2, <1>5, <1>6, <1>7
  DEF CpuInv, UsageCountExact, EnabledIffSvme, IdleIsOff, PresentHaveSvm

LEMMA EnableAllInv ==
  ASSUME CpuInv, EnableAll PROVE CpuInv'
<1>1. vmrun_usage_count = vms /\ vms \in 0 .. MaxVMs /\ vms < MaxVMs /\ module = "loaded"
  BY DEF EnableAll, CpuInv, UsageCountExact, NoOp, TypeOK
<1>2. UNCHANGED <<module, cpu_data, leaked, cpus_enabled, svme, cpu_state>>
  BY DEF EnableAll
<1>3. svme' \subseteq Present' /\ Present' = Present /\ Online' = Online /\ Starting' = Starting
  BY <1>2 DEF CpuInv, Present, Online, Starting
<1>4. CASE vms = 0
  <2>1. /\ op' = [kind |-> "enable", todo |-> Online] /\ vms' = 0 /\ vmrun_usage_count' = 1
        /\ missed' = missed \cup Starting /\ cpu_enable_failed' = FALSE
    BY <1>1, <1>4 DEF EnableAll, OnEachCpu
  <2>2. svme \subseteq missed
    BY <1>1, <1>4 DEF CpuInv, IdleIsOff, EnableAll
  <2>3. LockHolder'
    BY <1>1, <1>2, <1>3, <1>4, <2>1, <2>2 DEF LockHolder
  <2>4. TypeOK'
    <3>1. op' \in [kind : OpKinds, todo : SUBSET CPU] /\ missed' \subseteq CPU
      BY <2>1 DEF CpuInv, TypeOK, OpKinds, Online, Starting
    <3>2. vms' \in 0 .. MaxVMs /\ vmrun_usage_count' \in Nat
      BY <2>1, MaxVMsAssumption
    <3>3. cpu_enable_failed' \in BOOLEAN
      BY <2>1
    <3> QED BY <1>2, <3>1, <3>2, <3>3 DEF CpuInv, TypeOK
  <2>5. EnabledIffSvme'
    BY <1>2, <2>1 DEF CpuInv, EnabledIffSvme
  <2> QED
    BY <1>1, <1>2, <1>3, <2>1, <2>3, <2>4, <2>5
    DEF CpuInv, UsageCountExact, IdleIsOff, PresentHaveSvm, NoOp
<1>5. CASE vms # 0
  <2>1. /\ op' = NoOp /\ vms' = vms + 1 /\ vmrun_usage_count' = vms + 1
        /\ UNCHANGED <<missed, cpu_enable_failed>>
    BY <1>1, <1>5 DEF EnableAll
  <2>2. Present \ (Busy \cup missed) \subseteq svme
    BY <1>1, <1>5 DEF EnableAll, CpuInv, PresentHaveSvm
  <2>3. TypeOK'
    BY <1>1, <1>2, <2>1, MaxVMsAssumption DEF CpuInv, TypeOK, NoOp, OpKinds
  <2> QED
    BY <1>1, <1>2, <1>3, <2>1, <2>2, <2>3
    DEF CpuInv, UsageCountExact, EnabledIffSvme, IdleIsOff, PresentHaveSvm, NoOp, LockHolder
<1> QED
  BY <1>4, <1>5

\* vmrun_cpu_enable_nolock moves the bit and EFER of c together, unless c was
\* missed, and fails on a CPU that it does not enable.
LEMMA EnableOnInv ==
  ASSUME CpuInv, NEW c \in CPU, EnableOn(c) PROVE CpuInv'
<1>1. /\ op.kind = "enable" /\ c \in op.todo /\ module = "loaded" /\ vms = 0
      /\ cpus_enabled \ missed = svme \ missed
      /\ c \notin missed => c \notin svme
      /\ c \in Present
  BY DEF EnableOn, CpuInv, LockHolder, EnabledIffSvme, Online, Present
<1>2. op' = [kind |-> "enable", todo |-> op.todo \ {c}]
  BY <1>1 DEF EnableOn
<1>3. UNCHANGED <<module, cpu_data, leaked, vmrun_usage_count, cpu_state, vms, missed>>
  BY DEF EnableOn
<1>4. /\ cpus_enabled' \ missed = svme' \ missed
      /\ svme \subseteq svme' /\ svme' \subseteq svme \cup {c}
      /\ cpus_enabled' \subseteq cpus_enabled \cup {c}
      /\ cpu_enable_failed' \in BOOLEAN
      /\ ~cpu_enable_failed' => ~cpu_enable_failed /\ c \in svme' \cup missed
  <2>1. cpu_enable_failed \in BOOLEAN
    BY DEF CpuInv, TypeOK
  <2>2. CASE c \in cpus_enabled /\ UNCHANGED <<cpus_enabled, cpu_enable_failed, svme>>
    BY <1>1, <2>1, <2>2
  <2>3. CASE cpu_enable_failed' = TRUE /\ UNCHANGED <<cpus_enabled, svme>>
    BY <1>1, <2>3
  <2>4. CASE /\ cpus_enabled' = cpus_enabled \cup {c} /\ svme' = svme \cup {c}
             /\ UNCHANGED cpu_enable_failed
    BY <1>1, <2>1, <2>4
  <2> QED BY <2>2, <2>3, <2>4 DEF EnableOn, CpuEnableNolock
<1>5. TypeOK'
  BY <1>1, <1>2, <1>3, <1>4 DEF CpuInv, TypeOK
<1>6. LockHolder'
  <2>1. Online' = Online /\ Starting' = Starting
    BY <1>3 DEF Online, Starting
  <2>2. /\ vms < MaxVMs /\ op.todo \subseteq Online /\ Starting \subseteq missed
        /\ svme \cap op.todo \subseteq missed
        /\ ~cpu_enable_failed => Online \ op.todo \subseteq svme \cup missed
    BY <1>1 DEF CpuInv, LockHolder
  <2>3. op'.kind = "enable" /\ op'.todo = op.todo \ {c}
    BY <1>2
  <2>4. svme' \cap op'.todo \subseteq missed
    BY <1>4, <2>2, <2>3
  <2>5. ~cpu_enable_failed' => Online \ op'.todo \subseteq svme' \cup missed
    BY <1>4, <2>2, <2>3
  <2> QED
    BY <1>1, <1>3, <2>1, <2>2, <2>3, <2>4, <2>5 DEF LockHolder
<1>7. (svme \subseteq Present)'
  BY <1>1, <1>3, <1>4 DEF CpuInv, Present
<1> QED
  BY <1>1, <1>2, <1>3, <1>4, <1>5, <1>6, <1>7
  DEF CpuInv, UsageCountExact, EnabledIffSvme, IdleIsOff, PresentHaveSvm, NoOp

\* The first VM exists once every online CPU was reached without a failure;
\* otherwise the count goes back to zero and the rollback starts.
LEMMA EnableAllDoneInv ==
  ASSUME CpuInv, EnableAllDone PROVE CpuInv'
<1>1. /\ op.kind = "enable" /\ op.todo = {} /\ module = "loaded" /\ Starting \subseteq missed
      /\ vms = 0 /\ vms < MaxVMs /\ vmrun_usage_count = 1
  BY DEF EnableAllDone, CpuInv, LockHolder, UsageCountExact, TypeOK
<1>2. UNCHANGED <<module, cpu_data, leaked, cpus_enabled, cpu_enable_failed, svme, cpu_state>>
  BY DEF EnableAllDone
<1>3. /\ svme' \subseteq Present' /\ Present' = Present /\ Online' = Online /\ Starting' = Starting
      /\ Present \subseteq Online \cup Starting
  BY <1>2 DEF CpuInv, TypeOK, Present, Online, Starting
<1>4. CASE ~cpu_enable_failed
  <2>1. vms' = 1 /\ op' = NoOp /\ vmrun_usage_count' = 1 /\ UNCHANGED missed
    BY <1>1, <1>4 DEF EnableAllDone
  <2>2. Online \subseteq svme \cup missed
    BY <1>1, <1>4 DEF CpuInv, LockHolder
  <2>3. TypeOK'
    BY <1>1, <1>2, <2>1, MaxVMsAssumption DEF CpuInv, TypeOK, NoOp, OpKinds
  <2>4. PresentHaveSvm'
    BY <1>1, <1>2, <1>3, <2>1, <2>2 DEF PresentHaveSvm
  <2> QED
    BY <1>1, <1>2, <1>3, <2>1, <2>3, <2>4
    DEF CpuInv, UsageCountExact, EnabledIffSvme, IdleIsOff, LockHolder, NoOp
<1>5. CASE cpu_enable_failed
  <2>1. /\ vms' = 0 /\ vmrun_usage_count' = 0 /\ missed' = missed \cup Starting
        /\ op' = [kind |-> "rollback", todo |-> Online]
    BY <1>1, <1>5 DEF EnableAllDone, OnEachCpu
  <2>2. TypeOK'
    BY <1>1, <1>2, <2>1, MaxVMsAssumption DEF CpuInv, TypeOK, OpKinds, Online, Starting
  <2>3. LockHolder'
    BY <1>1, <1>2, <1>3, <2>1, SvmePresent DEF LockHolder
  <2>4. EnabledIffSvme'
    BY <1>2, <2>1 DEF CpuInv, EnabledIffSvme
  <2> QED
    BY <1>1, <1>2, <1>3, <2>1, <2>2, <2>3, <2>4
    DEF CpuInv, UsageCountExact, IdleIsOff, PresentHaveSvm, NoOp
<1>6. cpu_enable_failed \in BOOLEAN
  BY DEF CpuInv, TypeOK
<1> QED
  BY <1>4, <1>5, <1>6

LEMMA DisableAllInv ==
  ASSUME CpuInv, DisableAll PROVE CpuInv'
<1>1. /\ vmrun_usage_count = vms /\ vms \in 0 .. MaxVMs /\ vms > 0 /\ module = "loaded"
      /\ op = NoOp
  BY DEF DisableAll, CpuInv, UsageCountExact, NoOp, TypeOK
<1>2. UNCHANGED <<module, cpu_data, leaked, cpus_enabled, cpu_enable_failed, svme, cpu_state>>
  BY DEF DisableAll
<1>3. vms' = vms - 1 /\ vmrun_usage_count' = vms - 1
  BY <1>1 DEF DisableAll
<1>4. svme' \subseteq Present' /\ Present' = Present /\ Online' = Online /\ Starting' = Starting
  BY <1>2 DEF CpuInv, Present, Online, Starting
<1>5. CASE vms = 1
  <2>1. /\ op' = [kind |-> "disable", todo |-> Online] /\ vms' = 0 /\ vmrun_usage_count' = 0
        /\ missed' = missed \cup Starting
    BY <1>1, <1>3, <1>5 DEF DisableAll, OnEachCpu
  <2>2. TypeOK'
    BY <1>1, <1>2, <2>1, MaxVMsAssumption DEF CpuInv, TypeOK, OpKinds, Online, Starting
  <2>3. LockHolder'
    BY <1>1, <1>2, <1>4, <2>1, SvmePresent DEF LockHolder
  <2>4. EnabledIffSvme'
    BY <1>2, <2>1 DEF CpuInv, EnabledIffSvme
  <2> QED
    BY <1>1, <1>2, <1>4, <2>1, <2>2, <2>3, <2>4
    DEF CpuInv, UsageCountExact, IdleIsOff, PresentHaveSvm, NoOp
<1>6. CASE vms # 1
  <2>1. op' = NoOp /\ vms' > 0 /\ vms' \in 0 .. MaxVMs /\ UNCHANGED missed
    BY <1>1, <1>3, <1>6, MaxVMsAssumption DEF DisableAll
  <2>2. TypeOK'
    BY <1>1, <1>2, <1>3, <2>1 DEF CpuInv, TypeOK
  <2> QED
    BY <1>1, <1>2, <1>3, <1>4, <2>1, <2>2
    DEF CpuInv, UsageCountExact, EnabledIffSvme, IdleIsOff, PresentHaveSvm, LockHolder, NoOp
<1> QED
  BY <1>5, <1>6

\* vmrun_cpu_disable_nolock leaves SVM on only where the bit was clear, and that
\* CPU stays among the missed ones.
LEMMA DisableOnInv ==
  ASSUME CpuInv, NEW c \in CPU, DisableOn(c) PROVE CpuInv'
<1>1. /\ op.kind \in {"disable", "rollback"} /\ module = "loaded" /\ vms = 0
      /\ cpus_enabled \ missed = svme \ missed
      /\ svme \subseteq op.todo \cup missed /\ c \in op.todo
      /\ op.todo \subseteq Online /\ Starting \subseteq missed
  BY DEF DisableOn, CpuInv, LockHolder, EnabledIffSvme
<1>2. /\ op' = [kind |-> op.kind, todo |-> op.todo \ {c}]
      /\ cpus_enabled' = cpus_enabled \ {c}
      /\ svme' = IF c \in cpus_enabled THEN svme \ {c} ELSE svme
      /\ missed' = IF c \in svme' THEN missed ELSE missed \ {c}
  BY DEF DisableOn, CpuDisableNolock
<1>3. UNCHANGED <<module, cpu_data, leaked, vmrun_usage_count, cpu_enable_failed,
                  cpu_state, vms>>
  BY DEF DisableOn
<1>4. cpus_enabled' \ missed' = svme' \ missed'
  BY <1>1, <1>2
<1>5. svme' \subseteq (op.todo \ {c}) \cup missed'
  BY <1>1, <1>2
<1>6. TypeOK'
  BY <1>1, <1>2, <1>3 DEF CpuInv, TypeOK, OpKinds
<1>7. LockHolder'
  <2>1. Online' = Online /\ Starting' = Starting /\ c \notin Starting
    BY <1>1, <1>3 DEF Online, Starting
  <2> QED BY <1>1, <1>2, <1>3, <1>5, <2>1 DEF LockHolder
<1>8. (svme \subseteq Present)'
  BY <1>2, <1>3 DEF CpuInv, Present
<1> QED
  BY <1>1, <1>2, <1>3, <1>4, <1>6, <1>7, <1>8
  DEF CpuInv, UsageCountExact, EnabledIffSvme, IdleIsOff, PresentHaveSvm, NoOp

LEMMA DisableAllDoneInv ==
  ASSUME CpuInv, DisableAllDone PROVE CpuInv'
<1>1. module = "loaded" /\ vms = 0 /\ svme \subseteq missed /\ op.kind # "enable"
  BY DEF DisableAllDone, CpuInv, LockHolder
<1>2. TypeOK'
  BY DEF DisableAllDone, CpuInv, TypeOK, NoOp, OpKinds
<1>3. (svme \subseteq Present)'
  BY DEF DisableAllDone, CpuInv, Present
<1> QED
  BY <1>1, <1>2, <1>3
  DEF DisableAllDone, CpuInv, UsageCountExact, EnabledIffSvme, IdleIsOff, PresentHaveSvm,
      LockHolder, NoOp

\* CPU_STARTING enables the CPU if, and only if, there are VMs.
LEMMA CpuStartingInv ==
  ASSUME CpuInv, NEW c \in CPU, CpuStarting(c) PROVE CpuInv'
<1>1. /\ op = NoOp /\ cpu_state[c] = "offline" /\ c \notin svme
      /\ module = "loaded" => /\ cpus_enabled \ missed = svme \ missed
                              /\ vmrun_usage_count = vms
  BY DEF CpuStarting, CpuInv, Present, EnabledIffSvme, UsageCountExact, NoOp, TypeOK
<1>2. UNCHANGED <<module, cpu_data, leaked, vmrun_usage_count, op, vms, missed>>
  BY DEF CpuStarting
<1>3. /\ cpu_state' \in [CPU -> {"offline", "starting", "online"}]
      /\ Present' = Present \cup {c}
  BY DEF CpuStarting, CpuInv, TypeOK, Present
<1>4. LockHolder'
  BY <1>1, <1>2 DEF LockHolder, NoOp
<1>5. CASE module = "loaded" /\ vms # 0
  <2>1. CpuEnableNolock(c) /\ vms > 0 /\ Present \ (Busy \cup missed) \subseteq svme
    BY <1>1, <1>5 DEF CpuStarting, CpuInv, TypeOK, PresentHaveSvm
  <2>2. \/ c \in missed \cup Busy /\ UNCHANGED <<cpus_enabled, svme>> /\ cpu_enable_failed' \in BOOLEAN
        \/ /\ cpus_enabled' = cpus_enabled \cup {c} /\ svme' = svme \cup {c}
           /\ cpu_enable_failed' \in BOOLEAN
    <3>1. cpu_enable_failed \in BOOLEAN
      BY DEF CpuInv, TypeOK
    <3> QED BY <1>1, <1>5, <2>1, <3>1 DEF CpuEnableNolock
  <2>3. TypeOK'
    BY <1>2, <1>3, <2>2 DEF CpuInv, TypeOK
  <2>4. /\ cpus_enabled' \ missed' = svme' \ missed' /\ svme' \subseteq Present'
        /\ Present' \ (Busy \cup missed') \subseteq svme'
    BY <1>1, <1>2, <1>3, <1>5, <2>1, <2>2 DEF CpuInv
  <2> QED
    BY <1>1, <1>2, <1>4, <1>5, <2>1, <2>3, <2>4
    DEF CpuInv, UsageCountExact, EnabledIffSvme, IdleIsOff, PresentHaveSvm, NoOp
<1>6. CASE ~(module = "loaded" /\ vms # 0)
  <2>1. UNCHANGED <<cpus_enabled, cpu_enable_failed, svme>>
    BY <1>1, <1>6 DEF CpuStarting
  <2>2. TypeOK'
    BY <1>2, <1>3, <2>1 DEF CpuInv, TypeOK
  <2> QED
    BY <1>1, <1>2, <1>3, <1>4, <1>6, <2>1, <2>2
    DEF CpuInv, UsageCountExact, EnabledIffSvme, IdleIsOff, PresentHaveSvm, NoOp
<1> QED
  BY <1>5, <1>6

\* A CPU that comes online while a call holds the lock is one it missed.
LEMMA CpuOnlineInv ==
  ASSUME CpuInv, NEW c \in CPU, CpuOnline(c) PROVE CpuInv'
<1>1. /\ Present' = Present /\ cpu_state' \in [CPU -> {"offline", "starting", "online"}]
      /\ Online' = Online \cup {c} /\ Starting' \subseteq Starting /\ c \in Starting
  BY DEF CpuOnline, CpuInv, TypeOK, Present, Online, Starting
<1>2. UNCHANGED <<module, cpu_data, leaked, vmrun_usage_count, cpus_enabled,
                  cpu_enable_failed, svme, op, vms, missed>>
  BY DEF CpuOnline
<1>3. TypeOK'
  BY <1>1, <1>2 DEF CpuInv, TypeOK
<1>4. LockHolder'
  <2>1. LockHolder
    BY DEF CpuInv
  <2>2. CASE op.kind = "none"
    BY <1>2, <2>1, <2>2 DEF LockHolder
  <2>3. CASE op.kind # "none"
    <3>1. c \in missed /\ op.todo \subseteq Online' /\ Starting' \subseteq missed
      BY <1>1, <2>1, <2>3 DEF LockHolder
    <3> QED BY <1>1, <1>2, <2>1, <2>3, <3>1 DEF LockHolder
  <2> QED BY <2>2, <2>3
<1> QED
  BY <1>1, <1>2, <1>3, <1>4
  DEF CpuInv, UsageCountExact, EnabledIffSvme, IdleIsOff, PresentHaveSvm

\* CPU_DYING clears the bit when there are VMs; when there are none it is clear
\* already, or the CPU was missed and its bit stays behind.
LEMMA CpuDyingInv ==
  ASSUME CpuInv, NEW c \in CPU, CpuDying(c) PROVE CpuInv'
<1>1. /\ op = NoOp /\ svme' = svme \ {c}
      /\ missed' = IF c \in cpus_enabled' THEN missed ELSE missed \ {c}
      /\ module = "loaded" => vmrun_usage_count = vms
  BY DEF CpuDying, CpuInv, UsageCountExact, NoOp, TypeOK
<1>2. Present' = Present \ {c} /\ cpu_state' \in [CPU -> {"offline", "starting", "online"}]
  BY DEF CpuDying, CpuInv, TypeOK, Present
<1>3. UNCHANGED <<module, cpu_data, leaked, vmrun_usage_count, cpu_enable_failed, op, vms>>
  BY DEF CpuDying
<1>4. module = "loaded" => cpus_enabled' \ missed' = svme' \ missed'
  <2>1. CASE module = "loaded" /\ vms # 0
    BY <1>1, <2>1 DEF CpuDying, CpuInv, EnabledIffSvme
  <2>2. CASE module = "loaded" /\ vms = 0
    BY <1>1, <2>2 DEF CpuDying, CpuInv, EnabledIffSvme, IdleIsOff
  <2> QED BY <2>1, <2>2
<1>5. cpus_enabled' \subseteq CPU /\ missed' \subseteq CPU
  BY DEF CpuDying, CpuInv, TypeOK
<1>6. TypeOK' /\ LockHolder'
  BY <1>1, <1>2, <1>3, <1>5 DEF CpuInv, TypeOK, LockHolder, NoOp
<1> QED
  BY <1>1, <1>2, <1>3, <1>4, <1>6
  DEF CpuInv, UsageCountExact, EnabledIffSvme, IdleIsOff, PresentHaveSvm

LEMMA NextInv == CpuInv /\ [Next]_vars => CpuInv'
<1> SUFFICES ASSUME CpuInv, [Next]_vars PROVE CpuInv'
  OBVIOUS
<1>1. CASE Calls
  BY <1>1, ModuleInitInv, ModuleInitFailsInv, ModuleExitInv, EnableAllInv, DisableAllInv
  DEF Calls
<1>2. CASE Progress
  BY <1>2, EnableOnInv, EnableAllDoneInv, DisableOnInv, DisableAllDoneInv DEF Progress
<1>3. CASE Hotplug
  BY <1>3, CpuStartingInv, CpuOnlineInv, CpuDyingInv DEF Hotplug
<1>4. CASE UNCHANGED vars
  BY <1>4 DEF vars, CpuInv, TypeOK, UsageCountExact, EnabledIffSvme, IdleIsOff, Present,
              PresentHaveSvm, LockHolder, Starting, Online
<1> QED
  BY <1>1, <1>2, <1>3, <1>4 DEF Next

LEMMA CpuAlways == Spec => []CpuInv
  BY InitInv, NextInv, PTL DEF Spec

\* The bookkeeping of the driver keeps its types.
THEOREM CpuTypeOK == Spec => []TypeOK
<1>1. CpuInv => TypeOK
  BY DEF CpuInv
<1> QED BY <1>1, CpuAlways, PTL

\* vmrun_usage_count counts the VMs exactly, so that the BUG_ON of
\* vmrun_cpu_disable_all_nolock cannot fire.
THEOREM UsageCount == Spec => []UsageCountExact
<1>1. CpuInv => UsageCountExact
  BY DEF CpuInv
<1> QED BY <1>1, CpuAlways, PTL

\* cpus_enabled agrees with EFER.SVME while the module is loaded, on every CPU but
\* those that were coming up during an on_each_cpu (missed).
THEOREM EnabledMask == Spec => []EnabledIffSvme
<1>1. CpuInv => EnabledIffSvme
  BY DEF CpuInv
<1> QED BY <1>1, CpuAlways, PTL

\* A VM finds SVM enabled on every online CPU that can enable it and was not coming
\* up during an on_each_cpu.
THEOREM SvmForUsers == Spec => []UsersHaveSvm
<1>1. CpuInv => UsersHaveSvm
  BY DEF CpuInv, UsersHaveSvm, PresentHaveSvm, Online, Present
<1> QED BY <1>1, CpuAlways, PTL

\* The last VM, a failed vmrun_cpu_enable_all and vmrun_exit leave SVM off on every
\* CPU but those that were coming up during an on_each_cpu.
THEOREM SvmOffWhenIdle == Spec => []IdleIsOff
<1>1. CpuInv => IdleIsOff
  BY DEF CpuInv
<1> QED BY <1>1, CpuAlways, PTL

=============================================================================
