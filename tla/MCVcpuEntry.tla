---------------------------- MODULE MCVcpuEntry ----------------------------
(* Two vCPUs migrating between two CPUs with a few ASIDs each.  CPUs, vCPUs  *)
(* and register values are interchangeable, and only invariants are checked. *)
EXTENDS VcpuEntry, TLC

Symmetry == Permutations(CPU) \cup Permutations(Vcpu) \cup Permutations(Sregs)
=============================================================================
