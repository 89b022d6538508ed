---------------------------- MODULE MCCpuEnable ----------------------------
(* Three CPUs, of which c3 cannot be enabled, and up to two VMs. *)
EXTENDS CpuEnable

CONSTANTS c1, c2, c3

MCCPU == {c1, c2, c3}
MCBusy == {c3}
MCNoneBusy == {}
=============================================================================
