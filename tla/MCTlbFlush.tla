---------------------------- MODULE MCTlbFlush -----------------------------
(* The smallest instance: one frame, one vCPU, one notifier. *)
EXTENDS ShadowTlb
=============================================================================
