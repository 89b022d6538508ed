--------------------------- MODULE MCVmLifecycle ----------------------------
(* An instance of VmLifecycle for TLC.                                     *)
EXTENDS VmLifecycle

=============================================================================
