---------------------------- MODULE MCPageFault ----------------------------
(* Frames, pages, vCPUs and notifiers are interchangeable. *)
EXTENDS PageFault, TLC

Symmetry == Permutations(Gfn) \cup Permutations(Page) \cup Permutations(Vcpu)
                \cup Permutations(Notifier)
=============================================================================
