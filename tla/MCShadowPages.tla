--------------------------- MODULE MCShadowPages ----------------------------
(* An instance of ShadowPages for TLC.                                     *)
EXTENDS ShadowPages, TLC

CONSTANTS gfn1, gfn2

\* Two roots over one table of the middle level, whose two entries may both lead
\* to the one leaf table, which is also one of the roots.
MCTables ==
    {[gfn |-> gfn1, level |-> 3], [gfn |-> gfn2, level |-> 3],
     [gfn |-> gfn1, level |-> 2], [gfn |-> gfn2, level |-> 1]}

MCInUse == <<{}, {1, 2}, {1}>>

Symmetry == Permutations(Sp) \cup Permutations(Vcpus)

=============================================================================
