----------------------------- MODULE MCMemslots -----------------------------
(* Three slots over three frames in address space 0 (dirty logging for slot 0 *)
(* only) and one slot of address space 1.                                     *)
EXTENDS Memslots

MCSpaces == {0, 1}
MCOneSpace == {0}

MCRequests ==
    {q \in [as : {0}, id : 0 .. 2, base : 0 .. 2, n : 0 .. 2, log : BOOLEAN] :
        /\ q.base + q.n <= 3
        /\ q.n = 0 => q.base = 0 /\ ~q.log
        /\ q.log => q.id = 0 /\ q.n = 1}
    \cup [as : {1}, id : {0}, base : {0}, n : 0 .. 1, log : {FALSE}]

\* One slot that is created and has its dirty logging switched on and off.
MCToggle == [as : {0}, id : {0}, base : {1}, n : {1}, log : BOOLEAN]
=============================================================================
