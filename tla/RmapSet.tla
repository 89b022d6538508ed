------------------------------ MODULE RmapSet ------------------------------
(***************************************************************************)
(* What the reverse maps promise: for every guest frame (or child shadow   *)
(* page) the set of sptes that point to it, and loops that see every       *)
(* member.  A loop has a set of sptes to drop; a drop starts it over.      *)
(***************************************************************************)
CONSTANTS Heads, Sptes, NoHead

VARIABLES
    members,    \* per head: the sptes registered there
    at,         \* the head a loop is running over, or NoHead
    doomed,     \* the sptes that loop drops
    seen        \* the members it has visited since it last started

setVars == <<members, at, doomed, seen>>

SetInit ==
    /\ members = [h \in Heads |-> {}]
    /\ at = NoHead
    /\ doomed = {}
    /\ seen = {}

\* An spte is registered at one head only: a former registration ends.
Registered(s, h) == [g \in Heads |-> IF g = h THEN members[g] \cup {s} ELSE members[g] \ {s}]

Register(s, h) ==
    /\ at = NoHead
    /\ members' = Registered(s, h)
    /\ UNCHANGED <<at, doomed, seen>>

\* The registration that exceeds the threshold starts a loop that drops them all.
RegisterAndRecycle(s, h) ==
    /\ at = NoHead
    /\ members' = Registered(s, h)
    /\ at' = h
    /\ doomed' = members'[h]
    /\ UNCHANGED seen

Remove(s, h) ==
    /\ at = NoHead
    /\ s \in members[h]
    /\ members' = [members EXCEPT ![h] = @ \ {s}]
    /\ UNCHANGED <<at, doomed, seen>>

Begin(h, drop) ==
    /\ at = NoHead
    /\ at' = h
    /\ doomed' = drop
    /\ UNCHANGED <<members, seen>>

Visit(s) ==
    /\ at # NoHead
    /\ s \in members[at] \ (seen \cup doomed)
    /\ seen' = seen \cup {s}
    /\ UNCHANGED <<members, at, doomed>>

Drop(s) ==
    /\ at # NoHead
    /\ s \in (members[at] \cap doomed) \ seen
    /\ members' = [members EXCEPT ![at] = @ \ {s}]
    /\ seen' = {}
    /\ UNCHANGED <<at, doomed>>

\* A loop ends when it has seen every member and none of them was to be dropped.
End ==
    /\ at # NoHead
    /\ seen = members[at]
    /\ at' = NoHead
    /\ doomed' = {}
    /\ seen' = {}
    /\ UNCHANGED members

SetNext ==
    \/ \E s \in Sptes, h \in Heads : Register(s, h) \/ RegisterAndRecycle(s, h) \/ Remove(s, h)
    \/ \E h \in Heads : \E drop \in SUBSET members[h] : Begin(h, drop)
    \/ \E s \in Sptes : Visit(s) \/ Drop(s)
    \/ End

SetSpec == SetInit /\ [][SetNext]_setVars
=============================================================================
