---------------------------- MODULE ExclusiveUse ----------------------------
(* What every claim of this program promises: of the users of one resource (a
   repository's root, an upload session, a merge directory) at most one is
   inside at a time, and one enters only when nobody is. *)
CONSTANT Users   \* those that may want the resource
VARIABLE inside  \* those using it now

Init == inside = {}

Enter(u) ==
    /\ inside = {}
    /\ inside' = {u}

Leave(u) ==
    /\ u \in inside
    /\ inside' = inside \ {u}

Next == \E u \in Users : Enter(u) \/ Leave(u)

Spec == Init /\ [][Next]_inside
=============================================================================
