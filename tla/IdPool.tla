------------------------------- MODULE IdPool -------------------------------
(***************************************************************************)
(* What the id allocators of all the processes of a host promise together: *)
(* one pool of ids, each held by at most one allocator at a time, and the  *)
(* ids of a process that dies back in the pool.                            *)
(***************************************************************************)
CONSTANTS Allocs, Ids

VARIABLE held   \* [Allocs -> the ids the allocator has handed out]

Init == held = [a \in Allocs |-> {}]

Take(a, id) ==
  /\ \A b \in Allocs : id \notin held[b]
  /\ held' = [held EXCEPT ![a] = held[a] \cup {id}]

Give(a, id) == held' = [held EXCEPT ![a] = held[a] \ {id}]

Die(dead) == held' = [a \in Allocs |-> IF a \in dead THEN {} ELSE held[a]]

Next ==
  \/ \E a \in Allocs, id \in Ids : Take(a, id) \/ Give(a, id)
  \/ \E dead \in SUBSET Allocs : Die(dead)

Spec == Init /\ [][Next]_held

=============================================================================
