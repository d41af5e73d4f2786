---------------------------- MODULE DurableState ----------------------------
(***************************************************************************)
(* What the rest of the engine relies on about node state on disk (FR-E69, *)
(* run-journal.ts): a change of a node in memory reaches the disk before   *)
(* the node changes again, and a restart finds for every node its last     *)
(* state but one at worst, never anything older and never a mixture.       *)
(***************************************************************************)
CONSTANTS Node, Snapshot

VARIABLES mem,   \* the state of the nodes in memory
          disk   \* what a restart would find

vars == <<mem, disk>>

Init == /\ mem \in [Node -> Snapshot]
        /\ disk = mem

Change(n) == /\ mem[n] = disk[n]
             /\ \E s \in Snapshot : mem' = [mem EXCEPT ![n] = s]
             /\ UNCHANGED disk

Persist(n) == /\ disk' = [disk EXCEPT ![n] = mem[n]]
              /\ UNCHANGED mem

Restart == /\ mem' = disk
           /\ UNCHANGED disk

Next == \/ \E n \in Node : Change(n) \/ Persist(n)
        \/ Restart

Spec == Init /\ [][Next]_vars

=============================================================================
