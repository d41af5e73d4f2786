---------------------------- MODULE RunContract ----------------------------
(***************************************************************************)
(* What a host may rely on of one run, whatever the workflow is            *)
(* (Engine.run and Engine.runWithLock, documents FR-E34, FR-E97, FR-E99):  *)
(* the graph's verdict is passed once per attempt and only when nothing is *)
(* working any more, the nodes that wait for the verdict work only after   *)
(* it, and the record the attempt leaves agrees with the verdict.  A crash *)
(* may end an attempt at any moment, without a record.                     *)
(***************************************************************************)
CONSTANT Worker

VARIABLES phase,    \* what the attempt is doing
          working,  \* the nodes at work
          waits,    \* the nodes that wait for the verdict
          verdict,  \* the verdict on the graph
          record    \* the terminal record of this attempt

vars == <<phase, working, waits, verdict, record>>

Phases   == {"off", "graph", "judged", "outcome"}
Verdicts == {"pending", "success", "failure"}
Records  == {"none", "run_completed", "run_failed", "run_aborted"}

\* The records that may follow a verdict.
RecordsFor(v) == CASE v = "success" -> {"run_completed"}
                   [] v = "failure" -> {"run_failed", "run_aborted"}
                   [] v = "pending" -> {}

Init == /\ phase = "off"
        /\ working = {}
        /\ waits \subseteq Worker
        /\ verdict = "pending"
        /\ record = "none"

\* An attempt begins: nothing is known about it yet.
Boot == /\ phase = "off"
        /\ phase' = "graph"
        /\ verdict' = "pending"
        /\ record' = "none"
        /\ UNCHANGED <<working, waits>>

\* An attempt is refused at once: its budget is already spent.
Refuse == /\ phase = "off"
          /\ verdict' = "pending"
          /\ record' = "run_failed"
          /\ UNCHANGED <<phase, working, waits>>

\* The nodes that wait work in the outcome phase, the others in the graph phase.
Start(n) == /\ phase = IF n \in waits THEN "outcome" ELSE "graph"
            /\ working' = working \cup {n}
            /\ UNCHANGED <<phase, waits, verdict, record>>

Stop(n) == /\ n \in working
           /\ working' = working \ {n}
           /\ UNCHANGED <<phase, waits, verdict, record>>

Judge == /\ phase = "graph"
         /\ working = {}
         /\ verdict' \in {"success", "failure"}
         /\ phase' = "judged"
         /\ UNCHANGED <<working, waits, record>>

OpenOutcome == /\ phase = "judged"
               /\ phase' = "outcome"
               /\ UNCHANGED <<working, waits, verdict, record>>

Publish == /\ phase \in {"judged", "outcome"}
           /\ working = {}
           /\ record' \in RecordsFor(verdict)
           /\ phase' = "off"
           /\ UNCHANGED <<working, waits, verdict>>

\* The attempt ends without a record: a crash, or an error nothing catches.
Die == /\ phase # "off"
       /\ phase' = "off"
       /\ working' = {}
       /\ UNCHANGED <<waits, verdict, record>>

Next == \/ Boot \/ Refuse \/ Judge \/ OpenOutcome \/ Publish \/ Die
        \/ \E n \in Worker : Start(n) \/ Stop(n)

Spec == Init /\ [][Next]_vars

=============================================================================
