-------------------------- MODULE SchedulerProofs --------------------------
(***************************************************************************)
(* Proofs about Scheduler, for every set of nodes, of groups and of plans  *)
(* and every bound on the attempts.                                        *)
(***************************************************************************)
EXTENDS Scheduler, FiniteSetTheorems, TLAPS

(* The flags stay Boolean whatever the engine or a task does. *)
LEMMA FlagsStep == FlagsOK /\ [Next]_vars => FlagsOK'
<1> SUFFICES ASSUME FlagsOK, [Next]_vars PROVE FlagsOK'
  OBVIOUS
<1> USE DEF FlagsOK
<1>1. CASE BeginOverBudget
  BY <1>1 DEF BeginOverBudget, Invocation, WaveUnchanged
<1>2. CASE Begin
  <2>1. overBudget' = FALSE
    BY <1>2 DEF Begin, Invocation
  <2>2. failed' \in BOOLEAN /\ progressed' \in BOOLEAN
    BY <1>2 DEF Begin, WaveUnchanged, EnterWave
  <2> QED
    BY <2>1, <2>2
<1>3. CASE Attempt
  BY <1>3 DEF Attempt, PrepareOk, PrepareFails, Drain, Judged, Finalize, EnterWave,
              WaveUnchanged, waveVars, tallyVars
<1>4. CASE LoopTop \/ EndScan \/ Skipped \/ OpenGate \/ ShutGate \/ GateThrows
  BY <1>4 DEF LoopTop, EndScan, Skipped, OpenGate, ShutGate, GateThrows, waveVars,
              tallyVars
<1>5. ASSUME NEW n \in Node, Consider(n) \/ Collect(n) PROVE FlagsOK'
  BY <1>5 DEF Consider, Collect, waveVars, tallyVars
<1>6. ASSUME NEW n \in Node, Task(n) PROVE FlagsOK'
  <2> USE DEF TaskUnchanged, waveVars, tallyVars
  <2>1. ASSUME NEW ok \in BOOLEAN, Settle(n, ok) PROVE failed' \in BOOLEAN
    BY <2>1 DEF Settle
  <2>2. ASSUME NEW ok \in BOOLEAN, Return(n, ok) PROVE failed' \in BOOLEAN
    BY <2>1, <2>2 DEF Return
  <2>3. CASE Complete(n)
    BY <2>3 DEF Complete
  <2>4. CASE Enter(n)
    BY <2>4 DEF Enter
  <2>5. CASE ManifestFails(n)
    BY <2>1, <2>5 DEF ManifestFails
  <2>6. CASE Accept(n)
    BY <2>2, <2>6 DEF Accept
  <2>7. CASE Demote(n)
    <3> (n \in plan.continues) \in BOOLEAN
      OBVIOUS
    <3> QED
      BY <2>2, <2>7 DEF Demote
  <2>8. CASE Fail(n)
    BY <2>2, <2>8 DEF Fail
  <2>9. CASE Abort(n)
    <3> (n \in plan.continues) \in BOOLEAN
      OBVIOUS
    <3> QED
      BY <2>2, <2>9 DEF Abort
  <2>10. CASE Leave(n)
    BY <2>1, <2>10 DEF Leave
  <2> QED
    BY <1>6, <2>3, <2>4, <2>5, <2>6, <2>7, <2>8, <2>9, <2>10 DEF Task, Ends, Returns
<1>7. CASE Crash
  BY <1>7 DEF Crash, WaveUnchanged
<1>8. CASE UNCHANGED vars
  BY <1>8 DEF vars
<1> QED
  BY <1>1, <1>2, <1>3, <1>4, <1>5, <1>6, <1>7, <1>8 DEF Next, Steps, Loop

(* What the report of a task does to the tallies of its wave. *)
LEMMA SettleTypes ==
  ASSUME DataOK, NEW n \in Node, NEW ok \in BOOLEAN, Settle(n, ok)
  PROVE  /\ stage' \in [Node -> Stages]
         /\ satisfied' \subseteq Node /\ untaken' \subseteq Node
         /\ failedGroups' \subseteq Group
<1>1. stage' \in [Node -> Stages]
  BY DEF Settle, DataOK, Stages
<1>2. satisfied' \subseteq Node /\ untaken' \subseteq Node
  BY DEF Settle, DataOK
<1>3. FailsGroup(n) => plan.group[n] \in Group
  <2>1. plan.group[n] \in Group \cup {NoGroup}
    BY PlansAssumption DEF DataOK, Plan
  <2>2. FailsGroup(n) => plan.group[n] # NoGroup
    BY DEF FailsGroup, BranchFailureMode
  <2> QED
    BY <2>1, <2>2
<1>4. failedGroups' \subseteq Group
  BY <1>3 DEF Settle, DataOK
<1> QED
  BY <1>1, <1>2, <1>4

(* The same for a task that may have to wait for its bracket first. *)
LEMMA ReturnTypes ==
  ASSUME DataOK, NEW n \in Node, NEW ok \in BOOLEAN, Return(n, ok)
  PROVE  /\ stage' \in [Node -> Stages]
         /\ satisfied' \subseteq Node /\ untaken' \subseteq Node
         /\ failedGroups' \subseteq Group
<1>1. CASE Settle(n, ok)
  BY <1>1, SettleTypes
<1>2. CASE /\ stage' = [stage EXCEPT ![n] = IF ok THEN "leaving" ELSE "failing"]
           /\ UNCHANGED tallyVars
  BY <1>2 DEF DataOK, Stages, tallyVars
<1> QED
  BY <1>1, <1>2 DEF Return

(* The data of a task's steps. *)
LEMMA TaskTypes ==
  ASSUME DataOK, NEW n \in Node, Task(n)
  PROVE  DataOK'
<1> USE DEF TaskUnchanged, runVars, waveVars, Pcs, Statuses
<1>1. CASE Enter(n)
  BY <1>1 DEF Enter, DataOK, Stages, tallyVars
<1>2. CASE ManifestFails(n)
  <2>1. Settle(n, FALSE) /\ (FALSE) \in BOOLEAN
    BY <1>2 DEF ManifestFails
  <2>2. /\ stage' \in [Node -> Stages]
        /\ satisfied' \subseteq Node /\ untaken' \subseteq Node
        /\ failedGroups' \subseteq Group
    BY <2>1, SettleTypes
  <2>3. status' \in [Node -> Statuses]
    BY <1>2 DEF ManifestFails, DataOK
  <2> QED
    BY <1>2, <2>2, <2>3 DEF ManifestFails, DataOK
<1>3. CASE Complete(n)
  <2>1. stage' \in [Node -> Stages] /\ status' \in [Node -> Statuses]
    BY <1>3 DEF Complete, DataOK, Stages
  <2>2. doneIn' \in [Node -> 0 .. MaxAttempts]
    BY <1>3, AttemptsAssumption DEF Complete, DataOK
  <2> QED
    BY <1>3, <2>1, <2>2 DEF Complete, DataOK, tallyVars
<1>4. CASE Accept(n)
  <2>1. Return(n, TRUE) /\ (TRUE) \in BOOLEAN
    BY <1>4 DEF Accept
  <2>2. /\ stage' \in [Node -> Stages]
        /\ satisfied' \subseteq Node /\ untaken' \subseteq Node
        /\ failedGroups' \subseteq Group
    BY <2>1, ReturnTypes
  <2> QED
    BY <1>4, <2>2 DEF Accept, DataOK, nodeVars
<1>5. CASE Demote(n)
  <2>1. Return(n, n \in plan.continues) /\ (n \in plan.continues) \in BOOLEAN
    BY <1>5 DEF Demote
  <2>2. /\ stage' \in [Node -> Stages]
        /\ satisfied' \subseteq Node /\ untaken' \subseteq Node
        /\ failedGroups' \subseteq Group
    BY <2>1, ReturnTypes
  <2>3. status' \in [Node -> Statuses]
    BY <1>5 DEF Demote, DataOK
  <2> QED
    BY <1>5, <2>2, <2>3 DEF Demote, DataOK
<1>6. CASE Fail(n)
  BY <1>6, ReturnTypes DEF Fail, DataOK
<1>7. CASE Abort(n)
  <2>1. Return(n, n \in plan.continues) /\ (n \in plan.continues) \in BOOLEAN
    BY <1>7 DEF Abort
  <2>2. /\ stage' \in [Node -> Stages]
        /\ satisfied' \subseteq Node /\ untaken' \subseteq Node
        /\ failedGroups' \subseteq Group
    BY <2>1, ReturnTypes
  <2>3. status' \in [Node -> Statuses]
    BY <1>7 DEF Abort, DataOK
  <2> QED
    BY <1>7, <2>2, <2>3 DEF Abort, DataOK
<1>8. CASE Leave(n)
  <2>1. PICK ok \in BOOLEAN : Settle(n, ok)
    BY <1>8 DEF Leave
  <2>2. /\ stage' \in [Node -> Stages]
        /\ satisfied' \subseteq Node /\ untaken' \subseteq Node
        /\ failedGroups' \subseteq Group
    BY <2>1, SettleTypes
  <2> QED
    BY <1>8, <2>2 DEF Leave, DataOK, nodeVars
<1> QED
  BY <1>1, <1>2, <1>3, <1>4, <1>5, <1>6, <1>7, <1>8 DEF Task, Ends, Returns

(* The data of every step. *)
LEMMA DataStep == DataOK /\ [Next]_vars => DataOK'
<1> SUFFICES ASSUME DataOK, [Next]_vars PROVE DataOK'
  OBVIOUS
<1> USE AttemptsAssumption DEF DataOK, Pcs, Statuses
<1> USE DEF runVars, nodeVars, waveVars, tallyVars
<1>0. ASSUME NEW w \in {"graph", "outcome"}, EnterWave(w)
      PROVE  /\ pc' = "loop" /\ wave' \in {"graph", "outcome"}
             /\ satisfied' \subseteq Node /\ pending' \subseteq Node
             /\ scan' \subseteq Node
             /\ exclusiveNode' = None /\ gating' = None /\ thrown' = "no"
  BY <1>0 DEF EnterWave, Graph, Post
<1>1. ASSUME NEW over, Invocation(over)
      PROVE  /\ attempt' \in 0 .. MaxAttempts /\ skip' \subseteq Node
             /\ outcome' = "pending"
             /\ untaken' \subseteq Node /\ failedGroups' \subseteq Group
             /\ UNCHANGED <<plan, status, doneIn, stage>>
  <2>1. plan.skips \subseteq SUBSET Node
    BY PlansAssumption DEF Plan
  <2> QED
    BY <1>1, <2>1 DEF Invocation
<1>2. CASE BeginOverBudget
  BY <1>1, <1>2 DEF BeginOverBudget, WaveUnchanged
<1>3. CASE Begin
  <2>1. CASE pc' = "prepare" /\ WaveUnchanged
    BY <1>1, <1>3, <2>1 DEF Begin, WaveUnchanged
  <2>2. CASE EnterWave("graph")
    BY <1>0, <1>1, <1>3, <2>2 DEF Begin
  <2> QED
    BY <1>3, <2>1, <2>2 DEF Begin
<1>4. CASE PrepareOk
  BY <1>0, <1>4 DEF PrepareOk
<1>5. CASE PrepareFails
  BY <1>5 DEF PrepareFails, WaveUnchanged
<1>6. CASE Drain
  BY <1>6 DEF Drain, Stages
<1>7. CASE Judged
  BY <1>0, <1>7 DEF Judged, WaveUnchanged
<1>8. CASE Finalize
  BY <1>8 DEF Finalize, WaveUnchanged
<1>9. CASE LoopTop
  BY <1>9 DEF LoopTop
<1>10. CASE EndScan
  BY <1>10 DEF EndScan
<1>11. CASE Skipped
  BY <1>11 DEF Skipped
<1>12. CASE OpenGate
  BY <1>12 DEF OpenGate, Stages
<1>13. CASE ShutGate
  BY <1>13 DEF ShutGate
<1>14. CASE GateThrows
  BY <1>14 DEF GateThrows
<1>15. ASSUME NEW n \in Node, Consider(n) PROVE DataOK'
  BY <1>15 DEF Consider
<1>16. ASSUME NEW n \in Node, Collect(n) PROVE DataOK'
  BY <1>16 DEF Collect, Collected, Stages
<1>17. CASE Crash
  BY <1>17 DEF Crash, WaveUnchanged, Stages
<1>18. CASE UNCHANGED vars
  BY <1>18 DEF vars
<1>19. ASSUME NEW n \in Node, Task(n) PROVE DataOK'
  BY <1>19, TaskTypes
<1> QED
  BY <1>2, <1>3, <1>4, <1>5, <1>6, <1>7, <1>8, <1>9, <1>10, <1>11, <1>12, <1>13,
     <1>14, <1>15, <1>16, <1>17, <1>18, <1>19 DEF Next, Steps, Attempt, Loop

(* Every variable keeps its type: no step of the engine or of a task, in any
   plan, leaves the domain the other properties are stated over. *)
THEOREM TypeCorrect == Spec => []TypeOK
<1>1. Init => DataOK
  BY AttemptsAssumption DEF Init, DataOK, Pcs, Stages, Statuses
<1>2. Init => FlagsOK
  BY DEF Init, FlagsOK
<1>3. TypeOK /\ [Next]_vars => TypeOK'
  BY DataStep, FlagsStep DEF TypeOK
<1> QED
  BY <1>1, <1>2, <1>3, PTL DEF Spec, TypeOK

-----------------------------------------------------------------------------
(* A task and the wave it belongs to.                                      *)

\* Where runNodes is on.
InWave == {"loop", "scan", "gate", "skipping", "race", "drain"}

\* The inductive invariant of a wave: a node of the wave waits, or has its
\* gate considered, or runs, and its dependencies in the wave are met for good
\* before its gate opens.
WaveInv ==
  /\ pc \in InWave =>
       /\ pending \subseteq WaveNodes /\ scan \subseteq pending
       /\ Running \subseteq WaveNodes
       /\ pending \cap satisfied = {} /\ pending \cap Running = {}
       /\ Live \cap satisfied = {}
       /\ \A n \in Live : plan.deps[n] \cap WaveNodes \subseteq satisfied
  /\ pc \in {"gate", "skipping"} =>
       gating \in WaveNodes \ (pending \cup satisfied \cup Running)
  /\ pc = "gate" => Ready(gating)
  /\ pc \notin InWave => Running = {}

(* A report touches the stage of its own node only, and meets nobody's
   dependency but by settling. *)
LEMMA SettleFacts ==
  ASSUME DataOK, NEW n \in Node, NEW ok \in BOOLEAN, Settle(n, ok)
  PROVE  /\ stage'[n] = "settled"
         /\ \A m \in Node \ {n} : stage'[m] = stage[m]
         /\ satisfied \subseteq satisfied' /\ satisfied' \subseteq satisfied \cup {n}
BY DEF Settle, DataOK

\* What Return does to the stages of the nodes and to the satisfied ones.
LEMMA ReturnFacts ==
  ASSUME DataOK, NEW n \in Node, NEW ok \in BOOLEAN, Return(n, ok)
  PROVE  /\ stage'[n] \in {"settled", "leaving", "failing"}
         /\ \A m \in Node \ {n} : stage'[m] = stage[m]
         /\ satisfied \subseteq satisfied' /\ satisfied' \subseteq satisfied \cup {n}
         /\ stage'[n] # "settled" => satisfied' = satisfied
<1>1. CASE Settle(n, ok)
  BY <1>1, SettleFacts
<1>2. CASE /\ stage' = [stage EXCEPT ![n] = IF ok THEN "leaving" ELSE "failing"]
           /\ UNCHANGED tallyVars
  BY <1>2 DEF DataOK, tallyVars
<1> QED
  BY <1>1, <1>2 DEF Return

(* What a step of a task may do. *)
LEMMA TaskFacts ==
  ASSUME DataOK, NEW n \in Node, Task(n)
  PROVE  /\ pc \in InWave /\ UNCHANGED <<pc, wave, plan>>
         /\ UNCHANGED <<pending, scan, gating, exclusiveNode>>
         /\ stage[n] \notin {"idle", "settled"} /\ stage'[n] # "idle"
         /\ \A m \in Node \ {n} : stage'[m] = stage[m]
         /\ satisfied \subseteq satisfied' /\ satisfied' \subseteq satisfied \cup {n}
         /\ stage'[n] # "settled" => satisfied' = satisfied
<1> USE DEF TaskUnchanged, runVars, waveVars, Awaiting, InWave
<1>1. CASE Enter(n)
  BY <1>1 DEF Enter, DataOK, tallyVars
<1>2. CASE ManifestFails(n)
  <2>1. Settle(n, FALSE)
    BY <1>2 DEF ManifestFails
  <2> QED
    BY <1>2, <2>1, SettleFacts DEF ManifestFails
<1>3. CASE Complete(n)
  BY <1>3 DEF Complete, DataOK, tallyVars
<1>4. CASE Accept(n)
  <2>1. Return(n, TRUE)
    BY <1>4 DEF Accept
  <2> QED
    BY <1>4, <2>1, ReturnFacts DEF Accept
<1>5. CASE Demote(n)
  <2>1. Return(n, n \in plan.continues) /\ (n \in plan.continues) \in BOOLEAN
    BY <1>5 DEF Demote
  <2>2. /\ stage'[n] \in {"settled", "leaving", "failing"}
        /\ \A m \in Node \ {n} : stage'[m] = stage[m]
        /\ satisfied \subseteq satisfied' /\ satisfied' \subseteq satisfied \cup {n}
        /\ stage'[n] # "settled" => satisfied' = satisfied
    BY <2>1, ReturnFacts
  <2>3. TaskUnchanged /\ Awaiting /\ stage[n] = "reviewing"
    BY <1>5 DEF Demote
  <2> QED
    BY <2>2, <2>3
<1>6. CASE Fail(n)
  BY <1>6, ReturnFacts DEF Fail
<1>7. CASE Abort(n)
  <2>1. Return(n, n \in plan.continues) /\ (n \in plan.continues) \in BOOLEAN
    BY <1>7 DEF Abort
  <2>2. /\ stage'[n] \in {"settled", "leaving", "failing"}
        /\ \A m \in Node \ {n} : stage'[m] = stage[m]
        /\ satisfied \subseteq satisfied' /\ satisfied' \subseteq satisfied \cup {n}
        /\ stage'[n] # "settled" => satisfied' = satisfied
    BY <2>1, ReturnFacts
  <2>3. TaskUnchanged /\ Awaiting /\ stage[n] = "executing"
    BY <1>7 DEF Abort
  <2> QED
    BY <2>2, <2>3
<1>8. CASE Leave(n)
  BY <1>8, SettleFacts DEF Leave
<1> QED
  BY <1>1, <1>2, <1>3, <1>4, <1>5, <1>6, <1>7, <1>8 DEF Task, Ends, Returns

(* A step of a task preserves the invariant of its wave. *)
LEMMA TaskKeepsWave ==
  ASSUME DataOK, WaveInv, NEW n \in Node, Task(n)
  PROVE  WaveInv'
<1>1. Running' = Running
  BY TaskFacts DEF Running
<1>2. Live' \subseteq Live /\ (stage'[n] = "settled" => n \notin Live')
  BY TaskFacts DEF Live
<1>3. n \in Running /\ n \in Live
  BY TaskFacts DEF Running, Live
<1>4. WaveNodes' = WaveNodes
  BY TaskFacts DEF WaveNodes, Graph, Post
<1>5. Live' \cap satisfied' = {}
  BY <1>2, TaskFacts DEF WaveInv
<1>6. \A m \in Live' : plan'.deps[m] \cap WaveNodes' \subseteq satisfied'
  BY <1>2, <1>4, TaskFacts DEF WaveInv
<1>7. pending' \cap satisfied' = {}
  BY <1>3, TaskFacts DEF WaveInv
<1>8. pc' = "gate" => Ready(gating)'
  BY <1>4, TaskFacts DEF WaveInv, Ready
<1>9. pc' \in {"gate", "skipping"} =>
        gating' \in WaveNodes' \ (pending' \cup satisfied' \cup Running')
  BY <1>1, <1>3, <1>4, TaskFacts DEF WaveInv
<1> QED
  BY <1>1, <1>4, <1>5, <1>6, <1>7, <1>8, <1>9, TaskFacts DEF WaveInv

(* A wave begins with nothing at work. *)
LEMMA EnterKeepsWave ==
  ASSUME Running = {}, NEW w \in {"graph", "outcome"}, EnterWave(w),
         UNCHANGED <<plan, stage>>
  PROVE  WaveInv'
<1>1. Running' = {} /\ Live' = {}
  BY DEF Running, Live
<1>2. pc' = "loop" /\ scan' = {} /\ wave' = w
  BY DEF EnterWave
<1>3. WaveNodes' = IF w = "graph" THEN Graph ELSE Post
  BY <1>2 DEF WaveNodes, Graph, Post
<1>4. pending' \subseteq WaveNodes' /\ pending' \cap satisfied' = {}
  BY <1>3 DEF EnterWave
<1> QED
  BY <1>1, <1>2, <1>4 DEF WaveInv, InWave

(* Every step preserves the invariant of the wave. *)
LEMMA WaveStep == DataOK /\ WaveInv /\ [Next]_vars => WaveInv'
<1> SUFFICES ASSUME DataOK, WaveInv, [Next]_vars PROVE WaveInv'
  OBVIOUS
<1> USE DEF runVars, nodeVars, waveVars, tallyVars
<1>1. CASE BeginOverBudget
  BY <1>1 DEF BeginOverBudget, Invocation, WaveInv, InWave, Running
<1>2. CASE Begin
  <2>1. pc = "down" /\ Running = {} /\ UNCHANGED <<plan, stage>>
    BY <1>2 DEF Begin, Invocation, WaveInv, InWave
  <2>2. CASE pc' = "prepare"
    BY <2>1, <2>2 DEF WaveInv, InWave, Running
  <2> QED
    BY <1>2, <2>1, <2>2, EnterKeepsWave DEF Begin
<1>3. CASE PrepareOk
  <2>1. Running = {} /\ UNCHANGED <<plan, stage>>
    BY <1>3 DEF PrepareOk, WaveInv, InWave
  <2> QED
    BY <1>3, <2>1, EnterKeepsWave DEF PrepareOk
<1>4. CASE PrepareFails
  BY <1>4 DEF PrepareFails, WaveInv, InWave, Running
<1>5. CASE Drain
  BY <1>5 DEF Drain, WaveInv, InWave, Running
<1>6. CASE Judged
  <2>1. Running = {} /\ UNCHANGED <<plan, stage>>
    BY <1>6 DEF Judged, WaveInv, InWave
  <2>2. CASE pc' = "finalize"
    BY <2>1, <2>2 DEF WaveInv, InWave, Running
  <2> QED
    BY <1>6, <2>1, <2>2, EnterKeepsWave DEF Judged
<1>7. CASE Finalize
  BY <1>7 DEF Finalize, WaveInv, InWave, Running
<1>8. CASE LoopTop
  BY <1>8 DEF LoopTop, WaveInv, InWave, Running, Live, WaveNodes, Graph, Post
<1>9. CASE EndScan
  BY <1>9 DEF EndScan, WaveInv, InWave, Running, Live, WaveNodes, Graph, Post
<1>10. CASE Skipped
  <2>1. UNCHANGED <<Running, Live, WaveNodes, pending, scan>>
    BY <1>10 DEF Skipped, Running, Live, WaveNodes, Graph, Post
  <2>2. Live \subseteq Running
    BY DEF Live, Running
  <2> QED
    BY <1>10, <2>1, <2>2 DEF Skipped, WaveInv, InWave
<1>11. CASE OpenGate
  <2>1. UNCHANGED <<WaveNodes, pending, scan, satisfied, plan>>
    BY <1>11 DEF OpenGate, WaveNodes, Graph, Post
  <2>2. gating \in Node /\ pc' = "scan"
    BY <1>11 DEF OpenGate, DataOK
  <2>3. Running' = Running \cup {gating} /\ Live' = Live \cup {gating}
    BY <1>11, <2>2 DEF OpenGate, Running, Live, DataOK
  <2>4. plan.deps[gating] \cap WaveNodes \subseteq satisfied
    BY <1>11 DEF OpenGate, WaveInv, Ready
  <2>5. pc = "gate"
    BY <1>11 DEF OpenGate
  <2> QED
    BY <2>1, <2>2, <2>3, <2>4, <2>5 DEF WaveInv, InWave
<1>12. CASE ShutGate
  BY <1>12 DEF ShutGate, WaveInv, InWave, Running, Live, WaveNodes, Graph, Post
<1>13. CASE GateThrows
  BY <1>13 DEF GateThrows, WaveInv, InWave, Running, Live, WaveNodes, Graph, Post
<1>14. ASSUME NEW n \in Node, Consider(n) PROVE WaveInv'
  <2>1. UNCHANGED <<Running, Live, WaveNodes, satisfied, plan>>
    BY <1>14 DEF Consider, Running, Live, WaveNodes, Graph, Post
  <2>2. n \in pending /\ Ready(n) /\ gating' = n /\ pc' \in {"gate", "skipping"}
    BY <1>14 DEF Consider, Candidates, WaveInv, InWave
  <2>3. pending' = pending \ {n} /\ scan' \subseteq pending'
    <3>1. n \notin scan'
      BY <1>14, NodeAssumption DEF Consider
    <3> QED
      BY <1>14, <3>1 DEF Consider, WaveInv, InWave
  <2>4. Ready(gating)'
    BY <2>1, <2>2 DEF Ready
  <2> QED
    BY <1>14, <2>1, <2>2, <2>3, <2>4 DEF WaveInv, InWave, Consider
<1>15. ASSUME NEW n \in Node, Collect(n) PROVE WaveInv'
  <2>1. UNCHANGED <<Live, WaveNodes, pending, scan, satisfied, plan>>
    BY <1>15 DEF Collect, Collected, Live, WaveNodes, Graph, Post, DataOK
  <2>2. Running' \subseteq Running /\ pc' \in {"drain", "loop"}
    BY <1>15 DEF Collect, Collected, Running, DataOK
  <2> QED
    BY <1>15, <2>1, <2>2 DEF Collect, WaveInv, InWave
<1>16. CASE Crash
  BY <1>16 DEF Crash, WaveInv, InWave, Running
<1>17. CASE UNCHANGED vars
  BY <1>17 DEF vars, WaveInv, InWave, Running, Live, WaveNodes, Graph, Post, Ready
<1>18. ASSUME NEW n \in Node, Task(n) PROVE WaveInv'
  BY <1>18, TaskKeepsWave
<1> QED
  BY <1>1, <1>2, <1>3, <1>4, <1>5, <1>6, <1>7, <1>8, <1>9, <1>10, <1>11, <1>12,
     <1>13, <1>14, <1>15, <1>16, <1>17, <1>18 DEF Next, Steps, Attempt, Loop

\* The invariant of the waves holds always.
LEMMA WaveAlways == Spec => [](DataOK /\ WaveInv)
<1>1. Init => WaveInv
  BY DEF Init, WaveInv, InWave, Running
<1>2. (DataOK /\ WaveInv) /\ [Next]_vars => (DataOK /\ WaveInv)'
  BY DataStep, WaveStep
<1>3. Spec => []DataOK
  BY TypeCorrect, PTL DEF TypeOK
<1>4. Init /\ DataOK => DataOK /\ WaveInv
  BY <1>1
<1> QED
  BY <1>2, <1>3, <1>4, PTL DEF Spec

(* A node is never at work together with a node it depends on, in any workflow
   and under any failure, skip, late gate or crash. *)
THEOREM DependenciesFirst == Spec => []NoDependencyAtWork
<1>1. WaveInv => NoDependencyAtWork
  <2> SUFFICES ASSUME WaveInv, NEW n \in Live PROVE plan.deps[n] \cap Live = {}
    BY DEF NoDependencyAtWork
  <2>1. Live \subseteq Running
    BY DEF Live, Running
  <2>2. pc \in InWave
    BY <2>1 DEF WaveInv
  <2> QED
    BY <2>1, <2>2 DEF WaveInv
<1> QED
  BY <1>1, WaveAlways, PTL

-----------------------------------------------------------------------------
(* The attempts implement the contract of a run.                           *)

\* What the contract needs beyond WaveInv: the outcome wave, the verdict and
\* the last record come after the judgement, and a prepare_command before it.
VerdictInv ==
  /\ pc \in {"judged", "finalize"} \/ (pc \in InWave /\ wave = "outcome")
       => outcome \in {"success", "failure"}
  /\ attempt = 0 \/ pc = "prepare" => wave = "graph"
  /\ attempt = 0 => pc = "down"

\* A step keeps the verdict.
LEMMA VerdictStep == DataOK /\ VerdictInv /\ [Next]_vars => VerdictInv'
<1> SUFFICES ASSUME DataOK, VerdictInv, [Next]_vars PROVE VerdictInv'
  OBVIOUS
<1> USE DEF VerdictInv, InWave, runVars, nodeVars, waveVars, tallyVars
<1>1. CASE BeginOverBudget
  BY <1>1, AttemptsAssumption DEF BeginOverBudget, Invocation, WaveUnchanged, DataOK
<1>2. CASE Begin
  <2>1. attempt' # 0 /\ pc' \in {"prepare", "loop"}
    BY <1>2, AttemptsAssumption DEF Begin, Invocation, EnterWave, DataOK
  <2>2. wave' = "graph"
    BY <1>2 DEF Begin, EnterWave, WaveUnchanged
  <2> QED
    BY <2>1, <2>2
<1>3. CASE PrepareOk
  BY <1>3 DEF PrepareOk, EnterWave
<1>4. CASE PrepareFails
  BY <1>4 DEF PrepareFails, WaveUnchanged
<1>5. CASE Drain
  <2>1. pc = "drain" /\ UNCHANGED <<attempt, wave>> /\ wave \in {"graph", "outcome"}
    BY <1>5 DEF Drain, DataOK
  <2>2. wave = "graph" => pc' = "judged" /\ outcome' \in {"success", "failure"}
    BY <1>5 DEF Drain
  <2>3. wave # "graph" => pc' \in {"finalize", "down"} /\ UNCHANGED outcome
    BY <1>5 DEF Drain
  <2> QED
    BY <2>1, <2>2, <2>3
<1>6. CASE Judged
  BY <1>6 DEF Judged, EnterWave, WaveUnchanged
<1>7. CASE Finalize
  BY <1>7 DEF Finalize, WaveUnchanged
<1>8. CASE LoopTop \/ EndScan \/ Skipped \/ OpenGate \/ ShutGate \/ GateThrows
  BY <1>8 DEF LoopTop, EndScan, Skipped, OpenGate, ShutGate, GateThrows
<1>9. ASSUME NEW n \in Node, Consider(n) \/ Collect(n) PROVE VerdictInv'
  BY <1>9 DEF Consider, Collect
<1>10. CASE Crash
  BY <1>10 DEF Crash, WaveUnchanged
<1>11. CASE UNCHANGED vars
  BY <1>11 DEF vars
<1>12. ASSUME NEW n \in Node, Task(n) PROVE VerdictInv'
  <2>1. UNCHANGED <<pc, wave, attempt, outcome>>
    BY <1>12 DEF Task, Ends, Returns, Enter, ManifestFails, Complete, Accept,
                 Demote, Fail, Abort, Leave, TaskUnchanged
  <2> QED
    BY <2>1
<1> QED
  BY <1>1, <1>2, <1>3, <1>4, <1>5, <1>6, <1>7, <1>8, <1>9, <1>10, <1>11, <1>12
     DEF Next, Steps, Attempt, Loop

(* A step that moves no task and stays in its phase is none of the contract. *)
LEMMA Quiet ==
  ASSUME UNCHANGED <<plan, stage, wave, outcome, terminal>>, Phase' = Phase
  PROVE  UNCHANGED Contract!vars
BY DEF Contract!vars, Live, Post

\* Every step is one of RunContract's, or a stutter.
LEMMA ContractStep ==
  DataOK /\ WaveInv /\ VerdictInv /\ [Next]_vars => [Contract!Next]_(Contract!vars)
<1> SUFFICES ASSUME DataOK, WaveInv, VerdictInv, [Next]_vars
             PROVE  Contract!Next \/ UNCHANGED Contract!vars
  OBVIOUS
<1> USE DEF runVars, nodeVars, waveVars, tallyVars
<1>0. Live \subseteq Running
  BY DEF Live, Running
<1>1. CASE BeginOverBudget
  <2>1. Contract!Refuse
    BY <1>1 DEF BeginOverBudget, Invocation, WaveUnchanged, Contract!Refuse, Phase, Live, Post
  <2> QED
    BY <2>1 DEF Contract!Next
<1>2. CASE Begin
  <2>1. Phase = "off" /\ UNCHANGED <<plan, stage>> /\ outcome' = "pending"
        /\ terminal' = "none"
    BY <1>2 DEF Begin, Invocation, Phase
  <2>2. Phase' = "graph"
    BY <1>2 DEF Begin, Invocation, EnterWave, WaveUnchanged, VerdictInv, Phase
  <2>3. Contract!Boot
    BY <2>1, <2>2 DEF Contract!Boot, Live, Post
  <2> QED
    BY <2>3 DEF Contract!Next
<1>3. CASE PrepareOk
  <2>1. Phase' = Phase /\ UNCHANGED <<plan, stage, wave, outcome, terminal>>
    BY <1>3 DEF PrepareOk, EnterWave, VerdictInv, Phase
  <2> QED
    BY <2>1, Quiet
<1>4. CASE PrepareFails \/ Crash
  <2>1. Live' = {}
    BY <1>0, <1>4 DEF PrepareFails, Crash, WaveInv, InWave, Live
  <2>2. Phase # "off" /\ Phase' = "off" /\ UNCHANGED <<plan, outcome, terminal>>
    BY <1>4 DEF PrepareFails, Crash, WaveUnchanged, Phase, DataOK
  <2>3. Contract!Die
    BY <2>1, <2>2 DEF Contract!Die, Post
  <2> QED
    BY <2>3 DEF Contract!Next
<1>5. CASE Drain
  <2>1. Live = {} /\ Live' = {} /\ UNCHANGED <<plan, wave, terminal>> /\ pc = "drain"
    BY <1>5 DEF Drain, AllReported, Live
  <2>2. CASE wave = "graph"
    <3>1. Phase = "graph" /\ Phase' = "judged" /\ outcome' \in {"success", "failure"}
      BY <1>5, <2>1, <2>2 DEF Drain, Phase
    <3>2. Contract!Judge
      BY <2>1, <3>1 DEF Contract!Judge, Post
    <3> QED
      BY <3>2 DEF Contract!Next
  <2>3. CASE wave = "outcome" /\ thrown = "no"
    <3>1. Phase = "outcome" /\ Phase' = "outcome" /\ UNCHANGED outcome
      BY <1>5, <2>1, <2>3 DEF Drain, Phase
    <3> QED
      BY <2>1, <3>1 DEF Contract!vars, Post
  <2>4. CASE wave = "outcome" /\ thrown # "no"
    <3>1. Phase = "outcome" /\ Phase' = "off" /\ UNCHANGED outcome
      BY <1>5, <2>1, <2>4 DEF Drain, Phase
    <3>2. Contract!Die
      BY <2>1, <3>1 DEF Contract!Die, Post
    <3> QED
      BY <3>2 DEF Contract!Next
  <2> QED
    BY <2>2, <2>3, <2>4 DEF DataOK
<1>6. CASE Judged
  <2>1. UNCHANGED <<plan, stage, outcome, terminal>> /\ Phase = "judged"
    BY <1>6 DEF Judged, Phase
  <2>2. Phase' \in {"outcome", "judged"}
    BY <1>6 DEF Judged, EnterWave, WaveUnchanged, Phase, DataOK
  <2>3. CASE Phase' = "outcome"
    <3>1. Contract!OpenOutcome
      BY <2>1, <2>3 DEF Contract!OpenOutcome, Live, Post
    <3> QED
      BY <3>1 DEF Contract!Next
  <2>4. CASE Phase' = "judged"
    BY <2>1, <2>4 DEF Contract!vars, Live, Post
  <2> QED
    BY <2>2, <2>3, <2>4
<1>7. CASE Finalize
  <2>1. Live = {} /\ Live' = {}
    BY <1>0, <1>7 DEF Finalize, WaveInv, InWave, Live
  <2>2. Phase \in {"judged", "outcome"} /\ Phase' = "off" /\ UNCHANGED <<plan, outcome>>
    BY <1>7 DEF Finalize, Phase, DataOK
  <2>3. terminal' \in Contract!RecordsFor(outcome)
    <3>1. outcome \in {"success", "failure"}
      BY <1>7 DEF Finalize, VerdictInv
    <3> QED
      BY <1>7, <3>1 DEF Finalize, Contract!RecordsFor
  <2>4. Contract!Publish
    BY <2>1, <2>2, <2>3 DEF Contract!Publish, Post
  <2> QED
    BY <2>4 DEF Contract!Next
<1>8. CASE LoopTop \/ EndScan \/ Skipped \/ ShutGate \/ GateThrows
  <2>1. Phase' = Phase /\ UNCHANGED <<plan, stage, wave, outcome, terminal>>
    BY <1>8 DEF LoopTop, EndScan, Skipped, ShutGate, GateThrows, Phase
  <2> QED
    BY <2>1, Quiet
<1>9. CASE OpenGate
  <2>1. UNCHANGED <<plan, wave, outcome, terminal>> /\ Phase = wave /\ Phase' = wave
    BY <1>9 DEF OpenGate, Phase
  <2>2. gating \in Node /\ Live' = Live \cup {gating}
    BY <1>9 DEF OpenGate, Live, DataOK
  <2>3. gating \in WaveNodes
    BY <1>9 DEF OpenGate, WaveInv
  <2>4. wave = IF gating \in Post THEN "outcome" ELSE "graph"
    BY <2>2, <2>3 DEF WaveNodes, Graph, DataOK
  <2>5. Contract!Start(gating)
    BY <2>1, <2>2, <2>4 DEF Contract!Start, Post
  <2> QED
    BY <2>2, <2>5 DEF Contract!Next
<1>10. ASSUME NEW n \in Node, Consider(n) PROVE UNCHANGED Contract!vars
  <2>1. Phase' = Phase /\ UNCHANGED <<plan, stage, wave, outcome, terminal>>
    BY <1>10 DEF Consider, Phase
  <2> QED
    BY <2>1, Quiet
<1>11. ASSUME NEW n \in Node, Collect(n) PROVE UNCHANGED Contract!vars
  <2>1. Phase' = Phase /\ UNCHANGED <<plan, wave, outcome, terminal>>
    BY <1>11 DEF Collect, Phase
  <2>2. Live' = Live
    BY <1>11 DEF Collect, Collected, Live, DataOK
  <2> QED
    BY <2>1, <2>2 DEF Contract!vars, Post
<1>12. ASSUME NEW n \in Node, Task(n) PROVE Contract!Next \/ UNCHANGED Contract!vars
  <2>1. UNCHANGED <<outcome, terminal>>
    BY <1>12 DEF Task, Ends, Returns, Enter, ManifestFails, Complete, Accept,
                 Demote, Fail, Abort, Leave, TaskUnchanged
  <2>2. UNCHANGED <<plan, Phase>>
    BY <1>12, TaskFacts DEF Phase
  <2>3. Live' = Live \/ Live' = Live \ {n}
    BY <1>12, TaskFacts DEF Live
  <2>4. n \in Live
    BY <1>12, TaskFacts DEF Live
  <2>5. CASE Live' = Live
    BY <2>1, <2>2, <2>5 DEF Contract!vars, Post
  <2>6. CASE Live' = Live \ {n}
    <3>1. Contract!Stop(n)
      BY <2>1, <2>2, <2>4, <2>6 DEF Contract!Stop, Post
    <3> QED
      BY <3>1 DEF Contract!Next
  <2> QED
    BY <2>3, <2>5, <2>6
<1>13. CASE UNCHANGED vars
  BY <1>13 DEF vars, Contract!vars, Phase, Live, Post
<1> QED
  BY <1>1, <1>2, <1>3, <1>4, <1>5, <1>6, <1>7, <1>8, <1>9, <1>10, <1>11, <1>12,
     <1>13 DEF Next, Steps, Attempt, Loop

(* Every attempt of every workflow keeps the contract of a run: one verdict,
   passed when nothing is at work, and a record that agrees with it. *)
THEOREM ContractKept == Spec => KeepsContract
<1>1. Init => Contract!Init
  BY DEF Init, Contract!Init, Phase, Live, Post
<1>2. Init => VerdictInv
  BY DEF Init, VerdictInv, InWave
<1> QED
  BY <1>1, <1>2, WaveAlways, VerdictStep, ContractStep, PTL
     DEF Spec, KeepsContract, Contract!Spec

-----------------------------------------------------------------------------
(* How many nodes run, and which.                                          *)

\* A node that must run alone holds the scan from the moment it runs, and
\* there is room for the node whose gate is open.
RoomInv ==
  /\ \A n \in plan.alone \cap Running : Running = {n} /\ exclusiveNode = n
  /\ pc = "gate" => /\ exclusiveNode = None
                    /\ gating \in plan.alone => Running = {}
                    /\ Cardinality(Running) < Cap
  /\ WithinCap

(* The cap is a number, whatever max_parallel says. *)
LEMMA CapType == DataOK => Cap \in Nat
<1> SUFFICES ASSUME DataOK PROVE Cap \in Nat
  OBVIOUS
<1>1. plan.maxParallel \in Nat
  BY PlansAssumption DEF DataOK, Plan
<1>2. Cardinality(WaveNodes) \in Nat
  <2>1. WaveNodes \subseteq Node
    BY DEF WaveNodes, Graph, Post
  <2> QED
    BY <2>1, NodeAssumption, FS_Subset, FS_CardinalityType
<1> QED
  BY <1>1, <1>2 DEF Cap

(* A step that starts nothing leaves as much room as there was. *)
LEMMA RoomShrinks ==
  ASSUME DataOK, RoomInv, Running' \subseteq Running, pc' # "gate",
         Running' # {} => UNCHANGED <<plan, Cap, exclusiveNode>>
  PROVE  RoomInv'
<1>1. IsFiniteSet(Running)
  BY NodeAssumption, FS_Subset DEF Running
<1>2. /\ Cardinality(Running') <= Cardinality(Running)
      /\ Cardinality(Running) \in Nat /\ Cardinality(Running') \in Nat
  BY <1>1, FS_Subset, FS_CardinalityType
<1>3. \A n \in Running' : Running = {n} => Running' = {n}
  OBVIOUS
<1>4. CASE Running' = {}
  BY <1>4 DEF RoomInv, WithinCap
<1>5. CASE Running' # {}
  <2>1. WithinCap'
    <3>1. Cardinality(Running) <= Cap
      BY <1>5 DEF RoomInv, WithinCap
    <3>2. Cap' = Cap
      BY <1>5
    <3>3. Cap \in Nat
      BY CapType
    <3> QED
      BY <1>2, <3>1, <3>2, <3>3 DEF WithinCap
  <2> QED
    BY <1>3, <1>5, <2>1 DEF RoomInv
<1> QED
  BY <1>4, <1>5

\* A step keeps the room that MaxParallel leaves.
LEMMA RoomStep == DataOK /\ WaveInv /\ RoomInv /\ [Next]_vars => RoomInv'
<1> SUFFICES ASSUME DataOK, WaveInv, RoomInv, [Next]_vars PROVE RoomInv'
  OBVIOUS
<1> USE DEF runVars, nodeVars, waveVars, tallyVars
<1>1. ASSUME Running = {}, UNCHANGED stage, pc' # "gate" PROVE RoomInv'
  <2>1. Running' = {}
    BY <1>1 DEF Running
  <2> QED
    BY <1>1, <2>1, RoomShrinks
<1>2. CASE BeginOverBudget \/ Begin
  <2>1. Running = {} /\ UNCHANGED stage /\ pc' # "gate"
    BY <1>2 DEF BeginOverBudget, Begin, Invocation, EnterWave, WaveInv, InWave
  <2> QED
    BY <1>1, <2>1
<1>3. CASE PrepareOk \/ PrepareFails \/ Judged \/ Finalize
  <2>1. Running = {} /\ UNCHANGED stage /\ pc' # "gate"
    BY <1>3 DEF PrepareOk, PrepareFails, Judged, Finalize, EnterWave, WaveInv, InWave
  <2> QED
    BY <1>1, <2>1
<1>4. CASE Drain \/ Crash
  <2>1. Running' = {} /\ pc' # "gate"
    BY <1>4 DEF Drain, Crash, Running
  <2> QED
    BY <2>1, RoomShrinks
<1>5. CASE LoopTop \/ EndScan \/ Skipped \/ ShutGate \/ GateThrows
  <2>1. UNCHANGED <<plan, wave, stage, exclusiveNode>> /\ pc' # "gate"
    BY <1>5 DEF LoopTop, EndScan, Skipped, ShutGate, GateThrows
  <2>2. UNCHANGED <<Running, Cap>>
    BY <2>1 DEF Running, Cap, WaveNodes, Graph, Post
  <2> QED
    BY <2>1, <2>2, RoomShrinks
<1>6. CASE OpenGate
  <2>1. pc = "gate" /\ pc' = "scan" /\ gating \in Node /\ UNCHANGED <<plan, wave>>
    BY <1>6 DEF OpenGate, DataOK
  <2>2. Cap' = Cap
    BY <2>1 DEF Cap, WaveNodes, Graph, Post
  <2>3. Running' = Running \cup {gating}
    BY <1>6, <2>1 DEF OpenGate, Running, DataOK
  <2>4. Cardinality(Running') <= Cap'
    <3>1. IsFiniteSet(Running) /\ gating \notin Running
      BY <2>1, NodeAssumption, FS_Subset DEF Running, WaveInv
    <3>2. Cardinality(Running') = Cardinality(Running) + 1 /\ Cardinality(Running) \in Nat
      BY <2>3, <3>1, FS_AddElement, FS_CardinalityType
    <3>3. Cardinality(Running) < Cap /\ Cap \in Nat
      BY <2>1, CapType DEF RoomInv
    <3> QED
      BY <2>2, <3>2, <3>3
  <2>5. \A n \in plan.alone \cap Running : FALSE
    BY <2>1, NoneIsNoNode DEF RoomInv, Running
  <2>6. \A n \in plan'.alone \cap Running' : Running' = {n} /\ exclusiveNode' = n
    BY <1>6, <2>1, <2>3, <2>5 DEF RoomInv, OpenGate
  <2> QED
    BY <2>1, <2>4, <2>6 DEF RoomInv, WithinCap
<1>7. ASSUME NEW n \in Node, Consider(n) PROVE RoomInv'
  <2>1. UNCHANGED <<plan, wave, stage, exclusiveNode>> /\ gating' = n
    BY <1>7 DEF Consider
  <2>2. UNCHANGED <<Running, Cap>>
    BY <2>1 DEF Running, Cap, WaveNodes, Graph, Post
  <2>3. exclusiveNode = None /\ (n \in plan.alone => Running = {})
    BY <1>7 DEF Consider, ScanStops, Candidates
  <2>4. Cardinality(Running) < Cap
    <3>1. ~ (Cardinality(Running) >= Cap)
      BY <1>7 DEF Consider, ScanStops
    <3>2. Cardinality(Running) \in Nat /\ Cap \in Nat
      BY NodeAssumption, FS_Subset, FS_CardinalityType, CapType DEF Running
    <3> QED
      BY <3>1, <3>2
  <2> QED
    BY <2>1, <2>2, <2>3, <2>4 DEF RoomInv, WithinCap
<1>8. ASSUME NEW n \in Node, Collect(n) PROVE RoomInv'
  <2>1. UNCHANGED <<plan, wave>> /\ pc' # "gate" /\ n \in Running
    BY <1>8 DEF Collect, Running
  <2>2. Cap' = Cap /\ Running' = Running \ {n}
    BY <1>8, <2>1 DEF Collect, Collected, Running, Cap, WaveNodes, Graph, Post, DataOK
  <2>3. CASE Running' = {}
    BY <2>1, <2>3, RoomShrinks
  <2>4. CASE Running' # {}
    <3>1. plan.alone \cap Running = {}
      BY <2>1, <2>2, <2>4 DEF RoomInv
    <3>2. WithinCap'
      <4>1. IsFiniteSet(Running)
        BY NodeAssumption, FS_Subset DEF Running
      <4>2. /\ Cardinality(Running') <= Cardinality(Running)
            /\ Cardinality(Running) \in Nat /\ Cardinality(Running') \in Nat
        BY <2>2, <4>1, FS_Subset, FS_CardinalityType
      <4> QED
        BY <2>1, <2>2, <4>2, CapType DEF RoomInv, WithinCap
    <3> QED
      BY <2>1, <2>2, <3>1, <3>2 DEF RoomInv
  <2> QED
    BY <2>3, <2>4
<1>9. ASSUME NEW n \in Node, Task(n) PROVE RoomInv'
  <2>1. UNCHANGED <<plan, wave, pc, gating, exclusiveNode>>
    BY <1>9, TaskFacts
  <2>2. UNCHANGED <<Running, Cap>>
    BY <1>9, <2>1, TaskFacts DEF Running, Cap, WaveNodes, Graph, Post
  <2> QED
    BY <2>1, <2>2 DEF RoomInv, WithinCap
<1>10. CASE UNCHANGED vars
  BY <1>10 DEF vars, RoomInv, WithinCap, Running, Cap, WaveNodes, Graph, Post
<1> QED
  BY <1>2, <1>3, <1>4, <1>5, <1>6, <1>7, <1>8, <1>9, <1>10
     DEF Next, Steps, Attempt, Loop

\* The room is always kept.
LEMMA RoomAlways == Spec => []RoomInv
<1>1. Init => RoomInv
  BY DEF Init, RoomInv, WithinCap, Running
<1> QED
  BY <1>1, WaveAlways, RoomStep, PTL DEF Spec

(* However many nodes are ready and however late their gates open, no more
   run than max_parallel allows. *)
THEOREM CapKept == Spec => []WithinCap
BY RoomAlways, PTL DEF RoomInv

(* A branch node without a tree of its own never shares the run's tree with a
   node that runs beside it. *)
THEOREM AloneKept == Spec => []AloneIsAlone
<1>1. RoomInv => AloneIsAlone
  BY DEF RoomInv, AloneIsAlone
<1> QED
  BY <1>1, RoomAlways, PTL

\* Both together, for every workflow.
THEOREM BoundKept == Spec => []ConcurrencyIsBounded
<1>1. WithinCap /\ AloneIsAlone => ConcurrencyIsBounded
  BY DEF ConcurrencyIsBounded
<1> QED
  BY <1>1, CapKept, AloneKept, PTL

-----------------------------------------------------------------------------
(* The tallies of a wave: what is left to do, and what has gone wrong.     *)

\* The node whose gate is being considered.
Gated == IF pc \in {"gate", "skipping"} THEN {gating} ELSE {}

\* Nothing drops out of a wave: while nothing has failed or been thrown, a
\* node of the wave waits, is at its gate, is at work or is finished.
TallyInv ==
  /\ pc \in InWave =>
       /\ wave = "outcome" => ~ failed
       /\ exclusiveNode # None => exclusiveNode \in Running
       /\ pc # "drain" => thrown = "no"
       /\ ~ failed /\ thrown = "no" =>
            WaveNodes \subseteq pending \cup satisfied \cup Live \cup Gated
  /\ pc \in {"scan", "gate", "skipping"} =>
       /\ failed => Running # {}
       /\ ~ progressed => pc = "scan" /\ scan = pending
  /\ pc = "drain" /\ ~ failed /\ thrown = "no" => pending = {} /\ Running = {}
  /\ pc = "finalize" /\ wave = "outcome" => Post \subseteq satisfied
  /\ thrown # "stall"

(* How the report of a task counts. *)
LEMMA SettleReports ==
  ASSUME TypeOK, NEW n \in Node, NEW ok \in BOOLEAN, Settle(n, ok)
  PROVE  /\ failed => failed'
         /\ n \in satisfied' \/ failed'
         /\ wave = "outcome" /\ failed' => failed
         /\ untaken \subseteq untaken' /\ untaken' \subseteq untaken \cup {n}
         /\ failedGroups \subseteq failedGroups'
         /\ failedGroups' \subseteq failedGroups \cup {plan.group[n]}
         /\ wave = "outcome" => failedGroups' = failedGroups
<1>1. wave \in {"graph", "outcome"}
  BY DEF TypeOK, DataOK
<1>2. failed' = (failed \/ (~ ok /\ StopsWave(n)))
  BY DEF Settle
<1>3. CarriesOn(n) \/ StopsWave(n)
  BY <1>1 DEF CarriesOn, StopsWave
<1>4. n \in satisfied' \/ failed'
  BY <1>2, <1>3 DEF Settle
<1>5. wave = "outcome" => ~ StopsWave(n) /\ ~ FailsGroup(n)
  BY DEF StopsWave, FailsGroup
<1> QED
  BY <1>2, <1>4, <1>5 DEF Settle, TypeOK, FlagsOK

\* A node that returns is satisfied or has failed the wave.
LEMMA ReturnReports ==
  ASSUME TypeOK, NEW n \in Node, NEW ok \in BOOLEAN, Return(n, ok)
  PROVE  /\ failed => failed'
         /\ stage'[n] = "settled" => n \in satisfied' \/ failed'
         /\ wave = "outcome" /\ failed' => failed
         /\ untaken \subseteq untaken' /\ untaken' \subseteq untaken \cup {n}
         /\ failedGroups \subseteq failedGroups'
         /\ failedGroups' \subseteq failedGroups \cup {plan.group[n]}
         /\ wave = "outcome" => failedGroups' = failedGroups
<1>1. CASE Settle(n, ok)
  BY <1>1, SettleReports
<1>2. CASE /\ stage' = [stage EXCEPT ![n] = IF ok THEN "leaving" ELSE "failing"]
           /\ UNCHANGED tallyVars
  BY <1>2 DEF TypeOK, DataOK, tallyVars
<1> QED
  BY <1>1, <1>2 DEF Return

(* What a step of a task may do to the tallies. *)
LEMMA TaskReports ==
  ASSUME TypeOK, NEW n \in Node, Task(n)
  PROVE  /\ UNCHANGED <<thrown, progressed, attempt, outcome, terminal, skip>>
         /\ failed => failed'
         /\ stage'[n] = "settled" => n \in satisfied' \/ failed'
         /\ wave = "outcome" /\ failed' => failed
         /\ untaken \subseteq untaken' /\ untaken' \subseteq untaken \cup {n}
         /\ failedGroups \subseteq failedGroups'
         /\ failedGroups' \subseteq failedGroups \cup {plan.group[n]}
         /\ wave = "outcome" => failedGroups' = failedGroups
         /\ \A m \in Node \ {n} : status'[m] = status[m] /\ doneIn'[m] = doneIn[m]
         /\ doneIn'[n] \in {doneIn[n], attempt}
<1> USE DEF TaskUnchanged, runVars, waveVars, nodeVars
<1>0. /\ status \in [Node -> Statuses] /\ stage \in [Node -> Stages]
      /\ doneIn \in [Node -> 0 .. MaxAttempts]
  BY DEF TypeOK, DataOK
<1>1. CASE Enter(n)
  BY <1>0, <1>1 DEF Enter, tallyVars
<1>2. CASE ManifestFails(n)
  <2>1. Settle(n, FALSE)
    BY <1>2 DEF ManifestFails
  <2> QED
    BY <1>0, <1>2, <2>1, SettleReports DEF ManifestFails
<1>3. CASE Complete(n)
  BY <1>0, <1>3 DEF Complete, tallyVars
<1>4. CASE Accept(n)
  <2>1. Return(n, TRUE)
    BY <1>4 DEF Accept
  <2> QED
    BY <1>4, <2>1, ReturnReports DEF Accept
<1>5. CASE Demote(n)
  <2>0. Return(n, n \in plan.continues) /\ (n \in plan.continues) \in BOOLEAN
    BY <1>5 DEF Demote
  <2>1. PICK ok \in BOOLEAN : Return(n, ok)
    BY <2>0
  <2> QED
    BY <1>0, <1>5, <2>1, ReturnReports DEF Demote
<1>6. CASE Fail(n)
  BY <1>0, <1>6, ReturnReports DEF Fail
<1>7. CASE Abort(n)
  <2>0. Return(n, n \in plan.continues) /\ (n \in plan.continues) \in BOOLEAN
    BY <1>7 DEF Abort
  <2>1. PICK ok \in BOOLEAN : Return(n, ok)
    BY <2>0
  <2> QED
    BY <1>0, <1>7, <2>1, ReturnReports DEF Abort
<1>8. CASE Leave(n)
  <2>1. PICK ok \in BOOLEAN : Settle(n, ok)
    BY <1>8 DEF Leave
  <2> QED
    BY <1>8, <2>1, SettleReports DEF Leave
<1> QED
  BY <1>1, <1>2, <1>3, <1>4, <1>5, <1>6, <1>7, <1>8 DEF Task, Ends, Returns

(* A wave begins with every node to do or done. *)
LEMMA EnterKeepsTally ==
  ASSUME NEW w \in {"graph", "outcome"}, EnterWave(w), UNCHANGED plan
  PROVE  TallyInv'
<1>1. /\ pc' = "loop" /\ wave' = w /\ failed' = FALSE /\ thrown' = "no"
      /\ exclusiveNode' = None
  BY DEF EnterWave
<1>2. WaveNodes' \subseteq pending' \cup satisfied'
  BY <1>1 DEF EnterWave, WaveNodes, Graph, Post
<1> QED
  BY <1>1, <1>2 DEF TallyInv

(* There is a node that can run, as long as one waits: a plan is acyclic. *)
LEMMA SomeoneIsReady ==
  ASSUME TypeOK, WaveInv, TallyInv, pc = "scan", Running = {}, pending # {}, ~ failed
  PROVE  \E n \in pending : Ready(n)
<1>1. PICK n \in pending : plan.deps[n] \cap pending = {}
  BY AcyclicAssumption DEF TypeOK, DataOK
<1>2. Live = {} /\ Gated = {}
  BY DEF Live, Running, Gated
<1>3. WaveNodes \subseteq pending \cup satisfied
  BY <1>2 DEF TallyInv, InWave
<1>4. Ready(n)
  BY <1>1, <1>3 DEF Ready
<1> QED
  BY <1>4

(* The scan never gives up. *)
LEMMA ScanGoesOn ==
  ASSUME TypeOK, WaveInv, TallyInv, pc = "scan", ScanStops, Running = {}, pending # {}
  PROVE  progressed
<1> SUFFICES ASSUME ~ progressed PROVE FALSE
  OBVIOUS
<1>1. ~ failed /\ scan = pending
  BY DEF TallyInv
<1>2. PICK n \in pending : Ready(n)
  BY <1>1, SomeoneIsReady
<1>3. n \in Candidates
  BY <1>1, <1>2 DEF Candidates
<1>4. exclusiveNode = None
  BY DEF TallyInv, InWave
<1>5. Cap > 0
  <2>1. plan.maxParallel \in Nat
    BY PlansAssumption DEF TypeOK, DataOK, Plan
  <2>2. WaveNodes # {} => Cardinality(WaveNodes) \in Nat /\ Cardinality(WaveNodes) # 0
    <3>1. IsFiniteSet(WaveNodes)
      BY NodeAssumption, FS_Subset DEF WaveNodes, Graph, Post
    <3> QED
      BY <3>1, FS_CardinalityType, FS_EmptySet
  <2> QED
    BY <2>1, <2>2 DEF Cap
<1>6. Cardinality(Running) = 0
  BY FS_EmptySet
<1> QED
  BY <1>3, <1>4, <1>5, <1>6, CapType DEF ScanStops, TypeOK

\* A step keeps the tally.
LEMMA TallyStep == TypeOK /\ WaveInv /\ TallyInv /\ [Next]_vars => TallyInv'
<1> SUFFICES ASSUME TypeOK, WaveInv, TallyInv, [Next]_vars PROVE TallyInv'
  OBVIOUS
<1> USE DEF runVars, nodeVars, waveVars, tallyVars
<1>0. DataOK /\ failed \in BOOLEAN /\ progressed \in BOOLEAN
  BY DEF TypeOK, FlagsOK
<1>1. CASE BeginOverBudget
  BY <1>1 DEF BeginOverBudget, Invocation, WaveUnchanged, TallyInv, InWave
<1>2. CASE Begin
  <2>1. UNCHANGED plan
    BY <1>2 DEF Begin, Invocation
  <2>2. CASE pc' = "prepare" /\ WaveUnchanged
    BY <2>2 DEF TallyInv, InWave, WaveUnchanged
  <2> QED
    BY <1>2, <2>1, <2>2, EnterKeepsTally DEF Begin
<1>3. CASE PrepareOk
  BY <1>3, EnterKeepsTally DEF PrepareOk
<1>4. CASE PrepareFails
  BY <1>4 DEF PrepareFails, WaveUnchanged, TallyInv, InWave
<1>5. CASE Drain
  <2>1. pc' \in {"judged", "finalize", "down"} /\ UNCHANGED <<thrown, wave, satisfied, plan>>
    BY <1>5 DEF Drain
  <2>2. ASSUME pc' = "finalize" PROVE Post \subseteq satisfied
    <3>1. wave = "outcome" /\ thrown = "no" /\ pc = "drain"
      BY <1>0, <1>5, <2>2 DEF Drain, DataOK
    <3>2. pending = {} /\ Live = {} /\ Gated = {}
      BY <3>1 DEF TallyInv, InWave, Live, Running, Gated
    <3> QED
      BY <3>1, <3>2 DEF TallyInv, InWave, WaveNodes
  <2>3. Post' = Post
    BY <2>1 DEF Post
  <2> QED
    BY <2>1, <2>2, <2>3 DEF TallyInv, InWave
<1>6. CASE Judged
  <2>1. UNCHANGED plan
    BY <1>6 DEF Judged
  <2>2. CASE Post = {} /\ pc' = "finalize" /\ WaveUnchanged
    <3>1. Post' = {}
      BY <2>1, <2>2 DEF Post
    <3> QED
      BY <2>2, <3>1 DEF TallyInv, InWave, WaveUnchanged
  <2> QED
    BY <1>6, <2>1, <2>2, EnterKeepsTally DEF Judged
<1>7. CASE Finalize
  BY <1>7 DEF Finalize, WaveUnchanged, TallyInv, InWave
<1>8. CASE LoopTop
  <2>1. UNCHANGED <<WaveNodes, Live, Running, satisfied, pending, thrown, failed,
                    exclusiveNode, wave>> /\ pc = "loop"
    BY <1>8 DEF LoopTop, WaveNodes, Graph, Post, Live, Running
  <2>2. WaveNodes \subseteq pending \cup satisfied \cup Live \/ failed
    BY <2>1 DEF TallyInv, InWave, Gated
  <2> QED
    BY <1>8, <2>1, <2>2 DEF LoopTop, TallyInv, InWave
<1>9. CASE EndScan
  <2>1. UNCHANGED <<WaveNodes, Live, Running, satisfied, pending, failed, exclusiveNode,
                    wave, progressed, scan>> /\ pc = "scan" /\ ScanStops
    BY <1>9 DEF EndScan, WaveNodes, Graph, Post, Live, Running
  <2>2. WaveNodes \subseteq pending \cup satisfied \cup Live \/ failed
    BY <2>1 DEF TallyInv, InWave, Gated
  <2>3. ~ (Running = {} /\ pending # {} /\ ~ progressed)
    BY <2>1, ScanGoesOn
  <2>4. thrown' = thrown /\ pc' \in {"race", "loop", "drain"}
    BY <1>9, <2>3 DEF EndScan
  <2>5. pc' = "drain" => Running = {} /\ pending = {}
    BY <1>9, <2>3 DEF EndScan
  <2> QED
    BY <2>1, <2>2, <2>4, <2>5 DEF TallyInv, InWave
<1>10. CASE Skipped
  <2>1. UNCHANGED <<WaveNodes, Live, Running, pending, thrown, failed, exclusiveNode,
                    wave, progressed, scan>> /\ pc = "skipping" /\ pc' = "scan"
        /\ satisfied' = satisfied \cup {gating}
    BY <1>10 DEF Skipped, WaveNodes, Graph, Post, Live, Running
  <2>2. Gated = {gating}
    BY <2>1 DEF Gated
  <2> QED
    BY <2>1, <2>2 DEF TallyInv, InWave
<1>11. CASE OpenGate
  <2>1. UNCHANGED <<WaveNodes, pending, thrown, failed, wave, progressed, scan, satisfied>>
        /\ pc = "gate" /\ pc' = "scan" /\ gating \in Node
    BY <1>0, <1>11 DEF OpenGate, WaveNodes, Graph, Post, DataOK
  <2>2. Running' = Running \cup {gating} /\ Live' = Live \cup {gating}
    BY <1>0, <1>11, <2>1 DEF OpenGate, Running, Live, DataOK
  <2>3. exclusiveNode' \in {gating, exclusiveNode}
    BY <1>11 DEF OpenGate
  <2>4. Gated = {gating}
    BY <2>1 DEF Gated
  <2> QED
    BY <2>1, <2>2, <2>3, <2>4 DEF TallyInv, InWave
<1>12. CASE ShutGate
  <2>1. UNCHANGED <<WaveNodes, Live, Running, pending, thrown, failed, exclusiveNode,
                    wave, progressed, scan, gating, satisfied>> /\ pc = "gate" /\ pc' = "skipping"
    BY <1>12 DEF ShutGate, WaveNodes, Graph, Post, Live, Running
  <2> QED
    BY <2>1 DEF TallyInv, InWave, Gated
<1>13. CASE GateThrows
  <2>1. UNCHANGED <<Running, failed, exclusiveNode, wave>> /\ pc = "gate" /\ pc' = "drain"
        /\ thrown' = "gate"
    BY <1>13 DEF GateThrows, Running
  <2> QED
    BY <2>1 DEF TallyInv, InWave
<1>14. ASSUME NEW n \in Node, Consider(n) PROVE TallyInv'
  <2>1. UNCHANGED <<WaveNodes, Live, Running, thrown, failed, exclusiveNode, wave, satisfied>>
        /\ pc = "scan" /\ pc' \in {"gate", "skipping"} /\ gating' = n
        /\ pending' = pending \ {n} /\ progressed' = TRUE
    BY <1>14 DEF Consider, WaveNodes, Graph, Post, Live, Running
  <2>2. Gated = {} /\ Gated' = {n}
    BY <2>1 DEF Gated
  <2> QED
    BY <2>1, <2>2 DEF TallyInv, InWave
<1>15. ASSUME NEW n \in Node, Collect(n) PROVE TallyInv'
  <2>1. UNCHANGED <<WaveNodes, Live, failed, wave, satisfied, pending>>
        /\ pc = "race" /\ Running' = Running \ {n}
        /\ exclusiveNode' = IF n = exclusiveNode THEN None ELSE exclusiveNode
    BY <1>0, <1>15 DEF Collect, Collected, WaveNodes, Graph, Post, Live, Running, DataOK
  <2>2. \/ pc' = "drain" /\ thrown' = "budget"
        \/ pc' = "loop" /\ thrown' = thrown
    BY <1>15 DEF Collect
  <2>3. Gated = {} /\ Gated' = {}
    BY <2>1, <2>2 DEF Gated
  <2> QED
    BY <2>1, <2>2, <2>3 DEF TallyInv, InWave
<1>16. ASSUME NEW n \in Node, Task(n) PROVE TallyInv'
  <2>1. UNCHANGED <<pc, wave, plan, pending, scan, gating, exclusiveNode, thrown, progressed>>
        /\ pc \in InWave
    BY <1>0, <1>16, TaskFacts, TaskReports
  <2>2. UNCHANGED <<WaveNodes, Running, Gated>>
    BY <1>0, <1>16, <2>1, TaskFacts DEF WaveNodes, Graph, Post, Running, Gated
  <2>3. Live \subseteq Live' \cup {n} /\ (n \in Live' \/ n \in satisfied' \/ failed')
    BY <1>0, <1>16, TaskFacts, TaskReports DEF Live
  <2>4. (failed => failed') /\ (wave = "outcome" /\ failed' => failed) /\ satisfied \subseteq satisfied'
        /\ n \in Running
    BY <1>0, <1>16, TaskFacts, TaskReports DEF Running
  <2>5. ~ failed' /\ thrown' = "no" =>
            WaveNodes' \subseteq pending' \cup satisfied' \cup Live' \cup Gated'
    BY <2>1, <2>2, <2>3, <2>4 DEF TallyInv
  <2> QED
    BY <2>1, <2>2, <2>4, <2>5 DEF TallyInv, InWave
<1>17. CASE Crash
  BY <1>17 DEF Crash, WaveUnchanged, TallyInv, InWave
<1>18. CASE UNCHANGED vars
  BY <1>18 DEF vars, TallyInv, InWave, Running, Live, WaveNodes, Graph, Post, Gated
<1> QED
  BY <1>1, <1>2, <1>3, <1>4, <1>5, <1>6, <1>7, <1>8, <1>9, <1>10, <1>11, <1>12,
     <1>13, <1>14, <1>15, <1>16, <1>17, <1>18 DEF Next, Steps, Attempt, Loop

\* The tally is always kept.
LEMMA TallyAlways == Spec => [](TypeOK /\ WaveInv /\ TallyInv)
<1>1. Init => TallyInv
  BY DEF Init, TallyInv, InWave
<1> QED
  BY <1>1, TypeCorrect, WaveAlways, TallyStep, PTL DEF Spec

(* The ready-set loop never throws "Cannot resolve dependencies": whatever
   fails, is skipped or is carried on past, somebody can go on. *)
THEOREM LoopNeverStalls == Spec => []NeverStalls
<1>1. TallyInv => NeverStalls
  BY DEF TallyInv, NeverStalls
<1> QED
  BY <1>1, TallyAlways, PTL

-----------------------------------------------------------------------------
(* What a status says while a wave is on.                                  *)

(* What a step of the loop itself may do. *)
LEMMA LoopFacts ==
  ASSUME TypeOK, WaveInv, Loop
  PROVE  /\ pc \in InWave /\ pc' \in InWave
         /\ UNCHANGED <<plan, wave, attempt, outcome, terminal, skip, doneIn, failedGroups>>
         /\ satisfied \subseteq satisfied' /\ pending' \subseteq pending
         /\ untaken \subseteq untaken' /\ untaken' \subseteq untaken \cup pending \cup Gated
         /\ \A n \in Node : n \notin pending \cup Gated =>
               status'[n] = status[n] /\ (stage'[n] = stage[n] \/ stage'[n] = "idle")
<1> USE DEF runVars, nodeVars, waveVars, tallyVars, InWave
<1>0. DataOK
  BY DEF TypeOK
<1>1. CASE LoopTop
  BY <1>1 DEF LoopTop
<1>2. CASE EndScan
  BY <1>2 DEF EndScan
<1>3. CASE Skipped
  BY <1>3 DEF Skipped
<1>4. CASE OpenGate
  <2>1. pc = "gate" /\ gating \in Node /\ Gated = {gating}
    BY <1>0, <1>4 DEF OpenGate, Gated, DataOK
  <2> QED
    BY <1>0, <1>4, <2>1 DEF OpenGate, DataOK
<1>5. CASE ShutGate
  <2>1. pc = "gate" /\ gating \in Node /\ Gated = {gating}
    BY <1>0, <1>5 DEF ShutGate, Gated, DataOK
  <2> QED
    BY <1>0, <1>5, <2>1 DEF ShutGate, DataOK
<1>6. CASE GateThrows
  BY <1>6 DEF GateThrows
<1>7. ASSUME NEW n \in Node, Consider(n)
      PROVE  n \in pending /\ pc = "scan" /\ pc' \in {"gate", "skipping"}
  BY <1>7 DEF Consider, Candidates, WaveInv
<1>8. CASE \E n \in Node : Consider(n)
  BY <1>0, <1>7, <1>8 DEF Consider, DataOK
<1>9. CASE \E n \in Node : Collect(n)
  BY <1>0, <1>9 DEF Collect, Collected, DataOK
<1> QED
  BY <1>1, <1>2, <1>3, <1>4, <1>5, <1>6, <1>8, <1>9 DEF Loop

\* Why the gate skips node i without marking what depends on it.
Absent(i) == i \in skip \/ plan.join[i] \in failedGroups \/ WrongOutcome(i)

\* The run carries on past the failure of i.
PassedBy(i) ==
  \/ i \in plan.continues
  \/ /\ i \in untaken
     /\ \/ wave = "outcome" \/ BranchFailureMode(i) = "collect"
        \/ plan.group[i] \in failedGroups

\* What the status of a node may be once its dependents may start.
Decided(i) == \/ status[i] = "completed"
              \/ status[i] = "failed" /\ PassedBy(i)
              \/ status[i] = "skipped" /\ (i \in untaken \/ Absent(i))

\* The stage of a task and the status of its node.
StageInv ==
  \A n \in Node :
     /\ stage[n] = "reviewing" => status[n] = "completed"
     /\ stage[n] = "leaving" => \/ status[n] = "completed"
                                \/ status[n] = "failed" /\ n \in plan.continues
     /\ stage[n] = "failing" => status[n] = "failed"

\* What is finished is decided, and what works has inputs that were taken.
StatusInv ==
  /\ pc \in InWave => \A i \in satisfied : Decided(i)
  /\ pc = "skipping" => status[gating] = "skipped" /\ Decided(gating)
  /\ \A n \in Live : plan.inputs[n] \cap WaveNodes \cap untaken = {}
  /\ pc = "gate" => plan.inputs[gating] \cap WaveNodes \cap untaken = {}

(* The verdict of a task fits what its status says. *)
LEMMA SettleDecides ==
  ASSUME TypeOK, NEW n \in Node, NEW ok \in BOOLEAN, Settle(n, ok),
         UNCHANGED <<plan, wave>>,
         \/ status'[n] = "completed"
         \/ status'[n] = "failed" /\ (ok => n \in plan.continues)
  PROVE  n \in satisfied \/ (n \in satisfied' => Decided(n)')
<1> SUFFICES ASSUME n \notin satisfied, n \in satisfied', status'[n] = "failed",
                    n \notin plan.continues
             PROVE  PassedBy(n)'
  BY DEF Decided, PassedBy
<1>1. ~ ok /\ CarriesOn(n)
  BY DEF Settle
<1>2. n \in untaken'
  BY <1>1 DEF Settle
<1>3. BranchFailureMode(n)' = BranchFailureMode(n)
  BY DEF BranchFailureMode
<1>4. wave \in {"graph", "outcome"}
  BY DEF TypeOK, DataOK
<1>5. CASE BranchFailureMode(n) = "all_or_nothing" /\ wave = "graph"
  <2>1. plan.group[n] \in failedGroups'
    BY <1>1, <1>5 DEF Settle, FailsGroup
  <2> QED
    BY <1>2, <2>1 DEF PassedBy
<1> QED
  BY <1>1, <1>2, <1>3, <1>4, <1>5 DEF PassedBy, CarriesOn

\* What returns satisfied has been decided.
LEMMA ReturnDecides ==
  ASSUME TypeOK, NEW n \in Node, NEW ok \in BOOLEAN, Return(n, ok),
         UNCHANGED <<plan, wave>>,
         \/ status'[n] = "completed" /\ ok
         \/ status'[n] = "failed" /\ (ok => n \in plan.continues)
  PROVE  /\ n \in satisfied \/ (n \in satisfied' => Decided(n)')
         /\ stage'[n] = "leaving" => \/ status'[n] = "completed"
                                     \/ status'[n] = "failed" /\ n \in plan'.continues
         /\ stage'[n] = "failing" => status'[n] = "failed"
         /\ stage'[n] # "reviewing"
<1>0. stage \in [Node -> Stages]
  BY DEF TypeOK, DataOK
<1>1. CASE Settle(n, ok)
  <2>1. stage'[n] = "settled"
    BY <1>0, <1>1 DEF Settle
  <2> QED
    BY <1>1, <2>1, SettleDecides
<1>2. CASE /\ stage' = [stage EXCEPT ![n] = IF ok THEN "leaving" ELSE "failing"]
           /\ UNCHANGED tallyVars
  <2>1. satisfied' = satisfied
    BY <1>2 DEF tallyVars
  <2>2. stage'[n] = IF ok THEN "leaving" ELSE "failing"
    BY <1>0, <1>2
  <2> QED
    BY <2>1, <2>2
<1> QED
  BY <1>1, <1>2 DEF Return

(* What a step of a task says of its node. *)
LEMMA TaskDecides ==
  ASSUME TypeOK, WaveInv, StageInv, NEW n \in Node, Task(n)
  PROVE  /\ n \in satisfied' => Decided(n)'
         /\ StageInv'
<1> USE DEF TaskUnchanged, runVars, waveVars, nodeVars
<1>0. /\ status \in [Node -> Statuses] /\ stage \in [Node -> Stages]
      /\ DataOK
  BY DEF TypeOK, DataOK
<1>1. UNCHANGED <<plan, wave>> /\ n \notin satisfied
  BY <1>0, TaskFacts DEF WaveInv, Live
<1>2. ASSUME n \in satisfied \/ (n \in satisfied' => Decided(n)'),
             /\ stage'[n] = "reviewing" => status'[n] = "completed"
             /\ stage'[n] = "leaving" => \/ status'[n] = "completed"
                                         \/ status'[n] = "failed" /\ n \in plan'.continues
             /\ stage'[n] = "failing" => status'[n] = "failed"
      PROVE  (n \in satisfied' => Decided(n)') /\ StageInv'
  <2>1. \A m \in Node \ {n} : stage'[m] = stage[m] /\ status'[m] = status[m]
    BY <1>0, TaskFacts, TaskReports
  <2> QED
    BY <1>1, <1>2, <2>1 DEF StageInv
<1>3. CASE Enter(n)
  <2>1. stage'[n] = "executing" /\ satisfied' = satisfied
    BY <1>0, <1>3 DEF Enter, tallyVars
  <2> QED
    BY <1>1, <1>2, <2>1
<1>4. CASE ManifestFails(n)
  <2>1. Settle(n, FALSE) /\ status'[n] = "failed"
    BY <1>0, <1>4 DEF ManifestFails
  <2>2. stage'[n] = "settled"
    BY <1>0, <2>1 DEF Settle
  <2> QED
    BY <1>1, <1>2, <2>1, <2>2, SettleDecides
<1>5. CASE Complete(n)
  <2>1. stage'[n] = "reviewing" /\ status'[n] = "completed" /\ satisfied' = satisfied
    BY <1>0, <1>5 DEF Complete, tallyVars
  <2> QED
    BY <1>1, <1>2, <2>1
<1>6. CASE Accept(n)
  <2>1. Return(n, TRUE) /\ status'[n] = "completed"
    BY <1>6 DEF Accept, StageInv
  <2> QED
    BY <1>1, <1>2, <2>1, ReturnDecides
<1>7. CASE Demote(n) \/ Abort(n)
  <2>1. Return(n, n \in plan.continues) /\ (n \in plan.continues) \in BOOLEAN
    BY <1>7 DEF Demote, Abort
  <2>2. PICK ok \in BOOLEAN : ok = (n \in plan.continues) /\ Return(n, ok)
    BY <2>1
  <2>3. status'[n] = "failed"
    BY <1>0, <1>7 DEF Demote, Abort
  <2> QED
    BY <1>1, <1>2, <2>2, <2>3, ReturnDecides
<1>8. CASE Fail(n)
  <2>1. PICK ok \in BOOLEAN : (ok => n \in plan.continues) /\ Return(n, ok)
    BY <1>8 DEF Fail
  <2>2. status'[n] = "failed"
    BY <1>0, <1>8 DEF Fail
  <2> QED
    BY <1>1, <1>2, <2>1, <2>2, ReturnDecides
<1>9. CASE Leave(n)
  <2>1. PICK ok \in BOOLEAN : Settle(n, ok) /\ (ok => stage[n] = "leaving")
    BY <1>9 DEF Leave
  <2>2. stage[n] \in {"leaving", "failing"} /\ status' = status
    BY <1>9 DEF Leave
  <2>3. \/ status'[n] = "completed"
        \/ status'[n] = "failed" /\ (ok => n \in plan.continues)
    BY <2>1, <2>2 DEF StageInv
  <2>4. stage'[n] = "settled"
    BY <1>0, <2>1 DEF Settle
  <2> QED
    BY <1>1, <1>2, <2>1, <2>3, <2>4, SettleDecides
<1> QED
  BY <1>3, <1>4, <1>5, <1>6, <1>7, <1>8, <1>9 DEF Task, Ends, Returns

(* What is decided stays so within a wave. *)
LEMMA DecidedStays ==
  ASSUME NEW i, Decided(i), status'[i] = status[i],
         UNCHANGED <<plan, wave, skip, outcome>>,
         untaken \subseteq untaken', failedGroups \subseteq failedGroups'
  PROVE  Decided(i)'
<1>1. Absent(i) => Absent(i)'
  BY DEF Absent, WrongOutcome
<1>2. PassedBy(i) => PassedBy(i)'
  BY DEF PassedBy, BranchFailureMode
<1> QED
  BY <1>1, <1>2 DEF Decided

\* A step keeps the stages and the statuses together.
LEMMA StageStep == TypeOK /\ WaveInv /\ StageInv /\ [Next]_vars => StageInv'
<1> SUFFICES ASSUME TypeOK, WaveInv, StageInv, [Next]_vars PROVE StageInv'
  OBVIOUS
<1> USE DEF runVars, nodeVars
<1>0. DataOK
  BY DEF TypeOK
<1>1. CASE BeginOverBudget \/ Begin
  BY <1>1 DEF BeginOverBudget, Begin, Invocation, StageInv
<1>2. CASE PrepareOk \/ PrepareFails \/ Judged \/ Finalize
  BY <1>2 DEF PrepareOk, PrepareFails, Judged, Finalize, StageInv
<1>3. CASE Drain \/ Crash
  <2>1. \A n \in Node : stage'[n] = "idle"
    BY <1>3 DEF Drain, Crash
  <2> QED
    BY <2>1 DEF StageInv
<1>4. CASE LoopTop \/ EndScan \/ Skipped \/ GateThrows
  BY <1>4 DEF LoopTop, EndScan, Skipped, GateThrows, StageInv
<1>5. CASE OpenGate
  <2>1. pc = "gate" /\ gating \in Node
    BY <1>0, <1>5 DEF OpenGate, DataOK
  <2>2. stage'[gating] \in {"entering", "executing"} /\ plan' = plan
    BY <1>0, <1>5, <2>1 DEF OpenGate, DataOK
  <2>3. \A n \in Node \ {gating} : stage'[n] = stage[n] /\ status'[n] = status[n]
    BY <1>0, <1>5 DEF OpenGate, DataOK
  <2> QED
    BY <2>2, <2>3 DEF StageInv
<1>6. CASE ShutGate
  <2>1. stage[gating] = "idle" /\ UNCHANGED <<stage, plan>> /\ gating \in Node
    BY <1>0, <1>6 DEF ShutGate, WaveInv, Running, DataOK
  <2>2. \A n \in Node \ {gating} : status'[n] = status[n]
    BY <1>0, <1>6 DEF ShutGate, DataOK
  <2> QED
    BY <2>1, <2>2 DEF StageInv
<1>7. ASSUME NEW n \in Node, Consider(n) PROVE StageInv'
  <2>1. n \in pending
    BY <1>7 DEF Consider, Candidates, WaveInv, InWave
  <2>2. stage[n] = "idle" /\ UNCHANGED <<stage, plan>>
    BY <1>7, <2>1 DEF Consider, WaveInv, InWave, Running
  <2>3. \A m \in Node \ {n} : status'[m] = status[m]
    BY <1>0, <1>7 DEF Consider, DataOK
  <2> QED
    BY <2>2, <2>3 DEF StageInv
<1>8. ASSUME NEW n \in Node, Collect(n) PROVE StageInv'
  BY <1>0, <1>8 DEF Collect, Collected, StageInv, DataOK
<1>9. ASSUME NEW n \in Node, Task(n) PROVE StageInv'
  BY <1>9, TaskDecides
<1>10. CASE UNCHANGED vars
  BY <1>10 DEF vars, StageInv
<1> QED
  BY <1>1, <1>2, <1>3, <1>4, <1>5, <1>6, <1>7, <1>8, <1>9, <1>10
     DEF Next, Steps, Attempt, Loop

(* Nothing is at work outside a wave, nor when one begins. *)
LEMMA NobodyAtWork ==
  ASSUME pc' \notin {"gate", "skipping"}, Running' = {},
         pc' \in InWave => \A i \in satisfied' : Decided(i)'
  PROVE  StatusInv'
<1>1. Live' = {}
  BY DEF Live, Running
<1> QED
  BY <1>1 DEF StatusInv

\* A step keeps what a node that is at work has found decided.
LEMMA StatusStep ==
  TypeOK /\ WaveInv /\ StageInv /\ StatusInv /\ [Next]_vars => StatusInv'
<1> SUFFICES ASSUME TypeOK, WaveInv, StageInv, StatusInv, [Next]_vars PROVE StatusInv'
  OBVIOUS
<1> USE DEF runVars, nodeVars, waveVars, tallyVars
<1>0. DataOK
  BY DEF TypeOK
<1>1. ASSUME NEW w \in {"graph", "outcome"}, EnterWave(w), status' = status
      PROVE  pc' = "loop" /\ \A i \in satisfied' : Decided(i)'
  BY <1>1 DEF EnterWave, CompletedBefore, Decided
<1>2. CASE BeginOverBudget \/ Begin \/ PrepareOk \/ PrepareFails \/ Judged \/ Finalize
  <2>1. pc \notin InWave /\ stage' = stage /\ status' = status
    BY <1>2 DEF BeginOverBudget, Begin, Invocation, PrepareOk, PrepareFails, Judged,
                Finalize, InWave
  <2>2. Running' = {}
    BY <2>1 DEF WaveInv, Running
  <2>3. pc' \in InWave => pc' = "loop" /\ \A i \in satisfied' : Decided(i)'
    BY <1>1, <1>2, <2>1 DEF BeginOverBudget, Begin, Invocation, PrepareOk, PrepareFails,
                            Judged, Finalize, WaveUnchanged, InWave
  <2>4. pc' \notin {"gate", "skipping"}
    BY <2>3 DEF InWave
  <2> QED
    BY <2>2, <2>3, <2>4, NobodyAtWork
<1>3. CASE Drain \/ Crash
  <2>1. pc' \notin InWave /\ Running' = {}
    BY <1>3 DEF Drain, Crash, Running, InWave
  <2> QED
    BY <2>1, NobodyAtWork DEF InWave
<1>4. CASE Loop
  <2>1. \A i \in satisfied : Decided(i)'
    <3>1. \A i \in satisfied : i \in Node /\ i \notin pending \cup Gated
      BY <1>0, <1>4, LoopFacts DEF WaveInv, Gated, DataOK
    <3>2. \A i \in satisfied : status'[i] = status[i]
      BY <1>4, <3>1, LoopFacts
    <3> QED
      BY <1>4, <3>2, LoopFacts, DecidedStays DEF StatusInv
  <2>2. \A n \in Live : plan'.inputs[n] \cap WaveNodes' \cap untaken' = {}
    <3>1. WaveNodes' = WaveNodes /\ pc \in InWave
      BY <1>4, LoopFacts DEF WaveNodes, Graph, Post
    <3>2. \A n \in Live : plan.inputs[n] \cap WaveNodes \subseteq satisfied
      BY <1>0, <3>1, DependenciesAssumption DEF WaveInv, Live, DataOK
    <3>3. satisfied \cap (pending \cup Gated) = {}
      BY <3>1 DEF WaveInv, Gated
    <3> QED
      BY <1>4, <3>1, <3>2, <3>3, LoopFacts DEF StatusInv
  <2>3. CASE LoopTop \/ EndScan \/ GateThrows
    <3>1. UNCHANGED <<satisfied, Live>> /\ pc' \notin {"gate", "skipping"}
      BY <2>3 DEF LoopTop, EndScan, GateThrows, Live
    <3> QED
      BY <2>1, <2>2, <3>1 DEF StatusInv
  <2>4. CASE Skipped
    <3>0. PICK n : n = gating
      OBVIOUS
    <3>1. /\ satisfied' = satisfied \cup {n} /\ pc = "skipping" /\ pc' = "scan"
          /\ UNCHANGED <<Live, plan, wave, skip, outcome, untaken, failedGroups, status>>
      BY <2>4, <3>0 DEF Skipped, Live
    <3>2. Decided(n)'
      BY <3>0, <3>1, DecidedStays DEF StatusInv
    <3> QED
      BY <2>1, <2>2, <3>1, <3>2 DEF StatusInv
  <2>5. CASE OpenGate
    <3>1. pc = "gate" /\ pc' = "scan" /\ satisfied' = satisfied /\ gating \in Node
          /\ UNCHANGED <<plan, WaveNodes, untaken>>
      BY <1>0, <2>5 DEF OpenGate, DataOK, WaveNodes, Graph, Post
    <3>2. Live' = Live \cup {gating}
      BY <1>0, <2>5, <3>1 DEF OpenGate, Live, DataOK
    <3>3. plan'.inputs[gating] \cap WaveNodes' \cap untaken' = {}
      BY <3>1 DEF StatusInv
    <3> QED
      BY <2>1, <2>2, <3>1, <3>2, <3>3 DEF StatusInv
  <2>6. CASE ShutGate
    <3>1. /\ pc' = "skipping" /\ UNCHANGED <<satisfied, gating, Live>> /\ gating \in untaken'
          /\ gating \in Node
      BY <1>0, <2>6 DEF ShutGate, Live, DataOK
    <3>2. status'[gating] = "skipped"
      BY <1>0, <2>6, <3>1 DEF ShutGate, DataOK
    <3> QED
      BY <2>1, <2>2, <3>1, <3>2 DEF StatusInv, Decided
  <2>7. ASSUME NEW n \in Node, Consider(n) PROVE StatusInv'
    <3>1. /\ pc' \in {"gate", "skipping"} /\ gating' = n
          /\ UNCHANGED <<satisfied, Live, plan, WaveNodes, skip, failedGroups, outcome>>
          /\ pc = "scan" /\ Ready(n) /\ n \in pending
      BY <2>7 DEF Consider, Live, WaveNodes, Graph, Post, Candidates, WaveInv, InWave
    <3>2. ASSUME pc' = "skipping" PROVE status'[n] = "skipped" /\ Decided(n)'
      <4>1. status'[n] = "skipped" /\ GatedOff(n)
        BY <1>0, <2>7, <3>2 DEF Consider, DataOK
      <4>2. n \in untaken' \/ Absent(n)
        BY <2>7, <4>1 DEF Consider, GatedOff, JoinsFailedGroup, Absent
      <4>3. Absent(n) => Absent(n)'
        BY <3>1 DEF Absent, WrongOutcome
      <4> QED
        BY <4>1, <4>2, <4>3 DEF Decided
    <3>3. ASSUME pc' = "gate" PROVE plan'.inputs[n] \cap WaveNodes' \cap untaken' = {}
      <4>1. ~ GatedOff(n)
        BY <2>7, <3>3 DEF Consider
      <4>2. plan.inputs[n] \cap untaken = {} /\ untaken' = untaken
        BY <2>7, <4>1 DEF Consider, GatedOff, Upstream
      <4> QED
        BY <3>1, <4>2
    <3> QED
      BY <2>1, <2>2, <3>1, <3>2, <3>3 DEF StatusInv
  <2>8. ASSUME NEW n \in Node, Collect(n) PROVE StatusInv'
    <3>1. UNCHANGED <<satisfied, Live>> /\ pc' \notin {"gate", "skipping"}
      BY <1>0, <2>8 DEF Collect, Collected, Live, DataOK
    <3> QED
      BY <2>1, <2>2, <3>1 DEF StatusInv
  <2> QED
    BY <1>4, <2>3, <2>4, <2>5, <2>6, <2>7, <2>8 DEF Loop
<1>5. ASSUME NEW n \in Node, Task(n) PROVE StatusInv'
  <2>1. /\ UNCHANGED <<pc, wave, plan, gating, skip, outcome>> /\ pc \in InWave
        /\ untaken \subseteq untaken' /\ untaken' \subseteq untaken \cup {n}
        /\ failedGroups \subseteq failedGroups'
        /\ satisfied' \subseteq satisfied \cup {n}
        /\ \A m \in Node \ {n} : status'[m] = status[m]
    BY <1>0, <1>5, TaskFacts, TaskReports
  <2>2. n \in Live /\ n \in Running /\ Live' \subseteq Live
    BY <1>0, <1>5, TaskFacts DEF Live, Running
  <2>3. n \notin satisfied /\ (pc \in {"gate", "skipping"} => gating # n /\ gating \in Node)
    BY <1>0, <2>1, <2>2 DEF WaveInv, DataOK
  <2>4. ASSUME NEW i \in Node \ {n}, Decided(i) PROVE Decided(i)'
    BY <2>1, <2>4, DecidedStays
  <2>5. \A i \in satisfied' : Decided(i)'
    <3>1. n \in satisfied' => Decided(n)'
      BY <1>5, TaskDecides
    <3>2. satisfied \subseteq Node
      BY <1>0 DEF DataOK
    <3> QED
      BY <2>1, <2>3, <2>4, <3>1, <3>2 DEF StatusInv
  <2>6. WaveNodes' = WaveNodes
    BY <2>1 DEF WaveNodes, Graph, Post
  <2>7. ASSUME NEW m \in Node, plan.deps[m] \cap WaveNodes \subseteq satisfied,
               plan.inputs[m] \cap WaveNodes \cap untaken = {}
        PROVE  plan.inputs[m] \cap WaveNodes \cap untaken' = {}
    <3>1. plan.inputs[m] \subseteq plan.deps[m]
      BY <1>0, DependenciesAssumption DEF DataOK
    <3> QED
      BY <2>1, <2>3, <2>7, <3>1
  <2>8. \A m \in Live' : plan'.inputs[m] \cap WaveNodes' \cap untaken' = {}
    <3>1. \A m \in Live : m \in Node /\ plan.deps[m] \cap WaveNodes \subseteq satisfied
                          /\ plan.inputs[m] \cap WaveNodes \cap untaken = {}
      BY <2>1 DEF WaveInv, StatusInv, Live
    <3> QED
      BY <2>1, <2>2, <2>6, <2>7, <3>1
  <2>9. pc = "gate" => plan'.inputs[gating] \cap WaveNodes' \cap untaken' = {}
    <3>1. pc = "gate" => gating \in Node /\ plan.deps[gating] \cap WaveNodes \subseteq satisfied
                          /\ plan.inputs[gating] \cap WaveNodes \cap untaken = {}
      BY <2>3 DEF WaveInv, StatusInv, Ready
    <3> QED
      BY <2>1, <2>6, <2>7, <3>1
  <2>10. pc = "skipping" => status'[gating] = "skipped" /\ Decided(gating)'
    BY <2>1, <2>3, <2>4 DEF StatusInv
  <2> QED
    BY <2>1, <2>5, <2>8, <2>9, <2>10 DEF StatusInv
<1>6. CASE UNCHANGED vars
  <2>1. UNCHANGED <<Live, WaveNodes>>
    BY <1>6 DEF vars, Live, WaveNodes, Graph, Post
  <2>2. \A i \in Node : Decided(i) => Decided(i)'
    BY <1>6, DecidedStays DEF vars
  <2>3. satisfied \subseteq Node /\ (pc = "skipping" => gating \in Node)
    BY <1>0 DEF DataOK
  <2> QED
    BY <1>6, <2>1, <2>2, <2>3 DEF vars, StatusInv
<1> QED
  BY <1>2, <1>3, <1>4, <1>5, <1>6 DEF Next, Steps, Attempt

\* All of these hold always.
LEMMA StatusAlways ==
  Spec => [](TypeOK /\ WaveInv /\ TallyInv /\ StageInv /\ StatusInv)
<1>1. Init => StageInv /\ StatusInv
  BY DEF Init, StageInv, StatusInv, InWave, Live
<1> QED
  BY <1>1, TallyAlways, StageStep, StatusStep, PTL DEF Spec

(* A node works only on inputs that were taken: completed, or absent because
   the user, the verdict or its group wanted it so. *)
THEOREM InputsAlwaysThere == Spec => []InputsAreThere
<1>1. TypeOK /\ WaveInv /\ StatusInv => InputsAreThere
  <2> SUFFICES ASSUME TypeOK, WaveInv, StatusInv PROVE InputsAreThere
    OBVIOUS
  <2>1. ASSUME NEW n \in Live, NEW i \in plan.inputs[n] \cap WaveNodes
        PROVE  i \notin untaken /\ Decided(i)
    <3>1. n \in Running /\ n \in Node
      BY DEF Live, Running
    <3>2. pc \in InWave
      BY <3>1 DEF WaveInv
    <3>3. i \in plan.deps[n]
      BY <3>1, DependenciesAssumption DEF TypeOK, DataOK
    <3>4. i \in satisfied
      BY <3>2, <3>3 DEF WaveInv
    <3> QED
      BY <3>2, <3>4 DEF StatusInv
  <2> QED
    BY <2>1 DEF InputsAreThere, Decided, PassedBy, Absent
<1> QED
  BY <1>1, StatusAlways, PTL

-----------------------------------------------------------------------------
(* Work that is done.                                                      *)

\* A completed node is back in a wave only to be reconsidered, and no attempt
\* completes a node ahead of its time.
RedoInv ==
  /\ \A n \in Node : doneIn[n] <= attempt
  /\ pc \in InWave =>
       \A n \in pending : status[n] = "completed" => RerunsThisAttempt(n, wave)
  /\ pc = "gate" /\ status[gating] = "completed" => RerunsThisAttempt(gating, wave)

\* A step redoes a completed node only where that is asked for.
LEMMA RedoStep == TypeOK /\ WaveInv /\ RedoInv /\ [Next]_vars => RedoInv'
<1> SUFFICES ASSUME TypeOK, WaveInv, RedoInv, [Next]_vars PROVE RedoInv'
  OBVIOUS
<1> USE DEF runVars, nodeVars, waveVars, tallyVars
<1>0. DataOK /\ attempt \in Nat /\ \A n \in Node : doneIn[n] \in Nat
  BY AttemptsAssumption DEF TypeOK, DataOK
<1>1. ASSUME UNCHANGED doneIn, attempt' \in {attempt, attempt + 1}
      PROVE  \A n \in Node : doneIn'[n] <= attempt'
  BY <1>0, <1>1 DEF RedoInv
<1>2. ASSUME NEW w \in {"graph", "outcome"}, EnterWave(w), UNCHANGED <<plan, status, doneIn>>,
             w = "outcome" => UNCHANGED attempt
      PROVE  /\ pc' = "loop"
             /\ \A n \in pending' : status'[n] = "completed" => RerunsThisAttempt(n, wave)'
  <2>1. wave' = w /\ pc' = "loop"
    BY <1>2 DEF EnterWave
  <2>2. \A n \in pending' : n \in Node /\ n \notin CompletedBefore(w)
    BY <1>2 DEF EnterWave, Graph, Post
  <2>3. \A n \in pending' : status[n] = "completed" => RerunsThisAttempt(n, w)
    BY <2>2 DEF CompletedBefore
  <2> QED
    BY <1>2, <2>1, <2>3 DEF RerunsThisAttempt
<1>3. CASE BeginOverBudget
  BY <1>1, <1>3 DEF BeginOverBudget, Invocation, RedoInv, InWave
<1>4. CASE Begin
  <2>1. attempt' = attempt + 1 /\ UNCHANGED <<plan, status, doneIn>>
    BY <1>4 DEF Begin, Invocation
  <2>2. CASE pc' = "prepare"
    BY <1>1, <2>1, <2>2 DEF RedoInv, InWave
  <2>3. CASE EnterWave("graph")
    BY <1>1, <1>2, <2>1, <2>3 DEF RedoInv
  <2> QED
    BY <1>4, <2>2, <2>3 DEF Begin
<1>5. CASE PrepareOk \/ Judged
  <2>1. UNCHANGED <<plan, status, doneIn, attempt>>
    BY <1>5 DEF PrepareOk, Judged
  <2>2. (\E w \in {"graph", "outcome"} : EnterWave(w)) \/ pc' = "finalize"
    BY <1>5 DEF PrepareOk, Judged
  <2> QED
    BY <1>1, <1>2, <2>1, <2>2 DEF RedoInv, InWave
<1>6. CASE PrepareFails \/ Drain \/ Finalize \/ Crash
  <2>1. pc' \notin InWave /\ UNCHANGED <<doneIn, attempt>>
    BY <1>6 DEF PrepareFails, Drain, Finalize, Crash, InWave
  <2> QED
    BY <1>1, <2>1 DEF RedoInv, InWave
<1>7. CASE Loop
  <2>1. pc \in InWave /\ UNCHANGED <<plan, wave, attempt, doneIn>> /\ pending' \subseteq pending
    BY <1>7, LoopFacts
  <2>2. \A n : RerunsThisAttempt(n, wave) => RerunsThisAttempt(n, wave)'
    BY <2>1 DEF RerunsThisAttempt
  <2>3. ASSUME status' = status, pc' # "gate" PROVE RedoInv'
    BY <1>1, <2>1, <2>2, <2>3 DEF RedoInv
  <2>4. CASE LoopTop \/ EndScan \/ Skipped \/ GateThrows
    BY <2>3, <2>4 DEF LoopTop, EndScan, Skipped, GateThrows
  <2>5. CASE OpenGate \/ ShutGate
    <3>1. gating \notin pending /\ gating \in Node /\ pc' # "gate"
      BY <1>0, <2>5 DEF OpenGate, ShutGate, WaveInv, DataOK
    <3>2. \A n \in Node \ {gating} : status'[n] = status[n]
      BY <1>0, <2>5 DEF OpenGate, ShutGate, DataOK
    <3>3. pending \subseteq Node
      BY <1>0 DEF DataOK
    <3> QED
      BY <1>1, <2>1, <2>2, <3>1, <3>2, <3>3 DEF RedoInv
  <2>6. ASSUME NEW n \in Node, Consider(n) PROVE RedoInv'
    <3>1. n \in pending /\ pending' = pending \ {n} /\ gating' = n
      BY <2>6 DEF Consider, Candidates, WaveInv, InWave
    <3>2. /\ \A m \in Node \ {n} : status'[m] = status[m]
          /\ pc' = "gate" => status' = status
      BY <1>0, <2>6 DEF Consider, DataOK
    <3>3. pending \subseteq Node
      BY <1>0 DEF DataOK
    <3> QED
      BY <1>1, <2>1, <2>2, <3>1, <3>2, <3>3 DEF RedoInv
  <2>7. ASSUME NEW n \in Node, Collect(n) PROVE RedoInv'
    BY <2>3, <2>7 DEF Collect
  <2> QED
    BY <1>7, <2>4, <2>5, <2>6, <2>7 DEF Loop
<1>8. ASSUME NEW n \in Node, Task(n) PROVE RedoInv'
  <2>1. /\ UNCHANGED <<plan, wave, attempt, pc, pending, gating>> /\ pc \in InWave
        /\ \A m \in Node \ {n} : status'[m] = status[m] /\ doneIn'[m] = doneIn[m]
        /\ doneIn'[n] \in {doneIn[n], attempt}
    BY <1>0, <1>8, TaskFacts, TaskReports
  <2>2. n \in Running
    BY <1>0, <1>8, TaskFacts DEF Running
  <2>3. /\ \A m \in pending : m \in Node \ {n}
        /\ pc = "gate" => gating \in Node \ {n}
    BY <1>0, <2>1, <2>2 DEF WaveInv, DataOK
  <2>4. \A m \in Node \ {n} : RerunsThisAttempt(m, wave) => RerunsThisAttempt(m, wave)'
    BY <2>1 DEF RerunsThisAttempt
  <2>5. \A m \in Node : doneIn'[m] <= attempt'
    BY <1>0, <2>1 DEF RedoInv
  <2>6. pc' = "gate" /\ status'[gating'] = "completed" => RerunsThisAttempt(gating, wave)'
    <3>1. pc = "gate" /\ status[gating] = "completed" => RerunsThisAttempt(gating, wave)
      BY DEF RedoInv
    <3> QED
      BY <2>1, <2>3, <3>1 DEF RerunsThisAttempt
  <2> QED
    BY <2>1, <2>3, <2>4, <2>5, <2>6 DEF RedoInv
<1>9. CASE UNCHANGED vars
  BY <1>1, <1>9 DEF vars, RedoInv, RerunsThisAttempt
<1> QED
  BY <1>3, <1>4, <1>5, <1>6, <1>7, <1>8, <1>9 DEF Next, Steps, Attempt

(* A step that takes the completion of an idle node away reconsiders it. *)
LEMMA RedoIsAsked ==
  ASSUME TypeOK, WaveInv, RedoInv, [Next]_vars, NEW n \in Node,
         status[n] = "completed", stage[n] = "idle", status'[n] # "completed"
  PROVE  wave = "outcome" /\ plan.runOn[n] = "every_attempt" /\ doneIn[n] < attempt
<1> USE DEF runVars, nodeVars
<1>0. DataOK /\ attempt \in Nat /\ doneIn[n] \in Nat /\ doneIn[n] <= attempt
  BY AttemptsAssumption DEF TypeOK, DataOK, RedoInv
<1>1. RerunsThisAttempt(n, wave)
  <2>1. CASE Loop
    <3>1. n \in pending \cup Gated
      BY <2>1, LoopFacts
    <3>2. CASE n \in pending
      BY <2>1, <3>2, LoopFacts DEF RedoInv
    <3>3. CASE n \in Gated /\ pc = "gate"
      BY <3>3 DEF RedoInv, Gated
    <3>4. CASE n \in Gated /\ pc = "skipping"
      <4>1. status' = status
        BY <2>1, <3>4 DEF Loop, LoopTop, EndScan, Skipped, OpenGate, ShutGate, GateThrows,
                          Consider, Collect
      <4> QED
        BY <4>1
    <3> QED
      BY <3>1, <3>2, <3>3, <3>4 DEF Gated
  <2>2. ASSUME NEW m \in Node, Task(m) PROVE FALSE
    BY <1>0, <2>2, TaskFacts, TaskReports
  <2>3. CASE Crash
    BY <2>3 DEF Crash
  <2>4. CASE Begin \/ BeginOverBudget \/ Attempt \/ UNCHANGED vars
    BY <2>4 DEF Begin, BeginOverBudget, Invocation, Attempt, PrepareOk, PrepareFails,
                Drain, Judged, Finalize, vars
  <2> QED
    BY <2>1, <2>2, <2>3, <2>4 DEF Next, Steps
<1> QED
  BY <1>0, <1>1 DEF RerunsThisAttempt

(* Work that is done is not redone, in this attempt or in a resumed one, but
   for an every_attempt node, and that once per attempt. *)
THEOREM DoneStaysDone == Spec => DoneIsDone
<1>1. Init => RedoInv
  BY DEF Init, RedoInv, InWave
<1>2. TypeOK /\ WaveInv /\ RedoInv /\ [Next]_vars =>
        [\A n \in Node :
           status[n] = "completed" /\ stage[n] = "idle" /\ status'[n] # "completed"
           => /\ wave = "outcome"
              /\ plan.runOn[n] = "every_attempt"
              /\ doneIn[n] < attempt]_vars
  BY RedoIsAsked
<1> QED
  BY <1>1, <1>2, TallyAlways, RedoStep, PTL DEF Spec, DoneIsDone

-----------------------------------------------------------------------------
(* The verdict.                                                            *)

\* The run may be called a success with node n as it is.
Earned(n) == \/ status[n] \in {"completed", "skipped"}
             \/ /\ status[n] = "failed"
                /\ n \in plan.continues \/ BranchFailureMode(n) = "collect"

\* A success covers every node of the graph from the verdict to the record,
\* and the verdict is open while the graph is at work.
EarnedInv ==
  /\ outcome = "success" => \A n \in Graph : Earned(n)
  /\ pc = "prepare" \/ (pc \in InWave /\ wave = "graph") => outcome = "pending"
  /\ terminal = "run_completed" => pc = "down" /\ outcome = "success"

\* A step leaves a success that every node has earned.
LEMMA EarnedStep ==
  TypeOK /\ WaveInv /\ TallyInv /\ StatusInv /\ EarnedInv /\ [Next]_vars => EarnedInv'
<1> SUFFICES ASSUME TypeOK, WaveInv, TallyInv, StatusInv, EarnedInv, [Next]_vars
             PROVE  EarnedInv'
  OBVIOUS
<1> USE DEF runVars, nodeVars, waveVars, tallyVars
<1>0. DataOK /\ wave \in {"graph", "outcome"}
  BY DEF TypeOK, DataOK
<1>1. ASSUME plan' = plan, \A n \in Graph : status'[n] = status[n],
             outcome' \in {"pending", outcome}
      PROVE  outcome' = "success" => \A n \in Graph' : Earned(n)'
  BY <1>1 DEF EarnedInv, Earned, Graph, Post, BranchFailureMode
<1>2. CASE BeginOverBudget
  BY <1>1, <1>2 DEF BeginOverBudget, Invocation, EarnedInv, InWave
<1>3. CASE Begin
  <2>1. outcome' = "pending" /\ terminal' = "none"
    BY <1>3 DEF Begin, Invocation
  <2> QED
    BY <2>1 DEF EarnedInv
<1>4. CASE PrepareOk \/ PrepareFails
  <2>1. UNCHANGED <<plan, status, outcome, terminal>> /\ pc = "prepare"
    BY <1>4 DEF PrepareOk, PrepareFails
  <2> QED
    BY <1>1, <2>1 DEF EarnedInv
<1>5. CASE Drain
  <2>1. pc = "drain" /\ pc' \in {"judged", "finalize", "down"} /\ UNCHANGED <<plan, status, terminal>>
    BY <1>5 DEF Drain
  <2>2. CASE wave = "graph" /\ outcome' = "success"
    <3>1. thrown = "no" /\ ~ failed /\ failedGroups = {}
      BY <1>5, <2>2 DEF Drain, WaveSucceeded
    <3>2. Graph \subseteq satisfied
      <4>1. pending = {} /\ Live = {} /\ Gated = {}
        BY <2>1, <3>1 DEF TallyInv, Live, Running, Gated
      <4> QED
        BY <2>1, <2>2, <3>1, <4>1 DEF TallyInv, InWave, WaveNodes
    <3>3. ASSUME NEW n \in Graph PROVE Earned(n)
      <4>1. Decided(n)
        BY <2>1, <3>2 DEF StatusInv, InWave
      <4> QED
        BY <2>2, <3>1, <4>1 DEF Decided, PassedBy, Earned
    <3> QED
      BY <2>1, <3>3 DEF EarnedInv, Earned, InWave, Graph, Post, BranchFailureMode
  <2>3. CASE wave # "graph" \/ outcome' # "success"
    <3>1. outcome' = "success" => outcome' = outcome
      BY <1>5, <2>3 DEF Drain
    <3> QED
      BY <1>1, <2>1, <3>1 DEF EarnedInv, InWave
  <2> QED
    BY <2>2, <2>3
<1>6. CASE Judged
  <2>1. UNCHANGED <<plan, status, outcome, terminal>> /\ pc = "judged"
    BY <1>6 DEF Judged
  <2>2. pc' = "finalize" \/ (pc' = "loop" /\ wave' = "outcome")
    BY <1>6 DEF Judged, EnterWave
  <2> QED
    BY <1>1, <2>1, <2>2 DEF EarnedInv, InWave
<1>7. CASE Finalize
  <2>1. UNCHANGED <<plan, status, outcome>> /\ pc' = "down"
    BY <1>7 DEF Finalize
  <2>2. terminal' = "run_completed" => outcome = "success"
    BY <1>7 DEF Finalize
  <2> QED
    BY <1>1, <2>1, <2>2 DEF EarnedInv, InWave
<1>8. CASE Loop
  <2>1. /\ UNCHANGED <<plan, outcome, terminal, wave>> /\ pc \in InWave /\ pc' \in InWave
    BY <1>8, LoopFacts
  <2>2. wave = "outcome" => \A n \in Graph : n \in Node /\ n \notin pending \cup Gated
    BY <2>1 DEF WaveInv, Gated, WaveNodes, Graph
  <2>3. wave = "outcome" => \A n \in Graph : status'[n] = status[n]
    BY <1>8, <2>2, LoopFacts
  <2> QED
    BY <1>0, <1>1, <2>1, <2>3 DEF EarnedInv, InWave
<1>9. ASSUME NEW n \in Node, Task(n) PROVE EarnedInv'
  <2>1. /\ UNCHANGED <<plan, outcome, terminal, wave, pc>> /\ pc \in InWave /\ n \in Running
        /\ \A m \in Node \ {n} : status'[m] = status[m]
    BY <1>0, <1>9, TaskFacts, TaskReports DEF Running
  <2>2. wave = "outcome" => \A m \in Graph : m \in Node \ {n}
    BY <2>1 DEF WaveInv, WaveNodes, Graph
  <2> QED
    BY <1>0, <1>1, <2>1, <2>2 DEF EarnedInv, InWave
<1>10. CASE Crash
  <2>1. pc # "down" /\ pc' = "down" /\ UNCHANGED <<plan, outcome, terminal>>
    BY <1>10 DEF Crash
  <2>2. ASSUME outcome = "success", NEW n \in Graph PROVE status'[n] = status[n]
    <3>1. n \notin Running
      BY <1>0, <2>2 DEF EarnedInv, WaveInv, WaveNodes, Graph
    <3>2. stage[n] # "reviewing" /\ n \in Node
      BY <3>1 DEF Running, Graph
    <3> QED
      BY <1>10, <3>2 DEF Crash
  <2>3. outcome' = "success" => \A n \in Graph' : Earned(n)'
    BY <2>1, <2>2 DEF EarnedInv, Earned, Graph, Post, BranchFailureMode
  <2> QED
    BY <2>1, <2>3 DEF EarnedInv, InWave
<1>11. CASE UNCHANGED vars
  BY <1>1, <1>11 DEF vars, EarnedInv
<1> QED
  BY <1>2, <1>3, <1>4, <1>5, <1>6, <1>7, <1>8, <1>9, <1>10, <1>11
     DEF Next, Steps, Attempt

(* A recorded run_completed hides no failure, and an outcome wave that ends
   has decided everybody who waits for the verdict. *)
THEOREM VerdictIsAlwaysTrue == Spec => []VerdictIsTrue
<1>1. Init => EarnedInv
  BY DEF Init, EarnedInv, InWave
<1>2. TallyInv => OutcomeWaveIsWhole
  BY DEF TallyInv, OutcomeWaveIsWhole
<1>3. EarnedInv => CompletionIsEarned
  BY DEF EarnedInv, Earned, CompletionIsEarned
<1>4. OutcomeWaveIsWhole /\ CompletionIsEarned => VerdictIsTrue
  BY DEF VerdictIsTrue
<1> QED
  BY <1>1, <1>2, <1>3, <1>4, StatusAlways, EarnedStep, PTL DEF Spec

-----------------------------------------------------------------------------
(* Joins.                                                                  *)

\* No branch of g goes on past a member that is left unfinished.
Strict(g) == /\ g # NoGroup
             /\ Members(g) \cap Post = {}
             /\ Members(g) \cap (plan.continues \cup UNION plan.skips) = {}

\* What member s of a group has read in its branch is completed for good.
InOrder(s) ==
  \A x \in plan.inputs[s] \cap Members(plan.group[s]) :
     status[x] = "completed" /\ x \notin Live

\* The members of a strict group are completed in order, in whatever attempt.
OrderInv ==
  /\ skip = {} \/ skip \in plan.skips
  /\ attempt = 0 \/ (attempt = 1 /\ pc = "prepare") =>
       \A n \in Node : status[n] # "completed"
  /\ pc = "skipping" => Ready(gating)
  /\ \A s \in Node :
       Strict(plan.group[s]) /\ (status[s] = "completed" \/ s \in Live) => InOrder(s)
  /\ pc = "gate" /\ Strict(plan.group[gating]) => InOrder(gating)

(* A completion that is not to be reconsidered stays while others move. *)
LEMMA InOrderStays ==
  ASSUME TypeOK, WaveInv, StatusInv, RedoInv, [Next]_vars,
         NEW s \in Node, Strict(plan.group[s]), InOrder(s)
  PROVE  InOrder(s)'
<1> USE DEF runVars, nodeVars, waveVars, tallyVars
<1>0. DataOK
  BY DEF TypeOK
<1>1. plan' = plan
  BY <1>0, TaskFacts DEF Next, Steps, Begin, BeginOverBudget, Invocation, Attempt, PrepareOk,
         PrepareFails, Drain, Judged, Finalize, Loop, LoopTop, EndScan, Skipped, OpenGate,
         ShutGate, GateThrows, Consider, Collect, Crash, vars
<1>2. ASSUME NEW x \in Members(plan.group[s]), status[x] = "completed", x \notin Live
      PROVE  status'[x] = "completed" /\ x \notin Live'
  <2>1. x \in Node /\ x \notin Post /\ stage[x] \in {"idle", "settled"}
    BY <1>2 DEF Strict, Members, Live
  <2>2. plan.runOn[x] # "every_attempt"
    BY <2>1 DEF Post
  <2>3. CASE Loop
    <3>1. x \notin pending \cup Gated
      BY <1>2, <2>2, <2>3, LoopFacts DEF RedoInv, RerunsThisAttempt, StatusInv, Gated
    <3> QED
      BY <1>2, <2>1, <2>3, <3>1, LoopFacts DEF Live
  <2>4. ASSUME NEW n \in Node, Task(n) PROVE status'[x] = status[x] /\ stage'[x] = stage[x]
    BY <1>0, <2>1, <2>4, TaskFacts, TaskReports
  <2>5. CASE Crash \/ Drain
    BY <1>0, <1>2, <2>1, <2>5 DEF Crash, Drain, Live, DataOK
  <2>6. CASE Begin \/ BeginOverBudget \/ PrepareOk \/ PrepareFails \/ Judged \/ Finalize
             \/ UNCHANGED vars
    <3>1. UNCHANGED <<status, stage>>
      BY <2>6 DEF Begin, BeginOverBudget, Invocation, PrepareOk, PrepareFails, Judged,
                  Finalize, vars
    <3> QED
      BY <1>2, <3>1 DEF Live
  <2> QED
    BY <1>2, <2>1, <2>3, <2>4, <2>5, <2>6 DEF Next, Steps, Attempt, Live
<1> QED
  BY <1>1, <1>2 DEF InOrder, Members

(* A member of a strict group opens its gate on completed members only. *)
LEMMA ConsideredInOrder ==
  ASSUME TypeOK, WaveInv, StatusInv, OrderInv, NEW n \in Node, Consider(n),
         ~ GatedOff(n), Strict(plan.group[n])
  PROVE  InOrder(n)
<1>0. DataOK
  BY DEF TypeOK
<1>1. n \in pending /\ Ready(n) /\ pc \in InWave
  BY DEF Consider, Candidates, WaveInv, InWave
<1>2. n \in Graph /\ WaveNodes = Graph
  <2>1. n \in WaveNodes /\ n \in Members(plan.group[n])
    BY <1>1 DEF WaveInv, Members
  <2> QED
    BY <2>1 DEF Strict, WaveNodes, Graph
<1>3. ASSUME NEW x \in plan.inputs[n] \cap Members(plan.group[n])
      PROVE  status[x] = "completed" /\ x \notin Live
  <2>1. x \in Graph /\ x \in Node /\ plan.group[x] = plan.group[n]
    BY DEF Strict, Graph, Members
  <2>2. x \in satisfied
    <3>1. x \in plan.deps[n]
      BY <1>0, DependenciesAssumption DEF DataOK
    <3> QED
      BY <1>1, <1>2, <2>1, <3>1 DEF Ready
  <2>3. Decided(x) /\ x \notin Live
    BY <1>1, <2>2 DEF StatusInv, WaveInv
  <2>4. x \notin untaken
    BY DEF GatedOff, Upstream
  <2>5. x \notin plan.continues /\ x \notin skip
    <3>1. skip \subseteq UNION plan.skips
      BY DEF OrderInv
    <3> QED
      BY <2>1, <3>1 DEF Strict, Members
  <2>6. ~ WrongOutcome(x)
    BY <2>1 DEF WrongOutcome, Graph, Post
  <2>7. plan.join[x] \notin failedGroups
    <3>1. plan.join[x] = NoGroup
      BY <1>0, <2>1, JoinAssumption DEF Strict, DataOK
    <3> QED
      BY <1>0, <3>1, NoneAssumption DEF DataOK
  <2> QED
    BY <2>3, <2>4, <2>5, <2>6, <2>7 DEF Decided, PassedBy, Absent
<1> QED
  BY <1>3 DEF InOrder

\* A step keeps the order in which nodes are decided.
LEMMA OrderStep ==
  TypeOK /\ WaveInv /\ VerdictInv /\ StatusInv /\ RedoInv /\ OrderInv /\ [Next]_vars
  => OrderInv'
<1> SUFFICES ASSUME TypeOK, WaveInv, VerdictInv, StatusInv, RedoInv, OrderInv, [Next]_vars
             PROVE  OrderInv'
  OBVIOUS
<1> USE DEF runVars, nodeVars, waveVars, tallyVars
<1>0. DataOK /\ attempt \in Nat
  BY AttemptsAssumption DEF TypeOK, DataOK
<1>1. ASSUME NEW s \in Node, Strict(plan.group[s]), InOrder(s) PROVE InOrder(s)'
  BY <1>1, InOrderStays
\* What is left when nobody starts and no gate opens.
<1>2. ASSUME plan' = plan, pc' \notin {"gate", "skipping"},
             skip' = {} \/ skip' \in plan.skips,
             attempt' = 0 \/ (attempt' = 1 /\ pc' = "prepare") =>
               \A n \in Node : status'[n] # "completed",
             \A s \in Node : (status'[s] = "completed" \/ s \in Live') =>
                               (status[s] = "completed" \/ s \in Live)
      PROVE  OrderInv'
  BY <1>1, <1>2 DEF OrderInv, Strict, Members, Post
<1>3. CASE Begin \/ BeginOverBudget
  <2>1. /\ plan' = plan /\ skip' \in plan.skips /\ attempt' = attempt + 1
        /\ UNCHANGED <<status, stage>>
    BY <1>3 DEF Begin, BeginOverBudget, Invocation
  <2>2. pc = "down" /\ pc' \in {"down", "prepare", "loop"}
    BY <1>3 DEF Begin, BeginOverBudget, Invocation, EnterWave
  <2>3. Live' = Live
    BY <2>1 DEF Live
  <2>4. attempt' = 1 => attempt = 0
    BY <1>0, <2>1
  <2> QED
    BY <1>0, <1>2, <2>1, <2>2, <2>3, <2>4 DEF OrderInv
<1>4. CASE PrepareOk \/ PrepareFails \/ Judged \/ Finalize \/ Drain \/ Crash
  <2>1. /\ UNCHANGED <<plan, skip, attempt>> /\ pc # "down"
        /\ pc' \in {"loop", "down", "finalize", "judged"}
    BY <1>4 DEF PrepareOk, PrepareFails, Judged, Finalize, Drain, Crash, EnterWave
  <2>2. \A s \in Node : /\ status'[s] = "completed" => status[s] = "completed"
                        /\ s \in Live' => s \in Live
    BY <1>4 DEF PrepareOk, PrepareFails, Judged, Finalize, Drain, Crash, Live
  <2> QED
    BY <1>2, <2>1, <2>2 DEF OrderInv
<1>5. CASE LoopTop \/ EndScan \/ Skipped \/ GateThrows
  <2>1. /\ UNCHANGED <<plan, skip, attempt, status, Live>>
        /\ pc' \in {"loop", "drain", "scan", "race"}
    BY <1>5 DEF LoopTop, EndScan, Skipped, GateThrows, Live
  <2> QED
    BY <1>2, <2>1 DEF OrderInv
<1>6. CASE OpenGate
  <2>1. pc = "gate" /\ pc' = "scan" /\ gating \in Node /\ UNCHANGED <<plan, skip, attempt>>
    BY <1>0, <1>6 DEF OpenGate, DataOK
  <2>2. Live' = Live \cup {gating} /\ \A s \in Node \ {gating} : status'[s] = status[s]
    BY <1>0, <1>6, <2>1 DEF OpenGate, Live, DataOK
  <2>3. \A n \in Node : status'[n] = "completed" => status[n] = "completed"
    BY <1>0, <1>6, <2>1 DEF OpenGate, DataOK
  <2>4. \A s \in Node : Strict(plan.group[s]) /\ (status'[s] = "completed" \/ s \in Live')
                          => InOrder(s)
    BY <2>1, <2>2, <2>3 DEF OrderInv
  <2> QED
    BY <1>1, <2>1, <2>3, <2>4 DEF OrderInv, Strict, Members, Post
<1>7. CASE ShutGate
  <2>1. pc = "gate" /\ pc' = "skipping" /\ gating \in Node
        /\ UNCHANGED <<plan, skip, attempt, Live, gating, satisfied, wave>>
    BY <1>0, <1>7 DEF ShutGate, Live, DataOK
  <2>2. \A s \in Node : status'[s] = "completed" => status[s] = "completed"
    BY <1>0, <1>7 DEF ShutGate, DataOK
  <2>3. Ready(gating)'
    BY <2>1 DEF WaveInv, Ready, WaveNodes, Graph, Post
  <2> QED
    BY <1>1, <2>1, <2>2, <2>3 DEF OrderInv, Strict, Members, Post
<1>8. ASSUME NEW n \in Node, Consider(n) PROVE OrderInv'
  <2>1. pc = "scan" /\ pc' \in {"gate", "skipping"} /\ gating' = n /\ Ready(n)
        /\ UNCHANGED <<plan, skip, attempt, Live, satisfied, wave>>
    BY <1>8 DEF Consider, Candidates, Live
  <2>2. \A s \in Node : status'[s] = "completed" => status[s] = "completed"
    BY <1>0, <1>8 DEF Consider, DataOK
  <2>3. Ready(n)'
    BY <2>1 DEF Ready, WaveNodes, Graph, Post
  <2>4. pc' = "gate" /\ Strict(plan.group[n]) => InOrder(n)'
    <3>1. pc' = "gate" => ~ GatedOff(n)
      BY <1>8 DEF Consider
    <3> QED
      BY <1>1, <1>8, <3>1, ConsideredInOrder
  <2> QED
    BY <1>1, <2>1, <2>2, <2>3, <2>4 DEF OrderInv, Strict, Members, Post
<1>9. ASSUME NEW n \in Node, Collect(n) PROVE OrderInv'
  <2>1. /\ UNCHANGED <<plan, skip, attempt, status, Live>> /\ pc' \in {"loop", "drain"}
    BY <1>0, <1>9 DEF Collect, Collected, Live, DataOK
  <2> QED
    BY <1>2, <1>9, <2>1 DEF OrderInv, Collect
<1>10. ASSUME NEW n \in Node, Task(n) PROVE OrderInv'
  <2>1. /\ UNCHANGED <<plan, wave, attempt, skip, pc, gating>> /\ pc \in InWave
        /\ \A m \in Node \ {n} : status'[m] = status[m]
        /\ satisfied \subseteq satisfied'
    BY <1>0, <1>10, TaskFacts, TaskReports
  <2>2. n \in Live /\ Live' \subseteq Live
    BY <1>0, <1>10, TaskFacts DEF Live
  <2>3. \A s \in Node : status'[s] = "completed" \/ s \in Live' =>
                          status[s] = "completed" \/ s \in Live
    BY <2>1, <2>2
  <2>4. pc = "gate" \/ pc = "skipping" => gating \in Node
    BY <1>0 DEF DataOK
  <2>5. pc = "skipping" => Ready(gating)'
    BY <2>1 DEF OrderInv, Ready, WaveNodes, Graph, Post
  <2>6. pc = "gate" /\ Strict(plan.group[gating]) => InOrder(gating)'
    <3>1. ASSUME NEW g \in Node, Strict(plan.group[g]), InOrder(g), gating' = g
          PROVE  InOrder(gating)'
      <4>1. InOrder(g)'
        BY <1>1, <3>1
      <4> QED
        BY <3>1, <4>1 DEF InOrder, Members
    <3> QED
      BY <2>1, <2>4, <3>1 DEF OrderInv
  <2>7. \A s \in Node : Strict(plan.group[s]) /\ (status'[s] = "completed" \/ s \in Live')
                          => InOrder(s)'
    BY <1>1, <2>3 DEF OrderInv
  <2>8. attempt = 0 \/ (attempt = 1 /\ pc = "prepare") => FALSE
    <3>1. n \in Running
      BY <2>2 DEF Live, Running
    <3> QED
      BY <2>1, <3>1 DEF VerdictInv, InWave
  <2> QED
    BY <2>1, <2>5, <2>6, <2>7, <2>8 DEF OrderInv, Strict, Members, Post
<1>11. CASE UNCHANGED vars
  <2>1. UNCHANGED <<plan, skip, attempt, status, Live, pc, gating, satisfied, wave>>
    BY <1>11 DEF vars, Live
  <2> QED
    BY <2>1 DEF OrderInv, InOrder, Strict, Members, Post, Ready, WaveNodes, Graph
<1> QED
  BY <1>3, <1>4, <1>5, <1>6, <1>7, <1>8, <1>9, <1>10, <1>11
     DEF Next, Steps, Attempt, Loop

\* A wave of the graph that goes in order is closed under what it has read, and
\* a join is at its gate or at work only when its group is finished and whole.
Closed(s) == plan.inputs[s] \cap Members(plan.group[s]) \subseteq satisfied
Whole(n) == /\ plan.join[n] \notin failedGroups
            /\ wave = "graph" => Members(plan.join[n]) \subseteq satisfied
JoinsInOrder(n) == plan.join[n] # NoGroup /\ GoesInOrder(plan.join[n])

JoinInv ==
  /\ pc \in InWave /\ wave = "graph" =>
       \A s \in satisfied :
          plan.group[s] # NoGroup /\ GoesInOrder(plan.group[s]) => Closed(s)
  /\ \A n \in Live : JoinsInOrder(n) => Whole(n)
  /\ pc = "gate" /\ JoinsInOrder(gating) => Whole(gating)

(* Once the dependencies of a join are met, its whole group is finished: a
   graph has no endless branch. *)
LEMMA MembersDone ==
  ASSUME TypeOK, WaveInv, JoinInv, pc \in InWave, wave = "graph",
         NEW n \in Node, JoinsInOrder(n), Ready(n)
  PROVE  Members(plan.join[n]) \subseteq satisfied
<1> DEFINE U == Members(plan.join[n]) \ satisfied
<1> SUFFICES ASSUME U # {} PROVE FALSE
  OBVIOUS
<1>0. plan \in Plans
  BY DEF TypeOK, DataOK
<1>1. U \in (SUBSET Node) \ {{}}
  BY DEF Members
<1>2. PICK m \in U : \A k \in U : m \notin plan.deps[k]
  BY <1>0, <1>1, AcyclicAssumption
<1>3. m \in Node /\ plan.group[m] = plan.join[n] /\ m \in WaveNodes /\ m \notin satisfied
  BY DEF Members, JoinsInOrder, GoesInOrder, WaveNodes, Graph
<1>4. CASE m \in plan.deps[n]
  BY <1>3, <1>4 DEF Ready
<1>5. ASSUME NEW s \in Node, plan.group[s] = plan.join[n], m \in plan.inputs[s] PROVE FALSE
  <2>1. m \in plan.deps[s]
    BY <1>0, <1>5, DependenciesAssumption
  <2>2. s \in satisfied
    BY <1>2, <1>5, <2>1 DEF Members
  <2>3. Closed(s)
    BY <1>5, <2>2 DEF JoinInv, JoinsInOrder
  <2> QED
    BY <1>3, <1>5, <2>3 DEF Closed, Members
<1> QED
  BY <1>0, <1>3, <1>4, <1>5, JoinAssumption DEF JoinsInOrder

(* A wave of the graph begins closed: what an earlier attempt has completed in
   a group, it has completed in order. *)
LEMMA EntersClosed ==
  ASSUME TypeOK, WaveInv, OrderInv, EnterWave("graph"), Running = {},
         UNCHANGED <<plan, status>>,
         attempt' = 1 => \A n \in Node : status[n] # "completed"
  PROVE  \A s \in satisfied' :
           plan.group[s] # NoGroup /\ GoesInOrder(plan.group[s])'
           => plan.inputs[s] \cap Members(plan.group[s]) \subseteq satisfied'
<1> SUFFICES ASSUME NEW s \in satisfied', plan.group[s] # NoGroup,
                    GoesInOrder(plan.group[s])',
                    NEW x \in plan.inputs[s] \cap Members(plan.group[s])
             PROVE  x \in satisfied'
  OBVIOUS
<1>1. s \in Node /\ status[s] = "completed"
  BY DEF EnterWave, CompletedBefore
<1>2. Strict(plan.group[s])
  BY <1>1 DEF GoesInOrder, Strict, Members, Post
<1>3. status[x] = "completed"
  BY <1>1, <1>2 DEF OrderInv, InOrder
<1>4. x \in Graph
  BY <1>2 DEF Strict, Members, Graph
<1> QED
  BY <1>3, <1>4 DEF EnterWave, CompletedBefore, RerunsThisAttempt, Graph

\* A step keeps a join behind its group.
LEMMA JoinStep ==
  TypeOK /\ WaveInv /\ VerdictInv /\ OrderInv /\ JoinInv /\ [Next]_vars => JoinInv'
<1> SUFFICES ASSUME TypeOK, WaveInv, VerdictInv, OrderInv, JoinInv, [Next]_vars
             PROVE  JoinInv'
  OBVIOUS
<1> USE DEF runVars, nodeVars, waveVars, tallyVars
<1>0. DataOK /\ attempt \in Nat
  BY AttemptsAssumption DEF TypeOK, DataOK
<1>1. ASSUME pc' \notin {"gate", "skipping"}, Running' = {},
             pc' \in InWave /\ wave' = "graph" =>
               \A s \in satisfied' : plan'.group[s] # NoGroup /\ GoesInOrder(plan.group[s])'
                                     => Closed(s)'
      PROVE  JoinInv'
  <2>1. Live' = {}
    BY <1>1 DEF Live, Running
  <2> QED
    BY <1>1, <2>1 DEF JoinInv
<1>2. ASSUME EnterWave("graph"), UNCHANGED <<plan, status, stage>>, pc \notin InWave,
             attempt' = 1 => \A n \in Node : status[n] # "completed"
      PROVE  JoinInv'
  <2>1. Running = {} /\ Running' = {} /\ pc' = "loop"
    BY <1>2 DEF WaveInv, Running, EnterWave
  <2>2. \A s \in satisfied' : plan.group[s] # NoGroup /\ GoesInOrder(plan.group[s])'
                              => plan.inputs[s] \cap Members(plan.group[s]) \subseteq satisfied'
    BY <1>2, <2>1, EntersClosed
  <2> QED
    BY <1>1, <1>2, <2>1, <2>2 DEF Closed, Members
<1>3. CASE Begin \/ BeginOverBudget
  <2>1. /\ pc = "down" /\ attempt' = attempt + 1 /\ UNCHANGED <<plan, status, stage>>
        /\ EnterWave("graph") \/ pc' \in {"down", "prepare"}
    BY <1>3 DEF Begin, BeginOverBudget, Invocation
  <2>2. pc \notin InWave /\ Running' = {}
    BY <2>1 DEF InWave, WaveInv, Running
  <2>3. attempt' = 1 => \A n \in Node : status[n] # "completed"
    BY <1>0, <2>1 DEF OrderInv
  <2> QED
    BY <1>1, <1>2, <2>1, <2>2, <2>3 DEF InWave
<1>4. CASE PrepareOk
  <2>1. pc = "prepare" /\ EnterWave("graph") /\ UNCHANGED <<plan, status, stage, attempt>>
    BY <1>4 DEF PrepareOk
  <2> QED
    BY <1>2, <2>1 DEF InWave, OrderInv
<1>5. CASE Judged \/ PrepareFails \/ Finalize
  <2>1. /\ pc \notin InWave /\ UNCHANGED stage
        /\ pc' \in {"loop", "finalize", "down"}
        /\ pc' = "loop" => wave' = "outcome"
    BY <1>5 DEF Judged, PrepareFails, Finalize, EnterWave, InWave
  <2>2. Running' = {}
    BY <2>1 DEF WaveInv, Running
  <2> QED
    BY <1>1, <2>1, <2>2 DEF InWave
<1>6. CASE Drain \/ Crash
  <2>1. pc' \notin InWave /\ Running' = {}
    BY <1>6 DEF Drain, Crash, Running, InWave
  <2> QED
    BY <1>1, <2>1 DEF InWave
\* Within a wave nothing that is finished or whole is undone by the loop.
<1>7. ASSUME Loop
      PROVE  /\ UNCHANGED <<plan, wave, attempt, failedGroups>> /\ pc \in InWave
             /\ satisfied \subseteq satisfied'
             /\ \A g : GoesInOrder(g)' = GoesInOrder(g)
             /\ \A n \in Node : Closed(n) => Closed(n)'
             /\ \A n \in Node : Whole(n) => Whole(n)'
  <2>1. /\ UNCHANGED <<plan, wave, attempt, failedGroups>> /\ pc \in InWave
        /\ satisfied \subseteq satisfied'
    BY <1>7, LoopFacts
  <2> QED
    BY <2>1 DEF GoesInOrder, Members, Post, Closed, Whole
<1>8. CASE LoopTop \/ EndScan \/ GateThrows \/ ShutGate
  <2>1. Loop /\ UNCHANGED <<satisfied, Live>> /\ pc' # "gate"
    BY <1>8 DEF LoopTop, EndScan, GateThrows, ShutGate, Loop, Live
  <2>2. satisfied \subseteq Node /\ Live \subseteq Node
    BY <1>0 DEF DataOK, Live
  <2> QED
    BY <1>7, <2>1, <2>2 DEF JoinInv, JoinsInOrder
<1>9. CASE Skipped
  <2>1. /\ Loop /\ pc = "skipping" /\ pc' = "scan" /\ satisfied' = satisfied \cup {gating}
        /\ Live' = Live /\ gating \in Node
    BY <1>0, <1>9 DEF Skipped, Loop, Live, DataOK
  <2>2. plan.group[gating] # NoGroup /\ GoesInOrder(plan.group[gating]) /\ wave = "graph"
          => Closed(gating)
    <3>1. plan.inputs[gating] \subseteq plan.deps[gating] /\ Ready(gating)
      BY <1>0, <2>1, DependenciesAssumption DEF DataOK, OrderInv
    <3> QED
      BY <3>1 DEF Closed, GoesInOrder, Members, Ready, WaveNodes, Graph
  <2>3. satisfied \subseteq Node /\ Live \subseteq Node
    BY <1>0 DEF DataOK, Live
  <2>4. \A s \in satisfied' : s \in Node /\
            (plan.group[s] # NoGroup /\ GoesInOrder(plan.group[s]) /\ wave = "graph" => Closed(s))
    BY <1>7, <2>1, <2>2, <2>3 DEF JoinInv
  <2> QED
    BY <1>7, <2>1, <2>3, <2>4 DEF JoinInv, JoinsInOrder
<1>10. CASE OpenGate
  <2>1. Loop /\ pc = "gate" /\ pc' = "scan" /\ gating \in Node /\ satisfied' = satisfied
    BY <1>0, <1>10 DEF OpenGate, Loop, DataOK
  <2>2. Live' = Live \cup {gating}
    BY <1>0, <1>10, <2>1 DEF OpenGate, Live, DataOK
  <2>3. satisfied \subseteq Node /\ Live \subseteq Node
    BY <1>0 DEF DataOK, Live
  <2>4. \A n \in Live' : n \in Node /\ (JoinsInOrder(n) => Whole(n))
    BY <2>1, <2>2, <2>3 DEF JoinInv
  <2> QED
    BY <1>7, <2>1, <2>3, <2>4 DEF JoinInv, JoinsInOrder
<1>11. ASSUME NEW n \in Node, Consider(n) PROVE JoinInv'
  <2>1. Loop /\ pc = "scan" /\ gating' = n /\ UNCHANGED <<satisfied, Live>> /\ Ready(n)
    BY <1>11 DEF Consider, Candidates, Loop, Live
  <2>2. satisfied \subseteq Node /\ Live \subseteq Node
    BY <1>0 DEF DataOK, Live
  <2>3. pc' = "gate" /\ JoinsInOrder(n) => Whole(n)
    <3>1. pc' = "gate" => plan.join[n] \notin failedGroups
      BY <1>11 DEF Consider, GatedOff, JoinsFailedGroup
    <3> QED
      BY <1>7, <2>1, <3>1, MembersDone DEF Whole
  <2> QED
    BY <1>7, <2>1, <2>2, <2>3 DEF JoinInv, JoinsInOrder
<1>12. ASSUME NEW n \in Node, Collect(n) PROVE JoinInv'
  <2>1. Loop /\ UNCHANGED <<satisfied, Live>> /\ pc' # "gate"
    BY <1>0, <1>12 DEF Collect, Collected, Loop, Live, DataOK
  <2>2. satisfied \subseteq Node /\ Live \subseteq Node
    BY <1>0 DEF DataOK, Live
  <2> QED
    BY <1>7, <2>1, <2>2 DEF JoinInv, JoinsInOrder
<1>13. ASSUME NEW n \in Node, Task(n) PROVE JoinInv'
  <2>1. /\ UNCHANGED <<plan, wave, attempt, pc, gating>> /\ pc \in InWave
        /\ satisfied \subseteq satisfied' /\ satisfied' \subseteq satisfied \cup {n}
        /\ failedGroups' \subseteq failedGroups \cup {plan.group[n]}
        /\ wave = "outcome" => failedGroups' = failedGroups
        /\ wave \in {"graph", "outcome"}
    BY <1>0, <1>13, TaskFacts, TaskReports DEF DataOK
  <2>2. n \in Live /\ Live' \subseteq Live /\ n \notin satisfied
    BY <1>0, <1>13, <2>1, TaskFacts DEF Live, WaveInv
  <2>3. \A g : GoesInOrder(g)' = GoesInOrder(g)
    BY <2>1 DEF GoesInOrder, Members, Post
  <2>4. ASSUME NEW m \in Node, Whole(m) PROVE Whole(m)'
    <3>1. wave = "graph" => plan.group[n] # plan.join[m]
      BY <2>2, <2>4 DEF Whole, Members
    <3> QED
      BY <2>1, <2>4, <3>1 DEF Whole, Members
  <2>5. \A s \in Node : Closed(s) => Closed(s)'
    BY <2>1 DEF Closed, Members
  <2>6. plan.group[n] # NoGroup /\ GoesInOrder(plan.group[n]) /\ wave = "graph" => Closed(n)
    <3>1. plan.inputs[n] \subseteq plan.deps[n]
      BY <1>0, DependenciesAssumption DEF DataOK
    <3>2. plan.deps[n] \cap WaveNodes \subseteq satisfied
      BY <2>1, <2>2 DEF WaveInv
    <3> QED
      BY <3>1, <3>2 DEF Closed, GoesInOrder, Members, WaveNodes, Graph
  <2>7. satisfied \subseteq Node /\ Live \subseteq Node /\ (pc = "gate" => gating \in Node)
    BY <1>0 DEF DataOK, Live
  <2>8. wave = "graph" =>
          \A s \in satisfied' : plan.group[s] # NoGroup /\ GoesInOrder(plan.group[s]) => Closed(s)'
    BY <2>1, <2>5, <2>6, <2>7 DEF JoinInv
  <2>9. pc = "gate" /\ JoinsInOrder(gating) => Whole(gating)'
    <3>1. PICK g : g = gating
      OBVIOUS
    <3>2. pc = "gate" /\ JoinsInOrder(g) => Whole(g)'
      BY <2>4, <2>7, <3>1 DEF JoinInv
    <3> QED
      BY <2>1, <3>1, <3>2 DEF Whole, Members
  <2> QED
    BY <2>1, <2>2, <2>3, <2>4, <2>7, <2>8, <2>9 DEF JoinInv, JoinsInOrder
<1>14. CASE UNCHANGED vars
  BY <1>14 DEF vars, JoinInv, JoinsInOrder, GoesInOrder, Closed, Whole, Members, Post, Live
<1> QED
  BY <1>3, <1>4, <1>5, <1>6, <1>8, <1>9, <1>10, <1>11, <1>12, <1>13, <1>14
     DEF Next, Steps, Attempt, Loop

(* Whatever a node works on is all there: its inputs were taken, and before a
   join every member of its group is finished, inner nodes included. *)
THEOREM InputsAlwaysWhole == Spec => []WorksOnWholeInputs
<1>1. Init => VerdictInv /\ RedoInv /\ OrderInv /\ JoinInv
  BY DEF Init, VerdictInv, RedoInv, OrderInv, JoinInv, InWave, Live
<1>2. TypeOK /\ WaveInv /\ JoinInv => JoinSeesWholeGroup
  <2> SUFFICES ASSUME TypeOK, WaveInv, JoinInv, NEW n \in Live,
                      plan.join[n] # NoGroup, GoesInOrder(plan.join[n])
               PROVE  /\ plan.join[n] \notin failedGroups
                      /\ Members(plan.join[n]) \cap (Live \cup pending) = {}
    BY DEF JoinSeesWholeGroup
  <2>1. Whole(n)
    BY DEF JoinInv, JoinsInOrder
  <2>2. Live \subseteq Running /\ n \in Running
    BY DEF Live, Running
  <2>3. pc \in InWave /\ wave \in {"graph", "outcome"}
    BY <2>2 DEF WaveInv, TypeOK, DataOK
  <2>4. CASE wave = "graph"
    BY <2>1, <2>3, <2>4 DEF Whole, WaveInv
  <2>5. CASE wave = "outcome"
    BY <2>1, <2>2, <2>3, <2>5 DEF Whole, WaveInv, WaveNodes, GoesInOrder
  <2> QED
    BY <2>3, <2>4, <2>5
<1>3. InputsAreThere /\ JoinSeesWholeGroup => WorksOnWholeInputs
  BY DEF WorksOnWholeInputs
<1>4. TypeOK => DataOK
  BY DEF TypeOK
<1> QED
  BY <1>1, <1>2, <1>3, <1>4, StatusAlways, InputsAlwaysThere, VerdictStep, RedoStep,
     OrderStep, JoinStep, PTL DEF Spec

-----------------------------------------------------------------------------
(* How long an attempt can take.                                           *)

\* A step of a task is a step on the way of its node.
LEMMA TaskAdvances ==
  ASSUME DataOK, NEW n \in Node, Task(n)
  PROVE  Way[stage'[n]] < Way[stage[n]]
<1>1. stage[n] \in Stages
  BY DEF DataOK
<1>2. ASSUME NEW ok \in BOOLEAN, Settle(n, ok) PROVE stage'[n] = "settled"
  BY <1>2, SettleFacts
<1>3. ASSUME NEW ok \in BOOLEAN, Return(n, ok) PROVE stage'[n] \in {"settled", "leaving", "failing"}
  BY <1>3, ReturnFacts
<1>4. CASE Enter(n)
  <2>1. stage[n] = "entering" /\ stage'[n] = "executing"
    BY <1>4 DEF Enter, DataOK
  <2> QED
    BY <2>1 DEF Way
<1>5. CASE ManifestFails(n)
  <2>1. stage[n] = "entering" /\ stage'[n] = "settled"
    BY <1>2, <1>5 DEF ManifestFails
  <2> QED
    BY <2>1 DEF Way
<1>6. CASE Complete(n)
  <2>1. stage[n] = "executing" /\ stage'[n] = "reviewing"
    BY <1>6 DEF Complete, DataOK
  <2> QED
    BY <2>1 DEF Way
<1>7. CASE Accept(n) \/ Demote(n) \/ Fail(n) \/ Abort(n)
  <2>1. stage[n] \in {"executing", "reviewing"} /\ \E ok \in BOOLEAN : Return(n, ok)
    <3>1. (n \in plan.continues) \in BOOLEAN
      OBVIOUS
    <3>2. CASE Accept(n)
      BY <3>2 DEF Accept
    <3>3. CASE Demote(n)
      BY <3>1, <3>3 DEF Demote
    <3>4. CASE Fail(n)
      BY <3>4 DEF Fail
    <3>5. CASE Abort(n)
      BY <3>1, <3>5 DEF Abort
    <3> QED
      BY <1>7, <3>2, <3>3, <3>4, <3>5
  <2>2. stage'[n] \in {"settled", "leaving", "failing"}
    BY <1>3, <2>1
  <2> QED
    BY <2>1, <2>2 DEF Way
<1>8. CASE Leave(n)
  <2>1. stage[n] \in {"leaving", "failing"} /\ stage'[n] = "settled"
    BY <1>2, <1>8 DEF Leave
  <2> QED
    BY <2>1 DEF Way
<1> QED
  BY <1>4, <1>5, <1>6, <1>7, <1>8 DEF Task, Ends, Returns

\* Every way has at most eight steps.
LEMMA AheadType ==
  ASSUME DataOK, NEW n \in Node
  PROVE  Ahead(n) \in 0 .. 8
<1>1. stage[n] \in Stages
  BY DEF DataOK
<1>2. Way[stage[n]] \in 0 .. 5
  BY <1>1 DEF Way, Stages
<1> QED
  BY <1>2 DEF Ahead

\* So the ways together have at most eight steps for each node.
LEMMA WaysAreFew ==
  ASSUME NEW W \in SUBSET (Node \X (1 .. 8))
  PROVE  /\ Cardinality(Node) \in Nat /\ IsFiniteSet(W)
         /\ Cardinality(W) \in Nat /\ Cardinality(W) <= 8 * Cardinality(Node)
<1>1. IsFiniteSet(Node) /\ Cardinality(Node) \in Nat
  BY NodeAssumption, FS_CardinalityType
<1>2. IsFiniteSet(1 .. 8) /\ Cardinality(1 .. 8) = 8
  <2>1. \A a, b \in Int : IsFiniteSet(a .. b) /\ Cardinality(a .. b) = IF a > b THEN 0 ELSE b - a + 1
    BY FS_Interval, Zenon
  <2>2. IsFiniteSet(1 .. 8) /\ Cardinality(1 .. 8) = IF 1 > 8 THEN 0 ELSE 8 - 1 + 1
    BY <2>1, 1 \in Int, 8 \in Int, Zenon
  <2> QED
    BY <2>2
<1>3. IsFiniteSet(Node \X (1 .. 8)) /\ Cardinality(Node \X (1 .. 8)) = Cardinality(Node) * 8
  BY <1>1, <1>2, FS_Product
<1>4. IsFiniteSet(W) /\ Cardinality(W) <= Cardinality(Node \X (1 .. 8))
  BY <1>3, FS_Subset
<1>5. Cardinality(W) \in Nat
  BY <1>4, FS_CardinalityType
<1>6. Cardinality(W) <= Cardinality(Node) * 8
  BY <1>3, <1>4
<1>7. \A c \in Nat : c * 8 = 8 * c
  OBVIOUS
<1> QED
  BY <1>1, <1>4, <1>5, <1>6, <1>7

\* One node goes on and none is set back: fewer steps are left.
LEMMA OneGoesOn ==
  ASSUME DataOK, DataOK', UNCHANGED <<plan, wave>>, NEW n \in WaveNodes,
         Ahead(n)' < Ahead(n), \A m \in Node : Ahead(m)' <= Ahead(m)
  PROVE  Cardinality(WaysLeft') < Cardinality(WaysLeft)
<1>1. WaveNodes' = WaveNodes /\ WaveNodes \subseteq Node
  BY DEF WaveNodes, Graph, Post
<1>2. \A m \in Node : Ahead(m) \in 0 .. 8 /\ Ahead(m)' \in 0 .. 8
  <2>1. \A m \in Node : stage'[m] \in Stages
    BY DEF DataOK
  <2>2. \A m \in Node : Way[stage'[m]] \in 0 .. 5
    BY <2>1 DEF Way, Stages
  <2>3. \A m \in Node : Ahead(m)' \in 0 .. 8
    BY <2>2 DEF Ahead
  <2> QED
    BY <2>3, AheadType
<1> DEFINE e == <<n, Ahead(n)>>
<1>3. e \in WaysLeft /\ e \notin WaysLeft'
  BY <1>1, <1>2 DEF WaysLeft
<1>4. WaysLeft' \subseteq WaysLeft
  BY <1>1, <1>2 DEF WaysLeft
<1>5. IsFiniteSet(WaysLeft)
  BY WaysAreFew DEF WaysLeft
<1>6. WaysLeft' # WaysLeft
  BY <1>3
<1> HIDE DEF e
<1>7. IsFiniteSet(WaysLeft') /\ Cardinality(WaysLeft') <= Cardinality(WaysLeft)
      /\ (Cardinality(WaysLeft') = Cardinality(WaysLeft) => WaysLeft' = WaysLeft)
  BY <1>4, <1>5, FS_Subset
<1>8. Cardinality(WaysLeft') \in Nat /\ Cardinality(WaysLeft) \in Nat
  BY <1>5, <1>7, FS_CardinalityType
<1> QED
  BY <1>6, <1>7, <1>8
\* All nodes stay where they are.
LEMMA AllStayThere ==
  ASSUME UNCHANGED <<plan, wave>>, \A m \in Node : Ahead(m)' = Ahead(m)
  PROVE  WaysLeft' = WaysLeft
<1>1. WaveNodes' = WaveNodes
  BY DEF WaveNodes, Graph, Post
<1> QED
  BY <1>1 DEF WaysLeft

\* The number falls with the first of its three digits that changes.
LEMMA DigitsFall ==
  ASSUME NEW N \in Nat, NEW p \in 0 .. 4, NEW q \in 0 .. 4, NEW c \in Nat, NEW d \in Nat,
         NEW t \in 0 .. 3, NEW u \in 0 .. 3, d <= 8 * N,
         q < p \/ (q = p /\ d < c) \/ (q = p /\ d = c /\ u < t)
  PROVE  q * (32 * N + 4) + 4 * d + u < p * (32 * N + 4) + 4 * c + t
<1> DEFINE K == 32 * N + 4
<1>1. K \in Nat /\ 4 * d + u < K
  OBVIOUS
<1> HIDE DEF K
<1>2. \A x \in 0 .. 4 : x * K = IF x = 0 THEN 0 ELSE IF x = 1 THEN K ELSE IF x = 2 THEN K + K
                              ELSE IF x = 3 THEN K + K + K ELSE K + K + K + K
  <2>1. 0 * K = 0 /\ 1 * K = K /\ 2 * K = K + K /\ 3 * K = K + K + K /\ 4 * K = K + K + K + K
    BY <1>1
  <2> QED
    BY <2>1
<1> DEFINE x == p * K
           y == q * K
<1>3. x \in Nat /\ y \in Nat /\ (q < p => y + K <= x) /\ (q = p => y = x)
  BY <1>1, <1>2
<1> HIDE DEF x, y
<1>4. y + 4 * d + u < x + 4 * c + t
  <2>1. CASE q < p
    BY <1>1, <1>3, <2>1
  <2>2. CASE q = p /\ d < c
    BY <1>3, <2>2
  <2>3. CASE q = p /\ d = c /\ u < t
    BY <1>3, <2>3
  <2> QED
    BY <2>1, <2>2, <2>3
<1> QED
  BY <1>4 DEF x, y, K

\* The three digits, before and after a step.
LEMMA FewerAreLeft ==
  ASSUME \/ PartsLeft' < PartsLeft
         \/ PartsLeft' = PartsLeft /\ Cardinality(WaysLeft') < Cardinality(WaysLeft)
         \/ PartsLeft' = PartsLeft /\ WaysLeft' = WaysLeft /\ TurnsLeft' < TurnsLeft
  PROVE  StepsLeft' < StepsLeft
<1>1. PartsLeft \in 0 .. 4 /\ PartsLeft' \in 0 .. 4 /\ TurnsLeft \in 0 .. 3 /\ TurnsLeft' \in 0 .. 3
  BY DEF PartsLeft, TurnsLeft
<1>2. WaysLeft \in SUBSET (Node \X (1 .. 8)) /\ WaysLeft' \in SUBSET (Node \X (1 .. 8))
  BY DEF WaysLeft
<1>3. /\ Cardinality(Node) \in Nat /\ Cardinality(WaysLeft) \in Nat /\ Cardinality(WaysLeft') \in Nat
      /\ Cardinality(WaysLeft') <= 8 * Cardinality(Node)
  BY <1>2, WaysAreFew
<1> DEFINE N == Cardinality(Node)
           c == Cardinality(WaysLeft)
           d == Cardinality(WaysLeft')
           p == PartsLeft
           q == PartsLeft'
           t == TurnsLeft
           u == TurnsLeft'
<1>4. q < p \/ (q = p /\ d < c) \/ (q = p /\ d = c /\ u < t)
  OBVIOUS
<1>5. StepsLeft = p * (32 * N + 4) + 4 * c + t /\ StepsLeft' = q * (32 * N + 4) + 4 * d + u
  BY DEF StepsLeft
<1> HIDE DEF N, c, d, p, q, t, u
<1>6. /\ N \in Nat /\ c \in Nat /\ d \in Nat /\ d <= 8 * N
      /\ p \in 0 .. 4 /\ q \in 0 .. 4 /\ t \in 0 .. 3 /\ u \in 0 .. 3
  BY <1>1, <1>3 DEF N, c, d, p, q, t, u
<1>7. q * (32 * N + 4) + 4 * d + u < p * (32 * N + 4) + 4 * c + t
  BY <1>4, <1>6, DigitsFall
<1> QED
  BY <1>5, <1>7

\* A step of the loop that takes one node on.
LEMMA NodeIsNearer ==
  ASSUME DataOK, DataOK', UNCHANGED <<plan, wave>>, PartsLeft' = PartsLeft, NEW n \in WaveNodes,
         Ahead(n)' < Ahead(n), \A m \in Node \ {n} : Ahead(m)' = Ahead(m)
  PROVE  StepsLeft' < StepsLeft
<1>1. n \in Node
  BY DEF WaveNodes, Graph, Post
<1>2. \A m \in Node : Ahead(m) \in 0 .. 8
  BY AheadType
<1>3. \A m \in Node : Ahead(m)' <= Ahead(m)
  <2> SUFFICES ASSUME NEW m \in Node PROVE Ahead(m)' <= Ahead(m)
    OBVIOUS
  <2>1. CASE m = n
    <3>1. Ahead(n)' \in Int /\ Ahead(n) \in Int
      <4>1. stage'[n] \in Stages
        BY <1>1 DEF DataOK
      <4>2. Way[stage'[n]] \in 0 .. 5
        BY <4>1 DEF Way, Stages
      <4>3. Ahead(n)' \in 0 .. 8
        BY <4>2 DEF Ahead
      <4> QED
        BY <1>1, <1>2, <4>3
    <3> QED
      BY <2>1, <3>1
  <2>2. CASE m # n
    BY <1>2, <2>2
  <2> QED
    BY <2>1, <2>2
<1> QED
  BY <1>1, <1>3, OneGoesOn, FewerAreLeft

\* A step of a task.
LEMMA TaskIsNearer ==
  ASSUME TypeOK, TypeOK', WaveInv, NEW n \in Node, Task(n)
  PROVE  StepsLeft' < StepsLeft
<1>1. DataOK /\ DataOK'
  BY DEF TypeOK
<1>2. /\ pc \in InWave /\ UNCHANGED <<pc, wave, plan, pending, gating>>
      /\ stage[n] # "idle" /\ \A m \in Node \ {n} : stage'[m] = stage[m]
  BY <1>1, TaskFacts
<1>3. UNCHANGED progressed
  BY DEF Task, Enter, ManifestFails, Ends, Returns, Complete, Fail, Abort, Accept, Demote, Leave,
         TaskUnchanged, waveVars
<1>4. n \in WaveNodes /\ n \notin pending /\ (pc \in {"gate", "skipping"} => n # gating)
  BY <1>2 DEF WaveInv, Running
<1>5. Way[stage'[n]] < Way[stage[n]]
  BY <1>1, TaskAdvances
<1>6. Ahead(n) = Way[stage[n]] /\ Ahead(n)' = Way[stage'[n]]
  BY <1>2, <1>4 DEF Ahead
<1>7. \A m \in Node \ {n} : Ahead(m)' = Ahead(m)
  BY <1>2 DEF Ahead
<1>8. Ahead(n)' < Ahead(n)
  BY <1>5, <1>6
<1>9. PartsLeft' = PartsLeft
  <2>1. pc' = pc /\ wave' = wave
    BY <1>2
  <2> QED
    BY <2>1 DEF PartsLeft
<1> QED
  BY <1>1, <1>2, <1>4, <1>7, <1>8, <1>9, NodeIsNearer

\* A step of the loop.
LEMMA LoopIsNearer ==
  ASSUME TypeOK, TypeOK', WaveInv, Loop
  PROVE  StepsLeft' < StepsLeft
<1>1. DataOK /\ DataOK'
  BY DEF TypeOK
<1>2. /\ pc \in InWave /\ pc' \in InWave /\ UNCHANGED <<plan, wave>>
  BY LoopFacts
<1>3. PartsLeft' = PartsLeft
  BY <1>2 DEF PartsLeft, InWave
<1>4. \A m \in Node : stage[m] \in Stages
  BY <1>1 DEF DataOK
<1>5. Way["idle"] = 0 /\ Way["settled"] = 1 /\ Way["executing"] = 4 /\ Way["entering"] = 5
      /\ \A x \in Stages : Way[x] \in 0 .. 5
  BY DEF Way, Stages
<1> USE DEF runVars, nodeVars, waveVars, tallyVars
<1>6. CASE LoopTop
  <2>1. pc = "loop" /\ pc' \in {"drain", "scan"} /\ (pc' = "scan" => ~ progressed')
        /\ UNCHANGED <<pending, gating, stage>>
    BY <1>6 DEF LoopTop
  <2>2. \A m \in Node : Ahead(m)' = Ahead(m)
    BY <2>1 DEF Ahead
  <2>3. TurnsLeft' < TurnsLeft
    BY <2>1 DEF TurnsLeft
  <2> QED
    BY <1>2, <1>3, <2>2, <2>3, AllStayThere, FewerAreLeft
<1>7. CASE EndScan
  <2>1. /\ pc = "scan" /\ pc' \in {"race", "loop", "drain"} /\ (pc' = "loop" => progressed)
        /\ UNCHANGED <<pending, gating, stage, progressed>>
    BY <1>7 DEF EndScan
  <2>2. \A m \in Node : Ahead(m)' = Ahead(m)
    BY <2>1 DEF Ahead
  <2>3. TurnsLeft' < TurnsLeft
    BY <2>1 DEF TurnsLeft
  <2> QED
    BY <1>2, <1>3, <2>2, <2>3, AllStayThere, FewerAreLeft
<1>8. CASE Skipped \/ OpenGate \/ ShutGate \/ GateThrows
  <2>1. pc \in {"gate", "skipping"}
    BY <1>8 DEF Skipped, OpenGate, ShutGate, GateThrows
  <2>2. PICK g \in Node : g = gating /\ g \in WaveNodes /\ g \notin pending /\ stage[g] = "idle"
    BY <1>1, <2>1 DEF WaveInv, Running, WaveNodes, Graph, Post
  <2>3. UNCHANGED pending
    BY <1>8 DEF Skipped, OpenGate, ShutGate, GateThrows
  <2>4. \A m \in Node \ {g} : Ahead(m)' = Ahead(m)
    <3>1. \A m \in Node \ {g} : stage'[m] = stage[m]
      BY <1>1, <1>8, <2>2 DEF Skipped, OpenGate, ShutGate, GateThrows, DataOK
    <3>2. pc' \notin {"gate", "skipping"} \/ gating' = g
      BY <1>8, <2>2 DEF Skipped, OpenGate, ShutGate, GateThrows
    <3> QED
      BY <2>1, <2>2, <2>3, <3>1, <3>2 DEF Ahead
  <2>5. Ahead(g) = IF pc = "gate" THEN 7 ELSE 6
    BY <2>1, <2>2 DEF Ahead
  <2>6. CASE ShutGate
    <3>1. Ahead(g)' = 6 /\ Ahead(g) = 7
      BY <2>2, <2>3, <2>5, <2>6 DEF ShutGate, Ahead
    <3> QED
      BY <1>1, <1>2, <1>3, <2>2, <2>4, <3>1, NodeIsNearer
  <2>7. CASE Skipped \/ OpenGate \/ GateThrows
    <3>1. pc' \notin {"gate", "skipping"}
      BY <2>7 DEF Skipped, OpenGate, GateThrows
    <3>2. Ahead(g)' = Way[stage'[g]] /\ Ahead(g) \in {6, 7}
      BY <2>2, <2>3, <2>5, <3>1 DEF Ahead
    <3>3. stage'[g] \in Stages
      BY <1>1 DEF DataOK
    <3>4. Ahead(g)' < Ahead(g)
      BY <1>5, <3>2, <3>3
    <3> QED
      BY <1>1, <1>2, <1>3, <2>2, <2>4, <3>4, NodeIsNearer
  <2> QED
    BY <1>8, <2>6, <2>7
<1>9. ASSUME NEW n \in Node, Consider(n) PROVE StepsLeft' < StepsLeft
  <2>1. /\ pc = "scan" /\ pc' \in {"gate", "skipping"} /\ n \in pending /\ n \in WaveNodes
        /\ pending' = pending \ {n} /\ gating' = n /\ UNCHANGED stage
    BY <1>9 DEF Consider, Candidates, WaveInv, InWave
  <2>2. \A m \in Node \ {n} : Ahead(m)' = Ahead(m)
    BY <2>1 DEF Ahead
  <2>3. Ahead(n) = 8 /\ Ahead(n)' \in {6, 7}
    BY <2>1 DEF Ahead
  <2>4. Ahead(n)' < Ahead(n)
    BY <2>3
  <2> QED
    BY <1>1, <1>2, <1>3, <2>1, <2>2, <2>4, NodeIsNearer
<1>10. ASSUME NEW n \in Node, Collect(n) PROVE StepsLeft' < StepsLeft
  <2>1. /\ pc = "race" /\ pc' \in {"drain", "loop"} /\ stage[n] = "settled" /\ stage'[n] = "idle"
        /\ UNCHANGED <<pending, gating>> /\ \A m \in Node \ {n} : stage'[m] = stage[m]
    BY <1>1, <1>10 DEF Collect, Collected, DataOK
  <2>2. n \in WaveNodes /\ n \notin pending
    BY <2>1 DEF WaveInv, InWave, Running
  <2>3. \A m \in Node \ {n} : Ahead(m)' = Ahead(m)
    BY <2>1 DEF Ahead
  <2>4. Ahead(n) = 1 /\ Ahead(n)' = 0
    BY <1>5, <2>1, <2>2 DEF Ahead
  <2>5. Ahead(n)' < Ahead(n)
    BY <2>4
  <2> QED
    BY <1>1, <1>2, <1>3, <2>2, <2>3, <2>5, NodeIsNearer
<1> QED
  BY <1>6, <1>7, <1>8, <1>9, <1>10 DEF Loop

\* A step between the waves.
LEMMA AttemptIsNearer ==
  ASSUME Attempt, pc # "down", pc' # "down"
  PROVE  StepsLeft' < StepsLeft
<1>1. PartsLeft' < PartsLeft
  <2>1. CASE PrepareOk
    BY <2>1 DEF PrepareOk, EnterWave, PartsLeft
  <2>2. CASE PrepareFails
    BY <2>2 DEF PrepareFails
  <2>3. CASE Drain
    <3>1. UNCHANGED wave
      BY <2>3 DEF Drain
    <3> QED
      BY <2>3, <3>1 DEF Drain, PartsLeft
  <2>4. CASE Judged
    BY <2>4 DEF Judged, EnterWave, PartsLeft
  <2>5. CASE Finalize
    BY <2>5 DEF Finalize
  <2> QED
    BY <2>1, <2>2, <2>3, <2>4, <2>5 DEF Attempt
<1> QED
  BY <1>1, FewerAreLeft

\* Every attempt is over within StepsLeft steps, fewer than 160 n + 20 for n nodes,
\* whatever fails, waits or is skipped (runNodes, runWithLock).
THEOREM AttemptsAreFinite == Spec => StepsAreNumbered
<1>1. ASSUME TypeOK, TypeOK', WaveInv, [Next]_vars
      PROVE  [pc # "down" /\ pc' # "down" => StepsLeft' < StepsLeft]_vars
  <2> SUFFICES ASSUME Next, pc # "down", pc' # "down" PROVE StepsLeft' < StepsLeft
    BY <1>1
  <2>1. CASE Begin \/ BeginOverBudget
    BY <2>1 DEF Begin, BeginOverBudget, Invocation
  <2>2. CASE Attempt
    BY <2>2, AttemptIsNearer
  <2>3. CASE Loop
    BY <1>1, <2>3, LoopIsNearer
  <2>4. CASE \E n \in Node : Task(n)
    BY <1>1, <2>4, TaskIsNearer
  <2>5. CASE Crash
    BY <2>5 DEF Crash
  <2> QED
    BY <2>1, <2>2, <2>3, <2>4, <2>5 DEF Next, Steps
<1>2. Spec => []TypeOK /\ []WaveInv
  BY TypeCorrect, WaveAlways, PTL
<1> QED
  BY <1>1, <1>2, PTL DEF Spec, StepsAreNumbered

=============================================================================
