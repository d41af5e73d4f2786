----------------------------- MODULE Scheduler -----------------------------
(***************************************************************************)
(* Engine.runWithLock and Engine.runNodes: the attempts of one run, the    *)
(* graph wave and the outcome wave, the ready-set loop, the gate that      *)
(* decides whether a ready node runs, and the fate of a running node.      *)
(*                                                                         *)
(* The engine is one JavaScript thread: between two awaits it is not       *)
(* interrupted.  A node that runs is an asynchronous task, so its steps    *)
(* interleave with the loop only where the loop awaits (Awaiting).         *)
(*                                                                         *)
(* A plan is a loaded workflow together with its run options; one plan is  *)
(* chosen in Init and never changes.  What a node does is abstracted to    *)
(* its outcome.  The status "waiting" of a node that has asked a human is  *)
(* part of "running" here.                                                 *)
(***************************************************************************)
EXTENDS Dag

CONSTANTS Plans,        \* the plans to run
          MaxAttempts,  \* bound on the engine invocations over one run
          None          \* no node

Modes  == {"fail_fast", "collect", "all_or_nothing"}
RunOns == {"none", "always", "success", "failure", "every_attempt"}

Plan == [inputs      : [Node -> SUBSET Node],
         deps        : [Node -> SUBSET Node],
         join        : [Node -> Group \cup {NoGroup}],
         group       : [Node -> Group \cup {NoGroup}],
         mode        : [Group -> Modes],
         runOn       : [Node -> RunOns],
         alone       : SUBSET Node,   \* branch nodes without a tree
         when        : SUBSET Node,   \* nodes with a `when` predicate
         skips       : SUBSET SUBSET Node,  \* what --skip may name
         continues   : SUBSET Node,   \* on_error: continue
         human       : SUBSET Node,   \* human and hitl nodes with abort_on
         capped      : SUBSET Node,   \* nodes with a budget of their own
         maxParallel : Nat,
         guarded     : BOOLEAN,       \* the group guardrail brackets nodes
         budget      : BOOLEAN,       \* the run has a budget
         prepare     : BOOLEAN]       \* the workflow has a prepare_command

ASSUME PlansAssumption == Plans \subseteq Plan

\* A node depends on its inputs, and no dependency leads round in a circle.
ASSUME DependenciesAssumption ==
  \A p \in Plans : \A n \in Node : p.inputs[n] \subseteq p.deps[n]
ASSUME AcyclicAssumption ==
  \A p \in Plans : \A S \in (SUBSET Node) \ {{}} :
     /\ \E n \in S : p.deps[n] \cap S = {}
     /\ \E n \in S : \A m \in S : n \notin p.deps[m]

\* A join is in no group, and depends on whatever its group does not pass on.
ASSUME JoinAssumption ==
  \A p \in Plans : \A n \in Node : p.join[n] # NoGroup =>
     /\ \A m \in Node : p.group[m] = p.join[n] =>
           \/ m \in p.deps[n]
           \/ \E s \in Node : p.group[s] = p.join[n] /\ m \in p.inputs[s]
     /\ p.group[n] = NoGroup

ASSUME AttemptsAssumption == MaxAttempts \in Nat \ {0}
ASSUME NoneIsNoNode == None \notin Node

VARIABLES
  plan,           \* the workflow and its options
  pc,             \* where the engine is
  wave,           \* which call of runNodes is on
  attempt,        \* state.attempt
  runStatus,      \* state.status
  terminal,       \* the terminal record this attempt has left in the journal
  outcome,        \* runOutcome
  skip,           \* options.skip_nodes of this attempt
  status,         \* state.nodes[n].status
  doneIn,         \* state.nodes[n].completed_attempt, 0 when absent
  overBudget,     \* state.total_cost_usd > options.budget_usd
  untaken,        \* the keys of the map of the same name
  failedGroups,
  pending, satisfied, failed, exclusiveNode, progressed,  \* locals of runNodes
  scan,           \* what is left of the snapshot of pending being scanned
  gating,         \* the node whose gate is being awaited
  thrown,         \* the exception leaving runNodes
  stage           \* the task of a node, "idle" when not in the running map

nodeVars  == <<status, doneIn>>
waveVars  == <<pending, scan, progressed>>
tallyVars == <<satisfied, failed, failedGroups, untaken>>
runVars   == <<plan, attempt, terminal, outcome, skip>>
vars == <<plan, pc, wave, attempt, runStatus, terminal, outcome, skip, status,
          doneIn, overBudget, untaken, failedGroups, pending, satisfied, failed,
          exclusiveNode, progressed, scan, gating, thrown, stage>>

-----------------------------------------------------------------------------

\* collectPostWorkflowNodes, and the rest.
Post  == {n \in Node : plan.runOn[n] # "none"}
Graph == Node \ Post
WaveNodes == IF wave = "graph" THEN Graph ELSE Post

Running == {n \in Node : stage[n] # "idle"}
\* The tasks that have not reported yet.
Live == {n \in Node : stage[n] \notin {"idle", "settled"}}
\* The nodes inside the group guardrail's bracket.
Bracketed == {n \in Node : stage[n] \in {"executing", "reviewing"}}

Cap == IF plan.maxParallel > 0 THEN plan.maxParallel
       ELSE IF WaveNodes = {} THEN 1 ELSE Cardinality(WaveNodes)

\* The engine is at an await of the wave: tasks may move.
Awaiting == pc \in {"gate", "skipping", "race", "drain"}

BranchFailureMode(n) == IF plan.group[n] = NoGroup THEN "none"
                                                   ELSE plan.mode[plan.group[n]]

\* Mutant: every node of the outcome wave is reconsidered.
RerunsAlways(n, w) == w = "outcome"

\* A completed node that must be reconsidered in wave w.
RerunsThisAttempt(n, w) == /\ w = "outcome"
                           /\ plan.runOn[n] = "every_attempt"
                           /\ doneIn[n] # attempt

\* Mutant: one dependency that is met is enough.
ReadyAny(n) == \/ plan.deps[n] \cap WaveNodes = {}
               \/ \E d \in plan.deps[n] \cap WaveNodes : d \in satisfied

Ready(n) == \A d \in plan.deps[n] : d \notin WaveNodes \/ d \in satisfied

\* What the scan would consider now of what is left of the snapshot.
Candidates == {n \in scan : Ready(n) /\ ~ (n \in plan.alone /\ Running # {})}

\* Mutant: the scan forgets max_parallel.
ScanStopsUncapped == exclusiveNode # None \/ Candidates = {}

ScanStops == \/ Cardinality(Running) >= Cap
             \/ exclusiveNode # None
             \/ Candidates = {}

-----------------------------------------------------------------------------
(* The gate: why a ready node does not run.                                *)

Upstream(n) == plan.inputs[n] \cap untaken # {}

\* Mutant: a join is kept back by its inputs alone.
JoinsFailedGroupNever(n) == FALSE

JoinsFailedGroup(n) == plan.join[n] \in failedGroups

WrongOutcome(n) == /\ plan.runOn[n] \in {"success", "failure"}
                   /\ plan.runOn[n] # outcome

GatedOff(n) == \/ n \in skip
               \/ Upstream(n)
               \/ JoinsFailedGroup(n)
               \/ WrongOutcome(n)

-----------------------------------------------------------------------------
(* What the loop does with the verdict of a task.                          *)

\* Mutant: a failure the run carries on past is left unfinished.
CarriesOnNever(n) == FALSE

\* The failed node counts as finished, so that its dependents are reached.
CarriesOn(n) == \/ BranchFailureMode(n) \in {"collect", "all_or_nothing"}
                \/ wave = "outcome"

\* Mutant: every failure is absorbed.
StopsWaveNever(n) == FALSE

\* absorbBranchFailure is not asked in the outcome wave.
StopsWave(n) == /\ wave = "graph"
                /\ BranchFailureMode(n) \notin {"collect", "all_or_nothing"}

FailsGroup(n) == wave = "graph" /\ BranchFailureMode(n) = "all_or_nothing"

\* The `then` of a task's promise; the task stays in the running map.
Settle(n, ok) ==
  /\ stage' = [stage EXCEPT ![n] = "settled"]
  /\ satisfied' = IF ok \/ CarriesOn(n) THEN satisfied \cup {n} ELSE satisfied
  /\ failed' = (failed \/ (~ ok /\ StopsWave(n)))
  /\ failedGroups' = IF ~ ok /\ FailsGroup(n)
                     THEN failedGroups \cup {plan.group[n]} ELSE failedGroups
  /\ untaken' = IF ~ ok /\ CarriesOn(n) THEN untaken \cup {n} ELSE untaken

\* executeNode has returned ok.  The last node out of the bracket waits for
\* the check of the bracket, whatever its own verdict.
Return(n, ok) ==
  IF plan.guarded /\ Bracketed = {n}
  THEN /\ stage' = [stage EXCEPT ![n] = IF ok THEN "leaving" ELSE "failing"]
       /\ UNCHANGED tallyVars
  ELSE Settle(n, ok)

-----------------------------------------------------------------------------

Init ==
  /\ plan \in Plans
  /\ pc = "down"
  /\ wave = "graph"
  /\ attempt = 0
  /\ runStatus = "running"
  /\ terminal = "none"
  /\ outcome = "pending"
  /\ skip = {}
  /\ status = [n \in Node |-> "pending"]
  /\ doneIn = [n \in Node |-> 0]
  /\ overBudget = FALSE
  /\ untaken = {} /\ failedGroups = {}
  /\ pending = {} /\ satisfied = {} /\ failed = FALSE
  /\ exclusiveNode = None /\ progressed = FALSE
  /\ scan = {} /\ gating = None /\ thrown = "no"
  /\ stage = [n \in Node |-> "idle"]

\* The nodes of wave w that a previous attempt has completed.
CompletedBefore(w) ==
  {n \in Node : status[n] = "completed" /\ ~ RerunsThisAttempt(n, w)}

\* runNodes begins.
EnterWave(w) ==
  LET nodes == IF w = "graph" THEN Graph ELSE Post
  IN /\ wave' = w
     /\ satisfied' = nodes \cap CompletedBefore(w)
     /\ pending' = nodes \ CompletedBefore(w)
     /\ failed' = FALSE /\ thrown' = "no"
     /\ exclusiveNode' = None /\ progressed' = FALSE
     /\ scan' = {} /\ gating' = None
     /\ pc' = "loop"

\* The locals of a runNodes that is not on.
WaveUnchanged == UNCHANGED <<wave, pending, satisfied, failed, exclusiveNode,
                             progressed, scan, gating, thrown>>

\* Engine.run up to the budget check: an invocation, fresh or resumed, whose
\* total cost is `over` the budget or not.
Invocation(over) ==
  /\ pc = "down" /\ attempt < MaxAttempts
  /\ over => plan.budget /\ \E n \in Node : status[n] # "pending"
  /\ attempt' = attempt + 1
  /\ skip' \in plan.skips
  /\ outcome' = "pending"
  /\ untaken' = {} /\ failedGroups' = {}
  /\ overBudget' = over
  /\ UNCHANGED <<plan, status, doneIn, stage>>

\* The budget is spent before the attempt begins: recorded, then thrown.
BeginOverBudget == /\ Invocation(TRUE)
                   /\ runStatus' = "failed"
                   /\ terminal' = "run_failed"
                   /\ UNCHANGED pc
                   /\ WaveUnchanged

\* prepare_command runs in a fresh run only.
Begin == /\ Invocation(FALSE)
         /\ runStatus' = "running"
         /\ terminal' = "none"
         /\ IF attempt = 0 /\ plan.prepare
            THEN pc' = "prepare" /\ WaveUnchanged
            ELSE EnterWave("graph")

PrepareOk == /\ pc = "prepare"
             /\ EnterWave("graph")
             /\ UNCHANGED <<runVars, nodeVars, runStatus, overBudget, untaken,
                            failedGroups, stage>>

\* runPrepareCommand throws and nothing catches it: no terminal record.
PrepareFails == /\ pc = "prepare"
                /\ pc' = "down"
                /\ WaveUnchanged
                /\ UNCHANGED <<runVars, nodeVars, runStatus, overBudget, untaken,
                               failedGroups, stage>>

-----------------------------------------------------------------------------
(* The loop of runNodes.                                                   *)

LoopTop ==
  /\ pc = "loop"
  /\ IF failed \/ (pending = {} /\ Running = {})
     THEN pc' = "drain" /\ UNCHANGED <<scan, progressed>>
     ELSE pc' = "scan" /\ scan' = pending /\ progressed' = FALSE
  /\ UNCHANGED <<runVars, nodeVars, tallyVars, runStatus, overBudget, wave,
                 pending, exclusiveNode, gating, thrown, stage>>

\* The next candidate in the order of ids leaves pending for its gate.  The
\* reasons not to run that need no await are decided at once.
Consider(n) ==
  /\ pc = "scan" /\ ~ ScanStops
  /\ n \in Candidates /\ \A m \in Candidates : n <= m
  /\ scan' = {m \in scan : m > n}
  /\ pending' = pending \ {n}
  /\ progressed' = TRUE
  /\ gating' = n
  /\ IF GatedOff(n)
     THEN pc' = "skipping" /\ status' = [status EXCEPT ![n] = "skipped"]
     ELSE pc' = "gate" /\ UNCHANGED status
  /\ untaken' = IF n \notin skip /\ Upstream(n) THEN untaken \cup {n} ELSE untaken
  /\ UNCHANGED <<runVars, runStatus, doneIn, overBudget, wave, satisfied, failed,
                 failedGroups, exclusiveNode, thrown, stage>>

\* nodeSkipped has been recorded.
Skipped ==
  /\ pc = "skipping"
  /\ pc' = "scan"
  /\ satisfied' = satisfied \cup {gating}
  /\ gating' = None
  /\ UNCHANGED <<runVars, nodeVars, waveVars, runStatus, overBudget, wave, failed,
                 failedGroups, untaken, exclusiveNode, thrown, stage>>

\* The `when` predicate, if there is one, holds: the task is created.  It has
\* to wait before it starts when it is a join, whose manifest is written
\* first, and when there is a bracket to enter.
OpenGate ==
  /\ pc = "gate"
  /\ pc' = "scan"
  /\ exclusiveNode' = IF gating \in plan.alone THEN gating ELSE exclusiveNode
  /\ IF plan.guarded \/ plan.join[gating] # NoGroup
     THEN stage' = [stage EXCEPT ![gating] = "entering"] /\ UNCHANGED status
     ELSE /\ stage' = [stage EXCEPT ![gating] = "executing"]
          /\ status' = [status EXCEPT ![gating] = "running"]
  /\ gating' = None
  /\ UNCHANGED <<runVars, waveVars, tallyVars, runStatus, doneIn, overBudget, wave,
                 thrown>>

ShutGate ==
  /\ pc = "gate" /\ gating \in plan.when
  /\ pc' = "skipping"
  /\ untaken' = untaken \cup {gating}
  /\ status' = [status EXCEPT ![gating] = "skipped"]
  /\ UNCHANGED <<runVars, waveVars, runStatus, doneIn, overBudget, wave, satisfied,
                 failed, failedGroups, exclusiveNode, gating, thrown, stage>>

\* The template of the predicate does not resolve.
GateThrows ==
  /\ pc = "gate" /\ gating \in plan.when
  /\ pc' = "drain"
  /\ thrown' = "gate"
  /\ gating' = None
  /\ UNCHANGED <<runVars, nodeVars, waveVars, tallyVars, runStatus, overBudget, wave,
                 exclusiveNode, stage>>

\* The scan is over: wait for a task, go round again, leave, or give up.
EndScan ==
  /\ pc = "scan" /\ ScanStops
  /\ thrown' = IF Running = {} /\ pending # {} /\ ~ progressed
               THEN "stall" ELSE thrown
  /\ pc' = IF Running # {} THEN "race"
           ELSE IF pending # {} /\ progressed THEN "loop" ELSE "drain"
  /\ UNCHANGED <<runVars, nodeVars, waveVars, tallyVars, runStatus, overBudget, wave,
                 exclusiveNode, gating, stage>>

\* Mutant: the task is not deleted from the running map.
CollectedNever(n) == stage

Collected(n) == [stage EXCEPT ![n] = "idle"]

\* Promise.race gives a task that has reported; the budget is checked.
Collect(n) ==
  /\ pc = "race" /\ stage[n] = "settled"
  /\ stage' = Collected(n)
  /\ exclusiveNode' = IF n = exclusiveNode THEN None ELSE exclusiveNode
  /\ IF overBudget THEN pc' = "drain" /\ thrown' = "budget"
                   ELSE pc' = "loop" /\ UNCHANGED thrown
  /\ UNCHANGED <<runVars, nodeVars, waveVars, tallyVars, runStatus, overBudget, wave,
                 gating>>

\* Mutant: runNodes returns while its tasks are at work.
AllReportedNever == TRUE

AllReported == Live = {}

WaveSucceeded == thrown = "no" /\ ~ failed /\ failedGroups = {}

\* The `finally` of runNodes has waited for every task.  An exception is the
\* graph's failure, but leaves runWithLock from the outcome wave.
Drain ==
  /\ pc = "drain" /\ AllReported
  /\ stage' = [n \in Node |-> "idle"]
  /\ IF wave = "graph"
     THEN /\ outcome' = IF WaveSucceeded THEN "success" ELSE "failure"
          /\ pc' = "judged"
     ELSE /\ pc' = IF thrown = "no" THEN "finalize" ELSE "down"
          /\ UNCHANGED outcome
  /\ UNCHANGED <<plan, attempt, terminal, skip, nodeVars, waveVars, tallyVars,
                 runStatus, overBudget, wave, exclusiveNode, gating, thrown>>

\* After the verdict, and the failure hook, the nodes that wait for it.
Judged ==
  /\ pc = "judged"
  /\ IF Post # {} THEN EnterWave("outcome") ELSE pc' = "finalize" /\ WaveUnchanged
  /\ UNCHANGED <<runVars, nodeVars, runStatus, overBudget, untaken, failedGroups,
                 stage>>

Finalize ==
  /\ pc = "finalize"
  /\ pc' = "down"
  /\ IF outcome = "success"
     THEN runStatus' = "completed" /\ terminal' = "run_completed"
     ELSE IF runStatus = "aborted"
          THEN UNCHANGED runStatus /\ terminal' = "run_aborted"
          ELSE runStatus' = "failed" /\ terminal' = "run_failed"
  /\ WaveUnchanged
  /\ UNCHANGED <<plan, attempt, outcome, skip, nodeVars, overBudget, untaken,
                 failedGroups, stage>>

\* The process dies.  The completion of a node that has not reported may not
\* have reached the journal yet.
Crash ==
  /\ pc # "down"
  /\ pc' = "down"
  /\ stage' = [n \in Node |-> "idle"]
  /\ \E lost \in SUBSET {n \in Node : stage[n] = "reviewing"} :
        status' = [n \in Node |-> IF n \in lost THEN "running" ELSE status[n]]
  /\ WaveUnchanged
  /\ UNCHANGED <<runVars, runStatus, doneIn, overBudget, untaken, failedGroups>>

-----------------------------------------------------------------------------
(* The tasks: runScheduledNode and executeNode.                            *)

\* What no task touches.
TaskUnchanged == UNCHANGED <<runVars, waveVars, pc, wave, exclusiveNode, gating,
                             thrown>>

Enter(n) == /\ Awaiting /\ stage[n] = "entering"
            /\ stage' = [stage EXCEPT ![n] = "executing"]
            /\ status' = [status EXCEPT ![n] = "running"]
            /\ TaskUnchanged
            /\ UNCHANGED <<tallyVars, runStatus, doneIn, overBudget>>

\* writeBranchManifest throws; the task never entered the bracket.
ManifestFails(n) == /\ Awaiting /\ stage[n] = "entering"
                    /\ plan.join[n] # NoGroup
                    /\ status' = [status EXCEPT ![n] = "failed"]
                    /\ Settle(n, FALSE)
                    /\ TaskUnchanged
                    /\ UNCHANGED <<runStatus, doneIn, overBudget>>

\* nodeCompleted; the total cost may go either way, as a rerun replaces it.
Complete(n) == /\ Awaiting /\ stage[n] = "executing"
               /\ stage' = [stage EXCEPT ![n] = "reviewing"]
               /\ status' = [status EXCEPT ![n] = "completed"]
               /\ doneIn' = IF plan.runOn[n] = "none" THEN doneIn
                            ELSE [doneIn EXCEPT ![n] = attempt]
               /\ overBudget' \in IF plan.budget THEN BOOLEAN ELSE {FALSE}
               /\ TaskUnchanged
               /\ UNCHANGED <<tallyVars, runStatus>>

Accept(n) == /\ Awaiting /\ stage[n] = "reviewing"
             /\ Return(n, TRUE)
             /\ TaskUnchanged
             /\ UNCHANGED <<nodeVars, runStatus, overBudget>>

\* The node has spent more than its own budget.
Demote(n) == /\ Awaiting /\ stage[n] = "reviewing" /\ n \in plan.capped
             /\ status' = [status EXCEPT ![n] = "failed"]
             /\ Return(n, n \in plan.continues)
             /\ TaskUnchanged
             /\ UNCHANGED <<runStatus, doneIn, overBudget>>

\* The node fails; on_error: continue applies unless it threw.
Fail(n) == /\ Awaiting /\ stage[n] = "executing"
           /\ status' = [status EXCEPT ![n] = "failed"]
           /\ \E ok \in BOOLEAN : (ok => n \in plan.continues) /\ Return(n, ok)
           /\ TaskUnchanged
           /\ UNCHANGED <<runStatus, doneIn, overBudget>>

\* A human answers with one of abort_on.
Abort(n) == /\ Awaiting /\ stage[n] = "executing" /\ n \in plan.human
            /\ runStatus' = "aborted"
            /\ status' = [status EXCEPT ![n] = "failed"]
            /\ Return(n, n \in plan.continues)
            /\ TaskUnchanged
            /\ UNCHANGED <<doneIn, overBudget>>

\* guard.leave: the bracket is clean, or something leaked out of the tree.
Leave(n) == /\ Awaiting
            /\ \/ stage[n] = "leaving" /\ \E ok \in BOOLEAN : Settle(n, ok)
               \/ stage[n] = "failing" /\ Settle(n, FALSE)
            /\ TaskUnchanged
            /\ UNCHANGED <<nodeVars, runStatus, overBudget>>

\* How the body of a node ends.
Ends(n) == Complete(n) \/ Fail(n) \/ Abort(n)
Returns(n) == Accept(n) \/ Demote(n)

Task(n) == \/ Enter(n) \/ ManifestFails(n)
           \/ Ends(n) \/ Returns(n) \/ Leave(n)

Loop == \/ LoopTop \/ EndScan \/ Skipped \/ OpenGate \/ ShutGate \/ GateThrows
        \/ \E n \in Node : Consider(n) \/ Collect(n)

Attempt == \/ PrepareOk \/ PrepareFails \/ Drain \/ Judged \/ Finalize

Steps == \/ Begin \/ BeginOverBudget
         \/ Attempt \/ Loop
         \/ \E n \in Node : Task(n)

Next == Steps \/ Crash

Spec == Init /\ [][Next]_vars

\* The event loop runs what is ready, and every node comes to an end: agents
\* and commands have timeouts, and humans are assumed to answer.  Nobody has to
\* invoke the engine.
FairSpec == /\ Spec
            /\ WF_vars(Attempt \/ Loop)
            /\ \A n \in Node : WF_vars(Task(n))

-----------------------------------------------------------------------------
(* Properties.                                                             *)

Pcs == {"down", "prepare", "loop", "scan", "gate", "skipping", "race", "drain",
        "judged", "finalize"}
Stages == {"idle", "entering", "executing", "reviewing", "leaving", "failing", "settled"}
Statuses == {"pending", "running", "completed", "failed", "skipped"}

FlagsOK == overBudget \in BOOLEAN /\ failed \in BOOLEAN /\ progressed \in BOOLEAN

DataOK ==
  /\ plan \in Plans
  /\ pc \in Pcs
  /\ wave \in {"graph", "outcome"}
  /\ attempt \in 0 .. MaxAttempts
  /\ runStatus \in {"running", "completed", "failed", "aborted"}
  /\ terminal \in {"none", "run_completed", "run_failed", "run_aborted"}
  /\ outcome \in {"pending", "success", "failure"}
  /\ skip \subseteq Node
  /\ status \in [Node -> Statuses]
  /\ doneIn \in [Node -> 0 .. MaxAttempts]
  /\ untaken \subseteq Node
  /\ failedGroups \subseteq Group
  /\ pending \subseteq Node /\ satisfied \subseteq Node /\ scan \subseteq Node
  /\ exclusiveNode \in Node \cup {None}
  /\ gating \in Node \cup {None}
  /\ pc \in {"gate", "skipping"} => gating \in Node
  /\ thrown \in {"no", "gate", "budget", "stall"}
  /\ stage \in [Node -> Stages]

\* Every variable holds a value of its type.
TypeOK == DataOK /\ FlagsOK

\* A node is never at work together with a node it depends on, however
\* failures, skips and gates interleave (ready and satisfied in runNodes).
NoDependencyAtWork == \A n \in Live : plan.deps[n] \cap Live = {}

\* The running map never outgrows max_parallel, gates that open late included.
WithinCap == Running # {} => Cardinality(Running) <= Cap

\* A branch node without a tree of its own shares the run's tree with nobody
\* (exclusive in runNodes).
AloneIsAlone == \A n \in plan.alone \cap Running : Running = {n}

\* The tasks that work together, counted and shared as runNodes promises.
ConcurrencyIsBounded == WithinCap /\ AloneIsAlone

\* A node works only on inputs that are there: completed ones, and those whose
\* absence the user or the run's verdict asked for (FR-E89, FR-E95, gateNode).
InputsAreThere ==
  \A n \in Live : \A i \in plan.inputs[n] \cap WaveNodes :
     CASE status[i] = "completed" -> TRUE
       [] status[i] = "failed"    -> i \in plan.continues
       [] status[i] = "skipped"   -> \/ i \in skip
                                     \/ plan.join[i] \in failedGroups
                                     \/ WrongOutcome(i)
       [] OTHER -> FALSE

\* The members of the branches of group g.
Members(g) == {n \in Node : plan.group[n] = g}

\* No branch of g can have gone on past a member that is to be done (again):
\* none waits for the verdict, and none is redone by a resumed attempt after
\* its branch went on without it.
GoesInOrder(g) ==
  /\ Members(g) \cap Post = {}
  /\ \/ attempt = 1
     \/ Members(g) \cap (plan.continues \cup UNION plan.skips) = {}

\* A join works when every member of its group, the inner nodes of a branch
\* included, is done or given up for good, and not at all when
\* failure_mode: all_or_nothing has failed the group (FR-E95).
JoinSeesWholeGroup ==
  \A n \in Live : plan.join[n] # NoGroup /\ GoesInOrder(plan.join[n]) =>
     /\ plan.join[n] \notin failedGroups
     /\ Members(plan.join[n]) \cap (Live \cup pending) = {}

\* What a node works on is all there, and stays so while it works.
WorksOnWholeInputs == InputsAreThere /\ JoinSeesWholeGroup

\* A recorded run_completed is true: what failed in the graph was allowed to
\* fail by on_error or by its group (FR-E34, FR-E95).
CompletionIsEarned ==
  terminal = "run_completed" =>
     \A n \in Graph :
        \/ status[n] \in {"completed", "skipped"}
        \/ /\ status[n] = "failed"
           /\ n \in plan.continues \/ BranchFailureMode(n) = "collect"

\* An outcome wave that is not cut short by an exception has decided every
\* node that waits for the verdict, failures among them included (FR-E34).
OutcomeWaveIsWhole ==
  pc = "finalize" /\ wave = "outcome" => Post \subseteq satisfied

\* The verdict an attempt records is true, and was passed to everybody who
\* waits for it (runWithLock, FR-E34).
VerdictIsTrue == CompletionIsEarned /\ OutcomeWaveIsWhole

\* "Cannot resolve dependencies" is never thrown: a failure the run carries on
\* past never leaves its dependents unreachable (comment in runNodes).
NeverStalls == thrown # "stall"

\* Work that is done is not redone, in this attempt or in a resumed one; only
\* an every_attempt node is, and once per attempt (FR-E99).
DoneIsDone ==
  [][\A n \in Node :
        status[n] = "completed" /\ stage[n] = "idle" /\ status'[n] # "completed"
        => /\ wave = "outcome"
           /\ plan.runOn[n] = "every_attempt"
           /\ doneIn[n] < attempt]_vars

\* The parts of an attempt, and the turns of the loop without a change of a node.
PartsLeft == CASE pc = "prepare" -> 4 [] pc = "judged" -> 2 [] pc = "finalize" -> 0
               [] OTHER -> IF wave = "graph" THEN 3 ELSE 1
TurnsLeft == CASE pc \in {"gate", "skipping"} -> 3
               [] pc = "scan" -> IF progressed THEN 3 ELSE 1
               [] pc = "loop" -> 2
               [] OTHER -> 0

\* How much of its way node n has ahead in this wave.
Way == [idle |-> 0, settled |-> 1, leaving |-> 2, failing |-> 2, reviewing |-> 3,
        executing |-> 4, entering |-> 5]
Ahead(n) == CASE n \in pending -> 8
              [] pc = "gate" /\ n = gating -> 7
              [] pc = "skipping" /\ n = gating -> 6
              [] OTHER -> Way[stage[n]]
WaysLeft == {e \in Node \X (1 .. 8) : e[1] \in WaveNodes /\ e[2] <= Ahead(e[1])}

\* Reference: a number of steps within which the attempt is over.
StepsLeft ==
  PartsLeft * (32 * Cardinality(Node) + 4) + 4 * Cardinality(WaysLeft) + TurnsLeft

\* Whatever fails, is skipped or waits, every step of an attempt brings it nearer its
\* end: runNodes never goes round again over the same nodes in the same stages.
StepsAreNumbered == [][pc # "down" /\ pc' # "down" => StepsLeft' < StepsLeft]_vars

\* Every invocation of the engine comes to an end.
AttemptEnds == pc # "down" ~> pc = "down"

\* The attempts keep the contract of a run.
Phase == IF pc = "down" THEN "off"
         ELSE IF pc = "judged" \/ (pc = "finalize" /\ wave = "graph") THEN "judged"
         ELSE wave

Contract == INSTANCE RunContract WITH
              Worker <- Node, phase <- Phase, working <- Live, waits <- Post,
              verdict <- outcome, record <- terminal

\* Tasks at work, the verdict and the record relate as RunContract says.
KeepsContract == Contract!Spec

-----------------------------------------------------------------------------
(* What documents and comments say and the code does not do.               *)

\* "A reply listed in abort_on aborts the run" (08-graph-and-isolation.md).
AbortedIsNotCompleted == [][runStatus = "aborted" => terminal' # "run_completed"]_vars

\* "a node becomes runnable the moment the nodes it names in `inputs` - and,
\* for a `join`, every branch of its group - have finished" (runNodes).
JoinWaitsForBranches ==
  \A n \in Live : plan.join[n] # NoGroup =>
     Members(plan.join[n]) \cap (Live \cup pending) = {}

=============================================================================
