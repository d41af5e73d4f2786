-------------------------------- MODULE Loop --------------------------------
(***************************************************************************)
(* A loop node (loop.ts, executeLoopNode in node-dispatch.ts): the body    *)
(* nodes run one after the other, the exit condition is read after each    *)
(* iteration, and the loop repeats until it holds, until max_iterations or *)
(* until the next iteration does not fit the budget.  Each attempt of a    *)
(* body node decides which agent session it re-enters (session.ts).  The   *)
(* engine may die at any moment; a resumed run replays the journal and,    *)
(* the loop node not being completed, calls runLoop again from iteration 1.*)
(*                                                                         *)
(* A session is a number, one per session opened; a cost is a number.      *)
(* The loop's own counters are those of the call under way.                *)
(***************************************************************************)
EXTENDS Artifacts, FiniteSetsExt

CONSTANTS
  BodyOrder,      \* the body nodes in the order they run
  Inputs,         \* Inputs[b]: the body nodes that b lists as inputs
  Gated,          \* the body nodes with a `when` predicate
  Commands,       \* the body nodes of type command: no session, no cost
  Session,        \* Session[b]: "fresh", "continue" or a body node
  ConditionNode,  \* the node whose artifact holds condition_field
  ConditionField, ExitValue,
  Rules,          \* the rules of its `validate` that look at files
  File, Outputs,  \* the names of its files, and what it may leave there
  MaxIterations,
  RunBudget, NodeBudget, \* --budget and budget.max_usd, or NoCap
  Costs,          \* what an agent's attempt may cost
  MaxCrashes      \* bound on the deaths and resumptions of the engine

Body  == {BodyOrder[i] : i \in DOMAIN BodyOrder}
NoCap == -1
None  == 0        \* no session

\* buildLoopBodyOrder: each node once, after those it lists.
InputsFirst(order) ==
  \A i \in DOMAIN order : Inputs[order[i]] \subseteq {order[j] : j \in 1 .. i - 1}

ASSUME OrderAssumption ==
  /\ BodyOrder \in Seq(Body)
  /\ \A i, j \in DOMAIN BodyOrder : BodyOrder[i] = BodyOrder[j] => i = j

ASSUME LoopAssumption ==
  /\ InputsFirst(BodyOrder)
  /\ Inputs \in [Body -> SUBSET Body]
  /\ Gated \subseteq Body /\ Commands \subseteq Body
  /\ Session \in [Body -> {"fresh", "continue"} \cup Body]
  /\ ConditionNode \in Body
  /\ MaxIterations \in Nat \ {0} /\ MaxCrashes \in Nat
  /\ RunBudget \in Nat \cup {NoCap} /\ NodeBudget \in Nat \cup {NoCap}
  /\ Costs \subseteq Nat

\* The exit value is the text a reader compares with, out of its quotes.
ASSUME ExitAssumption ==
  /\ ExitValue # NoValue /\ Unquoted(ExitValue) = ExitValue
  /\ IsFiniteSet(File) /\ "condition.json" \in File
  /\ \A rule \in Rules : rule.path \in File
  /\ \A d \in Outputs : IsDirectory(File, d)

VARIABLES
  usesUntil,  \* the exit contract: `until`, or the condition_* triple
  at,         \* where runLoop stands
  iteration, pos, skipped, iterCost, loopCost,  \* its local variables
  attempt,    \* what the attempt under way re-enters and what it came to
  verdict,    \* what the call returned
  nodes,      \* state.nodes, for the body nodes
  saved,      \* the same as a replay of the journal gives it
  trail,      \* the loop_iteration records of this call
  dir,        \* the directory of the condition node
  turns,      \* history: turns[s] is the owner and the end of session s's last turn
  crashes

locals == <<iteration, pos, skipped, iterCost, loopCost>>
durable == <<saved, trail, dir>>
vars == <<usesUntil, at, locals, attempt, verdict, nodes, durable, turns, crashes>>

Fresh   == [status |-> "pending", iteration |-> 0, cost |-> 0, session |-> None]
NoTurn  == [session |-> None, ok |-> FALSE, cost |-> 0, recorded |-> FALSE]
Pending == [reason |-> "none", iterations |-> 0]
Current == BodyOrder[pos]

\* updateRunCost: one cost per node, that of its last completion.
RunCost == MapThenSumSet(LAMBDA b : nodes[b].cost, Body)

-----------------------------------------------------------------------------
(* session.ts                                                              *)

\* Mutant: whatever the last attempt came to.
EligibleAlways(b) == nodes[b].session

\* eligibleSession: only a node that stands completed offers its session.
Eligible(b) == IF nodes[b].status = "completed" THEN nodes[b].session ELSE None

\* resolveSessionToContinue, with the policy resolveSession read from the
\* configuration: a node's own session is a wish, another node's a demand.
SessionOwner(b) == IF Session[b] = "continue" THEN b ELSE Session[b]
SessionToContinue(b) ==
  IF b \in Commands \/ Session[b] = "fresh" THEN None ELSE Eligible(SessionOwner(b))
SessionMissing(b) ==
  b \notin Commands /\ Session[b] \in Body /\ SessionToContinue(b) = None

-----------------------------------------------------------------------------
(* Lifecycle records: a transition and the append of its snapshot.         *)

Becomes(b, node) == /\ nodes' = [nodes EXCEPT ![b] = node]
                    /\ saved' = [saved EXCEPT ![b] = node]

Log(kind, i) == trail' = Append(trail, <<kind, i>>)

Return(reason, i) == /\ verdict' = [reason |-> reason, iterations |-> i]
                     /\ at' = "returned"

\* A failure of an iteration is recorded and ends the call.
ReturnFailed == Log("failed", iteration) /\ Return("failed", iteration)

-----------------------------------------------------------------------------
(* The loop.                                                               *)

Init == /\ usesUntil \in BOOLEAN
        /\ at = "top"
        /\ iteration = 1 /\ pos = 1 /\ skipped = {} /\ iterCost = 0 /\ loopCost = 0
        /\ attempt = NoTurn /\ verdict = Pending
        /\ nodes = [b \in Body |-> Fresh] /\ saved = nodes
        /\ trail = <<>> /\ dir = [f \in File |-> NoFile]
        /\ turns = <<>> /\ crashes = 0

\* shouldPreemptLoop: the mean cost of an iteration against what is left.
ShouldPreempt == /\ iteration > 1 /\ RunBudget # NoCap
                 /\ loopCost > (RunBudget - RunCost) * (iteration - 1)

Preempt == /\ at = "top" /\ iteration <= MaxIterations /\ ShouldPreempt
           /\ Return("budget_preempt", iteration - 1)
           /\ UNCHANGED <<usesUntil, locals, attempt, nodes, durable, turns, crashes>>

StartIteration ==
  /\ at = "top" /\ iteration <= MaxIterations /\ ~ShouldPreempt
  /\ at' = "node" /\ pos' = 1 /\ skipped' = {} /\ iterCost' = 0
  /\ Log("started", iteration)
  /\ UNCHANGED <<usesUntil, iteration, loopCost, attempt, verdict, nodes, saved, dir,
                 turns, crashes>>

Exhausted ==
  /\ at = "top" /\ iteration > MaxIterations
  /\ Log("failed", MaxIterations) /\ Return("exhausted", MaxIterations)
  /\ UNCHANGED <<usesUntil, locals, attempt, nodes, saved, dir, turns, crashes>>

AtNode == at = "node" /\ pos \in DOMAIN BodyOrder

\* Mutant: a skip is not carried to the dependants.
InputSkippedNever == FALSE
InputSkipped == Inputs[Current] \cap skipped # {}

\* An input was skipped in this iteration, or the `when` predicate says no:
\* markNodeSkipped alone, with no record.
SkipNode ==
  /\ AtNode /\ (InputSkipped \/ Current \in Gated)
  /\ skipped' = skipped \cup {Current}
  /\ nodes' = [nodes EXCEPT ![Current].status = "skipped"]
  /\ pos' = pos + 1
  /\ UNCHANGED <<usesUntil, at, iteration, iterCost, loopCost, attempt, verdict, durable,
                 turns, crashes>>

\* A predicate that cannot be interpolated throws out of runLoop.
GateThrows ==
  /\ AtNode /\ ~InputSkipped /\ Current \in Gated
  /\ Return("threw", iteration)
  /\ UNCHANGED <<usesUntil, locals, attempt, nodes, durable, turns, crashes>>

BeginAttempt ==
  /\ AtNode /\ ~InputSkipped
  /\ attempt' = [NoTurn EXCEPT !.session = SessionToContinue(Current)]
  /\ Becomes(Current, [nodes[Current] EXCEPT !.status = "running", !.iteration = iteration])
  /\ at' = IF SessionMissing(Current) THEN "settle" ELSE "attempt"
  /\ UNCHANGED <<usesUntil, locals, verdict, trail, dir, turns, crashes>>

\* The runtime answers a turn in the session re-entered, or in a new one.
Turn == IF Current \in Commands THEN None
        ELSE IF attempt.session = None THEN Len(turns) + 1 ELSE attempt.session
NoteTurn(end) ==
  turns' = IF Turn = None THEN turns
           ELSE [s \in 1 .. Len(turns) \cup {Turn} |->
                   IF s = Turn THEN [owner |-> Current, end |-> end] ELSE turns[s]]

\* What the attempt leaves on disk: the condition node may write its files,
\* or leave those of an earlier iteration as they are.
Writes == IF Current # ConditionNode THEN {dir} ELSE {dir} \cup Outputs

\* runCommandBodyNode looks at the rules after the command, runAgent before it
\* gives back a success.
Validated(d) == Current = ConditionNode => AllPassed(Rules, d)

\* The attempt is over, its outcome not yet recorded on the node.  The
\* attempt_completed record brings the session to the journal.
AttemptEnds(ok, owned) ==
  /\ \E cost \in IF Current \in Commands THEN {0} ELSE Costs :
       attempt' = [session |-> Turn, ok |-> ok, cost |-> cost, recorded |-> owned]
  /\ NoteTurn("open")
  /\ at' = "settle"

\* appendAttemptCompleted and its replay: a node keeps the session of its turn.
WithSession(node) == [node EXCEPT !.session = Turn]

AgentAnswers(ok) ==
  /\ at = "attempt" /\ Current \notin Commands
  /\ dir' \in Writes /\ (ok => Validated(dir'))
  /\ AttemptEnds(ok, FALSE)
  /\ nodes' = [nodes EXCEPT ![Current] = WithSession(@)]
  /\ saved' = [saved EXCEPT ![Current] = WithSession(@)]
  /\ UNCHANGED <<usesUntil, locals, verdict, trail, crashes>>

\* runCommandNode: the exit code, or -1 for a command that ran into its timeout;
\* what it has written stays.
ExitCodes == {-1, 0, 1}

CommandEnds(code) ==
  /\ at = "attempt" /\ Current \in Commands
  /\ dir' \in Writes
  /\ AttemptEnds(code = 0 /\ Validated(dir'), FALSE)
  /\ UNCHANGED <<usesUntil, locals, verdict, nodes, saved, trail, crashes>>

\* carriesHitlQuestion: the turn is a question; the router marks the node.
AskHuman ==
  /\ at = "attempt" /\ Current \notin Commands
  /\ attempt' = [attempt EXCEPT !.session = Turn]
  /\ NoteTurn("open")
  /\ Becomes(Current, [nodes[Current] EXCEPT !.status = "waiting", !.session = Turn])
  /\ at' = "human"
  /\ UNCHANGED <<usesUntil, locals, verdict, trail, dir, crashes>>

\* The turn that takes the reply up is not validated.
HumanAnswers ==
  /\ at = "human" /\ dir' \in Writes
  /\ AttemptEnds(TRUE, FALSE)
  /\ UNCHANGED <<usesUntil, locals, verdict, nodes, saved, trail, crashes>>

\* handleAgentHitl gives up and has recorded the failure on the node itself.
RouterGivesUp ==
  /\ at = "human" \/ (at = "attempt" /\ Current \notin Commands)
  /\ dir' \in Writes /\ AttemptEnds(FALSE, TRUE)
  /\ Becomes(Current, [nodes[Current] EXCEPT !.status = "failed"])
  /\ UNCHANGED <<usesUntil, locals, verdict, trail, crashes>>

EndTurn(end) == turns' = IF attempt.session = None THEN turns
                         ELSE [turns EXCEPT ![attempt.session].end = end]

\* Mutant: a node that has failed is tried again in the same iteration.
SettleFailureAgain ==
  /\ at = "settle" /\ ~attempt.ok
  /\ EndTurn("failed")
  /\ at' = "node" /\ attempt' = NoTurn
  /\ UNCHANGED <<usesUntil, iteration, pos, skipped, iterCost, loopCost, verdict, nodes,
                 durable, crashes>>

\* A failed attempt fails its node, unless the router has, and the loop.
SettleFailure ==
  /\ at = "settle" /\ ~attempt.ok
  /\ IF attempt.recorded THEN UNCHANGED <<nodes, saved>>
     ELSE Becomes(Current, [nodes[Current] EXCEPT !.status = "failed"])
  /\ EndTurn("failed")
  /\ ReturnFailed
  /\ UNCHANGED <<usesUntil, locals, attempt, dir, crashes>>

SettleSuccess ==
  /\ at = "settle" /\ attempt.ok
  /\ Becomes(Current, [nodes[Current] EXCEPT !.status = "completed",
       !.cost = IF Current \in Commands THEN @ ELSE attempt.cost])
  /\ EndTurn("completed")
  /\ at' = "settled"
  /\ UNCHANGED <<usesUntil, locals, attempt, verdict, trail, dir, crashes>>

OverCap == NodeBudget # NoCap /\ nodes[Current].cost > NodeBudget

\* Over its own cap: the completed node is failed after all.
OverNodeBudget ==
  /\ at = "settled" /\ OverCap
  /\ Becomes(Current, [nodes[Current] EXCEPT !.status = "failed"])
  /\ EndTurn("failed")
  /\ ReturnFailed
  /\ UNCHANGED <<usesUntil, locals, attempt, dir, crashes>>

\* Over the cap of the run: the exception fails the loop node.
OverRunBudget ==
  /\ at = "settled" /\ ~OverCap /\ RunBudget # NoCap /\ RunCost > RunBudget
  /\ Return("threw", iteration)
  /\ UNCHANGED <<usesUntil, locals, attempt, nodes, durable, turns, crashes>>

NextNode ==
  /\ at = "settled" /\ ~OverCap /\ (RunBudget = NoCap \/ RunCost <= RunBudget)
  /\ iterCost' = iterCost + nodes[Current].cost
  /\ at' = "node" /\ pos' = pos + 1
  /\ attempt' = NoTurn
  /\ UNCHANGED <<usesUntil, iteration, skipped, loopCost, verdict, nodes, durable, turns,
                 crashes>>

-----------------------------------------------------------------------------
(* The exit condition, once the last body node is settled or skipped.      *)

AtExit == at = "node" /\ pos > Len(BodyOrder)

ExitHolds == /\ AtExit
             /\ usesUntil \/ ExitValue \in ConditionValues(dir, ConditionField)
             /\ Log("completed", iteration)
             /\ Return(IF usesUntil THEN "until_satisfied" ELSE "exit_value", iteration)
             /\ UNCHANGED <<usesUntil, locals, attempt, nodes, saved, dir, turns, crashes>>

\* The predicate cannot be interpolated, or the field is not in the artifact.
ExitUnreadable == /\ AtExit
                  /\ usesUntil \/ NoValue \in ConditionValues(dir, ConditionField)
                  /\ ReturnFailed
                  /\ UNCHANGED <<usesUntil, locals, attempt, nodes, saved, dir, turns, crashes>>

ExitDoesNotHold ==
  /\ AtExit
  /\ usesUntil \/ ConditionValues(dir, ConditionField) \ {ExitValue, NoValue} # {}
  /\ Log("completed", iteration)
  /\ loopCost' = loopCost + iterCost
  /\ iteration' = iteration + 1 /\ at' = "top"
  /\ UNCHANGED <<usesUntil, pos, skipped, iterCost, attempt, verdict, nodes, saved, dir,
                 turns, crashes>>

-----------------------------------------------------------------------------
(* Death and resumption.                                                   *)

\* The engine dies in the loop, maybe before what it returned is recorded,
\* or ends the run because the loop failed; a resumed run has the nodes of
\* the journal and calls runLoop afresh.
Resume ==
  /\ crashes < MaxCrashes
  /\ crashes' = crashes + 1
  /\ at' = "top" /\ iteration' = 1 /\ pos' = 1 /\ skipped' = {}
  /\ iterCost' = 0 /\ loopCost' = 0 /\ attempt' = NoTurn /\ verdict' = Pending
  /\ nodes' = saved /\ trail' = <<>>
  /\ dir' \in IF at = "attempt" THEN Writes ELSE {dir}
  /\ UNCHANGED <<usesUntil, saved, turns>>

LoopStep == \/ Preempt \/ StartIteration \/ Exhausted
            \/ SkipNode \/ GateThrows \/ BeginAttempt
            \/ \E ok \in BOOLEAN : AgentAnswers(ok)
            \/ \E code \in ExitCodes : CommandEnds(code)
            \/ AskHuman \/ HumanAnswers \/ RouterGivesUp
            \/ SettleFailure \/ SettleSuccess
            \/ OverNodeBudget \/ OverRunBudget \/ NextNode
            \/ ExitHolds \/ ExitUnreadable \/ ExitDoesNotHold

Next == LoopStep \/ Resume

\* No fairness: an agent and a question to a human have a timeout, but a `when` or
\* `until` predicate (predicate.ts:38-43) and a custom_script rule
\* (validate.ts:340-346) may take for ever.
Spec == Init /\ [][Next]_vars

-----------------------------------------------------------------------------
(* Properties.                                                             *)

\* Every variable holds a value of its type.
TypeOK ==
  /\ usesUntil \in BOOLEAN
  /\ at \in {"top", "node", "attempt", "human", "settle", "settled", "returned"}
  /\ iteration \in 1 .. MaxIterations + 1 /\ pos \in 1 .. Len(BodyOrder) + 1
  /\ skipped \subseteq Body /\ iterCost \in Nat /\ loopCost \in Nat
  /\ attempt \in [session : Nat, ok : BOOLEAN, cost : Nat, recorded : BOOLEAN]
  /\ verdict \in [reason : {"none", "exit_value", "until_satisfied", "budget_preempt",
                           "failed", "exhausted", "threw"},
                  iterations : 0 .. MaxIterations]
  /\ \A n \in {nodes, saved} : n \in
       [Body -> [status : {"pending", "running", "waiting", "completed", "failed", "skipped"},
                 iteration : 0 .. MaxIterations, cost : Nat, session : Nat]]
  /\ trail \in Seq({"started", "completed", "failed"} \X (1 .. MaxIterations))
  /\ DOMAIN dir = File
  /\ turns \in Seq([owner : Body, end : {"open", "completed", "failed"}])
  /\ crashes \in 0 .. MaxCrashes

(* A loop that succeeds has a whole last iteration behind it, resumed or   *)
(* not: each body node was skipped or completed in that very iteration.    *)
LastIterationIsWhole ==
  verdict.reason \in {"exit_value", "until_satisfied", "budget_preempt"} =>
    \A b \in Body : \/ nodes[b].status = "skipped"
                   \/ /\ nodes[b].status = "completed"
                      /\ nodes[b].iteration = verdict.iterations

\* The files of the directory that give the condition field.
Giving == {f \in File : /\ Exists(dir, f) /\ dir[f].front # NoFront
                        /\ LinesOf(dir[f].front, ConditionField) # {}}

\* Every rule on the condition field finds the exit value where it looks.
RulesSeeExit ==
  \A rule \in {r \in Rules : r.type = "frontmatter_field" /\ r.field = ConditionField} :
     LET front == RuleFront(dir[rule.path])
     IN front # NoFront /\ Unquoted(FirstValue(front, ConditionField)) = ExitValue

\* The loop has read its exit value from a condition node that ran in this
\* iteration and could not stop to ask a human.
ExitOfThisIteration == /\ verdict.reason = "exit_value"
                       /\ nodes[ConditionNode].status = "completed"
                       /\ ConditionNode \in Commands

(* FR-E36, FR-S37: a loop ends by a value that the rule on its field has   *)
(* accepted, if only one file gives the field.                             *)
ExitWasValidated == ExitOfThisIteration /\ Cardinality(Giving) = 1 => RulesSeeExit

(* What the success of a loop stands for (runLoop, runValidations).        *)
SuccessIsEarned == LastIterationIsWhole /\ ExitWasValidated

(* The same whatever the node leaves: the rule reads its own path, the     *)
(* loop the first file that has the field, or condition.json               *)
(* (design-sdlc/03-init-data-logic.md:144-150).                            *)
ExitIsTheRulesValue == ExitOfThisIteration => RulesSeeExit

(* FR-E89: an attempt reads the artifacts of its inputs, which an earlier  *)
(* iteration leaves behind: it starts only if this one has written them.   *)
InputsAreOfThisIteration ==
  [][at = "node" /\ at' = "attempt" =>
       \A i \in Inputs[Current] :
         nodes[i].status = "completed" /\ nodes[i].iteration = iteration]_vars

(* FR-E100: an attempt never re-enters a conversation whose last turn      *)
(* failed or was cut short; after a failure a resumed run starts fresh.    *)
FailedSessionIsLeftAlone ==
  [][at = "node" /\ at' = "attempt" /\ attempt'.session # None =>
       turns[attempt'.session].end = "completed"]_vars

\* The stages a body node has still to go through, and the steps a call has left.
StagesLeft == [node |-> 5, attempt |-> 4, human |-> 3, settle |-> 2, settled |-> 1]
IterationSteps == 5 * Len(BodyOrder) + 6
StepsToReturn ==
  CASE at = "returned" -> 0
    [] at = "top" -> (MaxIterations + 1 - iteration) * IterationSteps + 1
    [] OTHER -> (MaxIterations - iteration) * IterationSteps + 1
                  + 5 * (Len(BodyOrder) + 1 - pos) + StagesLeft[at]

(* Every step of a call brings it nearer its return: a failure, a question *)
(* or a skip never sends runLoop back to a node or an iteration that it    *)
(* has left (loop.ts:332, 368).  So a call whose agents, predicates and    *)
(* rules all end returns, and one that does not return waits for one that  *)
(* does not end.                                                           *)
CallIsNumbered == [][crashes' = crashes => StepsToReturn' < StepsToReturn]_vars

=============================================================================
