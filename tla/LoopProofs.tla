----------------------------- MODULE LoopProofs -----------------------------
(***************************************************************************)
(* Proofs about a loop (Loop): whatever its body, its gates, its budgets   *)
(* and the deaths of the engine, an attempt reads only what its own        *)
(* iteration has written, no conversation that failed is re-entered, and   *)
(* a loop that succeeds has a whole last iteration and a checked value     *)
(* behind it.                                                              *)
(***************************************************************************)
EXTENDS Loop, FiniteSetTheorems, TLAPS

\* Where a call is while a body node has an attempt, and inside an iteration.
Trying == {"attempt", "human", "settle", "settled"}
Inside == {"node"} \cup Trying

\* The state of the nodes is one of records that have what is read of them.
IsState(n) == /\ n = [b \in Body |-> n[b]]
              /\ \A b \in Body : {"status", "iteration"} \subseteq DOMAIN n[b]

\* A node that iteration i has left behind.
SettledIn(b, i) == \/ nodes[b].status = "skipped"
                   \/ nodes[b].status = "completed" /\ nodes[b].iteration = i

PlaceOK == /\ at \in Inside \cup {"top", "returned"}
           /\ iteration \in Nat /\ pos \in Nat
           /\ at \in Trying => pos \in DOMAIN BodyOrder

\* The node under way is of this iteration; once settled it is completed.
CurrentOK == /\ at \in Trying => nodes[Current].iteration = iteration
             /\ at = "settled" => nodes[Current].status = "completed"

\* The nodes before the one under way were skipped or completed in this
\* iteration, and `skipped` tells which.
PassedAreWhole ==
  at \in Inside => \A k \in DOMAIN BodyOrder : k < pos =>
    /\ SettledIn(BodyOrder[k], iteration)
    /\ nodes[BodyOrder[k]].status = "skipped" => BodyOrder[k] \in skipped

\* An iteration that is followed by another has left all of them behind.
IterationIsWhole ==
  at = "top" /\ iteration > 1 => \A b \in Body : SettledIn(b, iteration - 1)

IInv == /\ PlaceOK /\ IsState(nodes) /\ IsState(saved)
        /\ CurrentOK /\ PassedAreWhole /\ IterationIsWhole
        /\ at # "returned" => verdict = Pending
        /\ LastIterationIsWhole

-----------------------------------------------------------------------------
(* Lemmas.                                                                 *)

\* The places of the order are 1 .. Len, and each holds a body node.
LEMMA Places == /\ DOMAIN BodyOrder = 1 .. Len(BodyOrder) /\ Len(BodyOrder) \in Nat
                /\ \A k \in DOMAIN BodyOrder : BodyOrder[k] \in Body
BY OrderAssumption DEF Body

\* A node put in the place of another leaves a state of the nodes.
LEMMA OneNodeChanges ==
  ASSUME NEW n, IsState(n), NEW b \in Body, NEW node,
         {"status", "iteration"} \subseteq DOMAIN node, NEW m, m = [n EXCEPT ![b] = node]
  PROVE  IsState(m)
<1>1. m = [c \in Body |-> IF c = b THEN node ELSE n[c]]
  BY DEF IsState
<1>2. \A c \in Body : m[c] = IF c = b THEN node ELSE n[c]
  BY <1>1
<1>3. m = [c \in Body |-> m[c]]
  BY <1>1
<1> QED
  BY <1>2, <1>3 DEF IsState

\* What a step does to the node under way disturbs none of those before it.
LEMMA PassedStay ==
  ASSUME IInv, at \in Inside, pos \in DOMAIN BodyOrder,
         \A b \in Body \ {Current} : nodes'[b] = nodes[b],
         UNCHANGED <<iteration, skipped, pos>>
  PROVE  PassedAreWhole'
<1>1. \A k \in DOMAIN BodyOrder : k < pos => BodyOrder[k] \in Body \ {Current}
  BY Places, OrderAssumption DEF Current
<1> QED
  BY <1>1 DEF IInv, PassedAreWhole, SettledIn

\* A step inside an iteration that leaves every node alone, and the call in the
\* iteration, keeps what the invariant says of the nodes.
LEMMA NodesAlone ==
  ASSUME IInv, at \in Inside, at' \in Inside, UNCHANGED <<nodes, iteration, skipped, pos>>
  PROVE  PassedAreWhole' /\ IterationIsWhole'
BY DEF IInv, PassedAreWhole, IterationIsWhole, SettledIn, Inside, Trying

\* At the end of the body the iteration has left every node behind.
LEMMA WholeAtExit == IInv /\ AtExit => \A b \in Body : SettledIn(b, iteration)
<1> SUFFICES ASSUME IInv, AtExit, NEW b \in Body PROVE SettledIn(b, iteration)
  OBVIOUS
<1>1. PICK k \in DOMAIN BodyOrder : b = BodyOrder[k]
  BY DEF Body
<1>2. k < pos
  BY Places, <1>1 DEF AtExit, IInv, PlaceOK
<1> QED
  BY <1>1, <1>2 DEF IInv, PassedAreWhole, AtExit, Inside

-----------------------------------------------------------------------------
(* The invariant, one lemma per part of an iteration.                      *)

\* A call that returns, and did not succeed, leaves nothing to show but that the
\* nodes are still states.
LEMMA ReturnKeeps ==
  ASSUME IInv, NEW reason \in {"failed", "exhausted", "threw"}, NEW i,
         Return(reason, i), IsState(nodes'), IsState(saved'), UNCHANGED <<iteration, pos>>
  PROVE  IInv'
<1>1. at' = "returned" /\ verdict'.reason = reason
  BY DEF Return
<1> QED
  BY <1>1 DEF IInv, PlaceOK, CurrentOK, PassedAreWhole, IterationIsWhole,
              LastIterationIsWhole, Inside, Trying

\* A step of the node under way that changes no other node, and after which the
\* attempt goes on or is settled.
LEMMA TurnKeeps ==
  ASSUME IInv, at \in Inside, pos \in DOMAIN BodyOrder, at' \in Trying,
         IsState(nodes'), IsState(saved'),
         \A b \in Body \ {Current} : nodes'[b] = nodes[b],
         nodes'[Current].iteration = iteration,
         at' = "settled" => nodes'[Current].status = "completed",
         UNCHANGED <<iteration, skipped, pos, verdict>>
  PROVE  IInv'
<1>1. PassedAreWhole'
  BY PassedStay
<1>2. PlaceOK' /\ CurrentOK' /\ IterationIsWhole'
  BY DEF IInv, PlaceOK, CurrentOK, IterationIsWhole, Inside, Trying, Current
<1>3. verdict' = Pending
  BY DEF IInv, Inside, Trying
<1> QED
  BY <1>1, <1>2, <1>3 DEF IInv, LastIterationIsWhole, Pending, Trying

\* A record of the node under way leaves states in memory and in the journal.
LEMMA RecordKeeps ==
  ASSUME IInv, pos \in DOMAIN BodyOrder, NEW node,
         {"status", "iteration"} \subseteq DOMAIN node, Becomes(Current, node)
  PROVE  /\ IsState(nodes') /\ IsState(saved') /\ nodes'[Current] = node
         /\ \A b \in Body \ {Current} : nodes'[b] = nodes[b]
<1>1. Current \in Body
  BY Places DEF Current
<1>2. IsState(nodes) /\ IsState(saved)
  BY DEF IInv
<1>3. nodes' = [nodes EXCEPT ![Current] = node] /\ saved' = [saved EXCEPT ![Current] = node]
  BY DEF Becomes
<1>4. IsState(nodes') /\ IsState(saved')
  BY <1>1, <1>2, <1>3, OneNodeChanges, Zenon
<1>5. nodes'[Current] = node /\ \A b \in Body \ {Current} : nodes'[b] = nodes[b]
  BY <1>1, <1>2, <1>3 DEF IsState
<1> QED
  BY <1>4, <1>5

\* A loop begins with a whole iteration before it.
LEMMA InitWhole == Init => IInv
<1> SUFFICES ASSUME Init PROVE IInv
  OBVIOUS
<1>1. IsState(nodes) /\ IsState(saved)
  BY DEF Init, IsState, Fresh
<1> QED
  BY <1>1 DEF Init, IInv, PlaceOK, CurrentOK, PassedAreWhole, IterationIsWhole,
              LastIterationIsWhole, Pending, Inside, Trying

\* The top of the loop.
LEMMA TopKeeps == IInv /\ (Preempt \/ StartIteration \/ Exhausted) => IInv'
<1> SUFFICES ASSUME IInv, Preempt \/ StartIteration \/ Exhausted PROVE IInv'
  OBVIOUS
<1>1. CASE Preempt
  <2>1. /\ at' = "returned" /\ verdict'.iterations = iteration - 1
        /\ UNCHANGED <<iteration, pos, nodes, saved>>
    BY <1>1 DEF Preempt, Return, locals, durable
  <2>2. \A b \in Body : SettledIn(b, iteration - 1)
    BY <1>1 DEF Preempt, ShouldPreempt, IInv, IterationIsWhole
  <2>3. LastIterationIsWhole'
    BY <2>1, <2>2 DEF LastIterationIsWhole, SettledIn
  <2> QED
    BY <2>1, <2>3 DEF IInv, PlaceOK, CurrentOK, PassedAreWhole, IterationIsWhole, IsState,
                      Inside, Trying
<1>2. CASE StartIteration
  <2>1. at = "top" /\ at' = "node" /\ pos' = 1 /\ UNCHANGED <<iteration, nodes, saved, verdict>>
    BY <1>2 DEF StartIteration
  <2>2. PassedAreWhole'
    BY <2>1, Places DEF PassedAreWhole
  <2> QED
    BY <2>1, <2>2 DEF IInv, PlaceOK, CurrentOK, IterationIsWhole, LastIterationIsWhole,
                      IsState, Pending, Inside, Trying
<1>3. CASE Exhausted
  <2>1. Return("exhausted", MaxIterations) /\ UNCHANGED <<iteration, pos, nodes, saved>>
    BY <1>3 DEF Exhausted, locals
  <2> QED
    BY <2>1, ReturnKeeps DEF IInv, IsState
<1> QED
  BY <1>1, <1>2, <1>3

\* The choice of what to do with a body node.
LEMMA NodeKeeps == IInv /\ (SkipNode \/ GateThrows \/ BeginAttempt) => IInv'
<1> SUFFICES ASSUME IInv, AtNode, SkipNode \/ GateThrows \/ BeginAttempt PROVE IInv'
  BY DEF SkipNode, GateThrows, BeginAttempt
<1>1. at = "node" /\ at \in Inside /\ pos \in DOMAIN BodyOrder /\ Current \in Body
  BY Places DEF AtNode, Inside, Current
<1>2. {"status", "iteration"} \subseteq DOMAIN nodes[Current]
  BY <1>1 DEF IInv, IsState
<1>3. CASE SkipNode
  <2> DEFINE node == [nodes[Current] EXCEPT !.status = "skipped"]
  <2>1. /\ nodes' = [nodes EXCEPT ![Current] = node] /\ pos' = pos + 1
        /\ skipped' = skipped \cup {Current}
        /\ UNCHANGED <<at, iteration, verdict, saved>>
    BY <1>3 DEF SkipNode, durable
  <2>2. node.status = "skipped" /\ {"status", "iteration"} \subseteq DOMAIN node
    BY <1>2
  <2> HIDE DEF node
  <2>3. /\ IsState(nodes') /\ nodes'[Current] = node
        /\ \A b \in Body \ {Current} : nodes'[b] = nodes[b]
    <3>1. IsState(nodes)
      BY DEF IInv
    <3>2. IsState(nodes')
      BY <1>1, <2>1, <2>2, <3>1, OneNodeChanges, Zenon
    <3> QED
      BY <1>1, <2>1, <3>1, <3>2 DEF IsState
  <2>4. ASSUME NEW k \in DOMAIN BodyOrder, k < pos'
        PROVE  /\ SettledIn(BodyOrder[k], iteration)'
               /\ BodyOrder[k] \in skipped' \/ nodes'[BodyOrder[k]].status # "skipped"
    <3>1. CASE k = pos
      BY <3>1, <2>1, <2>2, <2>3 DEF SettledIn, Current
    <3>2. CASE k # pos
      <4>1. k < pos /\ BodyOrder[k] \in Body \ {Current}
        BY <1>1, <2>1, <2>4, <3>2, Places, OrderAssumption DEF IInv, PlaceOK, Current
      <4> QED
        BY <1>1, <2>1, <2>3, <4>1 DEF IInv, PassedAreWhole, SettledIn
    <3> QED
      BY <3>1, <3>2
  <2>5. PassedAreWhole'
    BY <2>1, <2>4 DEF PassedAreWhole
  <2> QED
    BY <1>1, <2>1, <2>3, <2>5 DEF IInv, PlaceOK, CurrentOK, IterationIsWhole, IsState,
         LastIterationIsWhole, Pending, Inside, Trying
<1>4. CASE GateThrows
  <2>1. Return("threw", iteration) /\ UNCHANGED <<iteration, pos, nodes, saved>>
    BY <1>4 DEF GateThrows, locals, durable
  <2> QED
    BY <2>1, ReturnKeeps DEF IInv, IsState
<1>5. CASE BeginAttempt
  <2> DEFINE node == [nodes[Current] EXCEPT !.status = "running", !.iteration = iteration]
  <2>1. /\ Becomes(Current, node) /\ at' \in {"attempt", "settle"}
        /\ UNCHANGED <<iteration, skipped, pos, verdict>>
    BY <1>5 DEF BeginAttempt, locals
  <2>2. node.iteration = iteration /\ {"status", "iteration"} \subseteq DOMAIN node
    BY <1>2
  <2> HIDE DEF node
  <2>3. /\ IsState(nodes') /\ IsState(saved') /\ nodes'[Current] = node
        /\ \A b \in Body \ {Current} : nodes'[b] = nodes[b]
    BY <1>1, <2>1, <2>2, RecordKeeps
  <2> QED
    BY <1>1, <2>1, <2>2, <2>3, TurnKeeps DEF Trying
<1> QED
  BY <1>3, <1>4, <1>5

\* The attempt of a body node, up to its outcome.
Attempt == \/ \E ok \in BOOLEAN : AgentAnswers(ok)
           \/ \E exit \in ExitCodes : CommandEnds(exit)
           \/ AskHuman \/ HumanAnswers \/ RouterGivesUp

\* The steps of an attempt keep the invariant.
LEMMA AttemptKeeps == IInv /\ Attempt => IInv'
<1> SUFFICES ASSUME IInv, Attempt PROVE IInv'
  OBVIOUS
<1>1. at \in Trying /\ at \in Inside
  BY DEF Attempt, AgentAnswers, CommandEnds, AskHuman, HumanAnswers, RouterGivesUp, Trying,
         Inside
<1>2. pos \in DOMAIN BodyOrder /\ Current \in Body /\ nodes[Current].iteration = iteration
  BY <1>1, Places DEF IInv, PlaceOK, CurrentOK, Current
<1>3. IsState(nodes) /\ IsState(saved)
  BY DEF IInv
<1>4. {"status", "iteration"} \subseteq DOMAIN nodes[Current]
  BY <1>2, <1>3 DEF IsState
<1>5. UNCHANGED <<iteration, skipped, pos, verdict>> /\ at' \in {"settle", "human"}
  BY DEF Attempt, AgentAnswers, CommandEnds, AskHuman, HumanAnswers, RouterGivesUp,
         AttemptEnds, locals
<1>6. ASSUME NEW ok \in BOOLEAN, AgentAnswers(ok) PROVE IInv'
  <2> DEFINE node == [nodes[Current] EXCEPT !.session = Turn]
             copy == [saved[Current] EXCEPT !.session = Turn]
  <2>1. nodes' = [nodes EXCEPT ![Current] = node] /\ saved' = [saved EXCEPT ![Current] = copy]
    BY <1>6 DEF AgentAnswers, WithSession
  <2>2. /\ {"status", "iteration"} \subseteq DOMAIN node /\ node.iteration = iteration
        /\ {"status", "iteration"} \subseteq DOMAIN copy
    BY <1>2, <1>3, <1>4 DEF IsState
  <2> HIDE DEF node, copy
  <2>3. IsState(nodes') /\ IsState(saved')
    BY <1>2, <1>3, <2>1, <2>2, OneNodeChanges, Zenon
  <2>4. nodes'[Current] = node /\ \A b \in Body \ {Current} : nodes'[b] = nodes[b]
    BY <1>2, <1>3, <2>1 DEF IsState
  <2> QED
    BY <1>1, <1>2, <1>5, <2>2, <2>3, <2>4, TurnKeeps DEF Trying
<1>7. CASE HumanAnswers \/ \E exit \in ExitCodes : CommandEnds(exit)
  <2>1. UNCHANGED <<nodes, saved>>
    BY <1>7 DEF HumanAnswers, CommandEnds
  <2>2. IsState(nodes') /\ IsState(saved')
    BY <1>3, <2>1 DEF IsState
  <2> QED
    BY <1>1, <1>2, <1>5, <2>1, <2>2, TurnKeeps DEF Trying
<1>8. CASE AskHuman \/ RouterGivesUp
  <2> DEFINE asks == [nodes[Current] EXCEPT !.status = "waiting", !.session = Turn]
             fails == [nodes[Current] EXCEPT !.status = "failed"]
             Keeps(node) == /\ node.iteration = iteration
                            /\ {"status", "iteration"} \subseteq DOMAIN node
  <2>1. Keeps(asks) /\ Keeps(fails)
    BY <1>2, <1>4
  <2>2. Becomes(Current, asks) \/ Becomes(Current, fails)
    BY <1>8 DEF AskHuman, RouterGivesUp
  <2> HIDE DEF asks, fails
  <2>3. PICK node : Becomes(Current, node) /\ Keeps(node)
    BY <2>1, <2>2
  <2>4. /\ IsState(nodes') /\ IsState(saved') /\ nodes'[Current] = node
        /\ \A b \in Body \ {Current} : nodes'[b] = nodes[b]
    BY <1>2, <2>3, RecordKeeps
  <2> QED
    BY <1>1, <1>2, <1>5, <2>3, <2>4, TurnKeeps DEF Trying
<1> QED
  BY <1>6, <1>7, <1>8 DEF Attempt

\* The outcome of the attempt, and what it makes of the node and the loop.
Settle == SettleFailure \/ SettleSuccess \/ OverNodeBudget \/ OverRunBudget \/ NextNode

\* So do those that settle one.
LEMMA SettleKeeps == IInv /\ Settle => IInv'
<1> SUFFICES ASSUME IInv, Settle PROVE IInv'
  OBVIOUS
<1>1. at \in {"settle", "settled"} /\ at \in Trying /\ at \in Inside
  BY DEF Settle, SettleFailure, SettleSuccess, OverNodeBudget, OverRunBudget, NextNode,
         Trying, Inside
<1>2. pos \in DOMAIN BodyOrder /\ Current \in Body /\ nodes[Current].iteration = iteration
  BY <1>1, Places DEF IInv, PlaceOK, CurrentOK, Current
<1>3. IsState(nodes) /\ IsState(saved)
  BY DEF IInv
<1>4. {"status", "iteration"} \subseteq DOMAIN nodes[Current]
  BY <1>2, <1>3 DEF IsState
<1>5. ASSUME NEW node, Becomes(Current, node), node.iteration = iteration,
             {"status", "iteration"} \subseteq DOMAIN node
      PROVE  /\ IsState(nodes') /\ IsState(saved') /\ nodes'[Current] = node
             /\ \A b \in Body \ {Current} : nodes'[b] = nodes[b]
  BY <1>2, <1>5, RecordKeeps
<1>6. CASE SettleFailure \/ OverNodeBudget
  <2>1. Return("failed", iteration) /\ UNCHANGED <<iteration, pos>>
    BY <1>6 DEF SettleFailure, OverNodeBudget, ReturnFailed, locals
  <2> DEFINE node == [nodes[Current] EXCEPT !.status = "failed"]
  <2>2. UNCHANGED <<nodes, saved>> \/ Becomes(Current, node)
    BY <1>6 DEF SettleFailure, OverNodeBudget
  <2>3. {"status", "iteration"} \subseteq DOMAIN node /\ node.iteration = iteration
    BY <1>2, <1>4
  <2> HIDE DEF node
  <2>4. IsState(nodes') /\ IsState(saved')
    <3>1. CASE UNCHANGED <<nodes, saved>>
      BY <1>3, <3>1 DEF IsState
    <3> QED
      BY <1>5, <2>2, <2>3, <3>1
  <2> QED
    BY <2>1, <2>4, ReturnKeeps
<1>7. CASE SettleSuccess
  <2> DEFINE node == [nodes[Current] EXCEPT !.status = "completed",
                        !.cost = IF Current \in Commands THEN @ ELSE attempt.cost]
  <2>1. Becomes(Current, node)
    BY <1>7 DEF SettleSuccess
  <2>2. at' = "settled" /\ UNCHANGED <<iteration, skipped, pos, verdict>>
    BY <1>7 DEF SettleSuccess, locals
  <2>3. /\ {"status", "iteration"} \subseteq DOMAIN node
        /\ node.iteration = iteration /\ node.status = "completed"
    BY <1>2, <1>4
  <2> HIDE DEF node
  <2> QED
    BY <1>1, <1>2, <1>5, <2>1, <2>2, <2>3, TurnKeeps DEF Trying
<1>8. CASE OverRunBudget
  <2>1. Return("threw", iteration) /\ UNCHANGED <<iteration, pos, nodes, saved>>
    BY <1>8 DEF OverRunBudget, locals, durable
  <2> QED
    BY <2>1, ReturnKeeps DEF IInv, IsState
<1>9. CASE NextNode
  <2>1. /\ at = "settled" /\ at' = "node" /\ pos' = pos + 1
        /\ UNCHANGED <<iteration, skipped, nodes, saved, verdict>>
    BY <1>9 DEF NextNode, durable
  <2>2. SettledIn(Current, iteration) /\ nodes[Current].status = "completed"
    BY <1>2, <2>1 DEF IInv, CurrentOK, SettledIn
  <2>3. ASSUME NEW k \in DOMAIN BodyOrder, k < pos'
        PROVE  /\ SettledIn(BodyOrder[k], iteration)
               /\ BodyOrder[k] \in skipped \/ nodes[BodyOrder[k]].status # "skipped"
    <3>1. CASE k = pos
      BY <2>2, <3>1 DEF Current
    <3>2. CASE k # pos
      <4>1. k < pos
        BY <2>1, <2>3, <3>2, Places DEF IInv, PlaceOK
      <4> QED
        BY <1>1, <4>1 DEF IInv, PassedAreWhole
    <3> QED
      BY <3>1, <3>2
  <2>4. PassedAreWhole'
    BY <2>1, <2>3 DEF PassedAreWhole, SettledIn
  <2> QED
    BY <1>1, <2>1, <2>4 DEF IInv, PlaceOK, CurrentOK, IterationIsWhole, IsState,
         LastIterationIsWhole, Pending, Inside, Trying
<1> QED
  BY <1>6, <1>7, <1>8, <1>9 DEF Settle

\* The end of an iteration, and the death of the engine.
LEMMA ExitKeeps == IInv /\ (ExitHolds \/ ExitUnreadable \/ ExitDoesNotHold \/ Resume) => IInv'
<1> SUFFICES ASSUME IInv, ExitHolds \/ ExitUnreadable \/ ExitDoesNotHold \/ Resume
             PROVE  IInv'
  OBVIOUS
<1>1. CASE ExitHolds
  <2>1. /\ at' = "returned" /\ verdict'.iterations = iteration
        /\ UNCHANGED <<iteration, pos, nodes, saved>>
    BY <1>1 DEF ExitHolds, Return, locals
  <2>2. LastIterationIsWhole'
    BY <1>1, <2>1, WholeAtExit DEF ExitHolds, LastIterationIsWhole, SettledIn
  <2> QED
    BY <2>1, <2>2 DEF IInv, PlaceOK, CurrentOK, PassedAreWhole, IterationIsWhole, IsState,
                      Inside, Trying
<1>2. CASE ExitUnreadable
  <2>1. Return("failed", iteration) /\ UNCHANGED <<iteration, pos, nodes, saved>>
    BY <1>2 DEF ExitUnreadable, ReturnFailed, locals
  <2> QED
    BY <2>1, ReturnKeeps DEF IInv, IsState
<1>3. CASE ExitDoesNotHold
  <2>1. /\ at = "node" /\ at' = "top" /\ iteration' = iteration + 1
        /\ UNCHANGED <<pos, nodes, saved, verdict>>
    BY <1>3 DEF ExitDoesNotHold, AtExit
  <2>2. IterationIsWhole'
    BY <1>3, <2>1, WholeAtExit DEF ExitDoesNotHold, IterationIsWhole, SettledIn, IInv, PlaceOK
  <2> QED
    BY <2>1, <2>2 DEF IInv, PlaceOK, CurrentOK, PassedAreWhole, IsState,
                      LastIterationIsWhole, Pending, Inside, Trying
<1>4. CASE Resume
  <2>1. at' = "top" /\ iteration' = 1 /\ pos' = 1 /\ verdict' = Pending
        /\ nodes' = saved /\ saved' = saved
    BY <1>4 DEF Resume
  <2> QED
    BY <2>1 DEF IInv, PlaceOK, CurrentOK, PassedAreWhole, IterationIsWhole, IsState,
                LastIterationIsWhole, Pending, Inside, Trying
<1> QED
  BY <1>1, <1>2, <1>3, <1>4

\* So does every step.
LEMMA StepKeeps == IInv /\ [Next]_vars => IInv'
<1> SUFFICES ASSUME IInv, [Next]_vars PROVE IInv'
  OBVIOUS
<1>1. CASE UNCHANGED vars
  BY <1>1 DEF vars, locals, durable, IInv, PlaceOK, CurrentOK, PassedAreWhole, SettledIn,
              IterationIsWhole, IsState, LastIterationIsWhole, Current
<1>2. CASE Next
  BY <1>2, TopKeeps, NodeKeeps, AttemptKeeps, SettleKeeps, ExitKeeps
     DEF Next, LoopStep, Attempt, Settle
<1> QED
  BY <1>1, <1>2

-----------------------------------------------------------------------------
(* Theorems.                                                               *)

(* The inductive invariant of a loop. *)
THEOREM LoopIsWhole == Spec => []IInv
BY InitWhole, StepKeeps, PTL DEF Spec

(* A loop that succeeds has a whole last iteration behind it, however often  *)
(* the engine died and whatever was skipped: each body node was skipped or   *)
(* completed in the iteration that the verdict names (runLoop).              *)
THEOREM LastIterationIsAlwaysWhole == Spec => []LastIterationIsWhole
<1>1. IInv => LastIterationIsWhole
  BY DEF IInv
<1> QED
  BY <1>1, LoopIsWhole, PTL

(* An attempt starts only when this iteration has written what it reads: all *)
(* its inputs come before it, none was skipped, so all were completed now.   *)
THEOREM InputsAreAlwaysOfThisIteration == Spec => InputsAreOfThisIteration
<1>1. ASSUME IInv, [Next]_vars, at = "node", at' = "attempt", NEW i \in Inputs[Current]
      PROVE  nodes[i].status = "completed" /\ nodes[i].iteration = iteration
  <2>1. AtNode /\ ~InputSkipped
    BY <1>1 DEF vars, locals, durable, Next, LoopStep, Preempt, StartIteration, Exhausted, SkipNode,
         GateThrows, BeginAttempt, AgentAnswers, CommandEnds, AskHuman, HumanAnswers,
         RouterGivesUp, SettleFailure, SettleSuccess, OverNodeBudget, OverRunBudget,
         NextNode, ExitHolds, ExitUnreadable, ExitDoesNotHold, Resume, Return, ReturnFailed,
         AttemptEnds
  <2>2. PICK k \in DOMAIN BodyOrder : k < pos /\ i = BodyOrder[k]
    <3>1. pos \in DOMAIN BodyOrder
      BY <2>1 DEF AtNode
    <3>2. Inputs[BodyOrder[pos]] \subseteq {BodyOrder[j] : j \in 1 .. pos - 1}
      BY <3>1, LoopAssumption DEF InputsFirst
    <3>3. PICK j \in 1 .. pos - 1 : i = BodyOrder[j]
      BY <1>1, <3>2 DEF Current
    <3> QED
      BY <3>1, <3>3, Places
  <2>3. i \notin skipped
    BY <1>1, <2>1 DEF InputSkipped
  <2> QED
    BY <1>1, <2>2, <2>3 DEF IInv, PassedAreWhole, SettledIn, Inside
<1>2. IInv /\ [Next]_vars =>
        [at = "node" /\ at' = "attempt" =>
           \A i \in Inputs[Current] :
             nodes[i].status = "completed" /\ nodes[i].iteration = iteration]_vars
  BY <1>1
<1> QED
  BY <1>2, LoopIsWhole, PTL DEF Spec, InputsAreOfThisIteration

-----------------------------------------------------------------------------
(* Sessions.                                                               *)

\* Each node that continues a session continues its own.
OwnSessions == \A b \in Body : Session[b] \in {"fresh", "continue"}

Statuses == {"pending", "running", "waiting", "completed", "failed", "skipped"}
Node     == [status : Statuses, iteration : Nat, cost : Nat, session : Nat]
TurnEnd  == [owner : Body, end : {"open", "completed", "failed"}]

SessionTypes ==
  /\ nodes \in [Body -> Node] /\ saved \in [Body -> Node]
  /\ attempt \in [session : Nat, ok : BOOLEAN, cost : Nat, recorded : BOOLEAN]
  /\ turns \in Seq(TurnEnd)

\* A completed node stands for a turn of its own that was completed.
Stands(n, b) ==
  /\ n[b].session <= Len(turns)
  /\ b \in Commands => n[b].session = None
  /\ n[b].status = "completed" /\ n[b].session # None =>
       turns[n[b].session] = [owner |-> b, end |-> "completed"]

\* The turn under way is the node's own; no completed state speaks for it.
TurnInv ==
  /\ at \in Trying =>
       /\ attempt.session <= Len(turns)
       /\ attempt.session # None =>
            Current \notin Commands /\ turns[attempt.session].owner = Current
  /\ at \in {"attempt", "human", "settle"} =>
       nodes[Current].status # "completed" /\ saved[Current].status # "completed"
  /\ at = "human" => Current \notin Commands /\ attempt.session # None
  /\ at = "human" \/ (at = "settle" /\ attempt.ok) =>
       nodes[Current].session = attempt.session

SessionInv == /\ SessionTypes /\ TurnInv
              /\ \A b \in Body : Stands(nodes, b) /\ Stands(saved, b)

\* The session of an attempt is one there is, or the next one.
LEMMA TurnIsNext ==
  ASSUME SessionInv, at \in Trying
  PROVE  /\ Turn \in 0 .. Len(turns) + 1
         /\ Turn # None => Current \notin Commands
         /\ Turn \in 1 .. Len(turns) => turns[Turn].owner = Current
         /\ Current \notin Commands => Turn # None
         /\ attempt.session # None => Turn = attempt.session
<1>1. Len(turns) \in Nat /\ attempt.session \in Nat
  BY DEF SessionInv, SessionTypes
<1> QED
  BY <1>1 DEF SessionInv, TurnInv, Turn, None

\* What a turn changes: its own session.
LEMMA NoteKeeps ==
  ASSUME SessionInv, at \in Trying, Current \in Body, NoteTurn("open")
  PROVE  /\ turns' \in Seq(TurnEnd)
         /\ Len(turns) <= Len(turns') /\ Turn <= Len(turns')
         /\ Turn # None => turns'[Turn].owner = Current
         /\ \A s \in 1 .. Len(turns) : turns[s].owner # Current => turns'[s] = turns[s]
<1>1. turns \in Seq(TurnEnd) /\ Len(turns) \in Nat /\ DOMAIN turns = 1 .. Len(turns)
      /\ \A s \in 1 .. Len(turns) : turns[s] \in TurnEnd
  BY DEF SessionInv, SessionTypes
<1>2. CASE Turn = None
  BY <1>1, <1>2 DEF NoteTurn, None
<1>3. CASE Turn # None
  <2> DEFINE new == [owner |-> Current, end |-> "open"]
             top == IF Turn = Len(turns) + 1 THEN Turn ELSE Len(turns)
  <2>1. Turn \in 1 .. Len(turns) + 1
    BY <1>1, <1>3, TurnIsNext DEF None
  <2>2. 1 .. Len(turns) \cup {Turn} = 1 .. top /\ top \in Nat
        /\ Len(turns) <= top /\ Turn <= top
    BY <1>1, <2>1
  <2>3. new \in TurnEnd /\ new.owner = Current
    BY DEF TurnEnd
  <2> HIDE DEF new, top
  <2>4. turns' = [s \in 1 .. top |-> IF s = Turn THEN new ELSE turns[s]]
    BY <1>3, <2>2 DEF NoteTurn, new
  <2>5. \A s \in 1 .. top : s = Turn \/ s \in 1 .. Len(turns)
    BY <2>1, <2>2 DEF top
  <2>6. \A s \in 1 .. top : (IF s = Turn THEN new ELSE turns[s]) \in TurnEnd
    BY <1>1, <2>3, <2>5
  <2>7. turns' \in Seq(TurnEnd) /\ Len(turns') = top
    BY <2>2, <2>4, <2>6
  <2>8. turns'[Turn] = new
    BY <2>1, <2>2, <2>4
  <2>9. \A s \in 1 .. Len(turns) : s # Turn => turns'[s] = turns[s]
    BY <1>1, <2>2, <2>4
  <2>10. \A s \in 1 .. Len(turns) : turns[s].owner # Current => s # Turn
    BY TurnIsNext
  <2> QED
    BY <2>2, <2>3, <2>7, <2>8, <2>9, <2>10
<1> QED
  BY <1>2, <1>3

\* The end of a turn changes no other session either.
LEMMA EndKeeps ==
  ASSUME SessionInv, at \in Trying, NEW end \in {"completed", "failed"}, EndTurn(end)
  PROVE  /\ turns' \in Seq(TurnEnd) /\ Len(turns') = Len(turns)
         /\ attempt.session # None =>
              turns'[attempt.session] = [owner |-> Current, end |-> end]
         /\ \A s \in 1 .. Len(turns) : turns[s].owner # Current => turns'[s] = turns[s]
<1>1. turns \in Seq(TurnEnd) /\ Len(turns) \in Nat /\ DOMAIN turns = 1 .. Len(turns)
      /\ \A s \in 1 .. Len(turns) : turns[s] \in TurnEnd
  BY DEF SessionInv, SessionTypes
<1>2. CASE attempt.session = None
  BY <1>1, <1>2 DEF EndTurn
<1>3. CASE attempt.session # None
  <2> DEFINE s0 == attempt.session
  <2>1. s0 \in 1 .. Len(turns) /\ turns[s0].owner = Current
    BY <1>1, <1>3 DEF SessionInv, SessionTypes, TurnInv, None
  <2>2. turns' = [turns EXCEPT ![s0].end = end]
    BY <1>3 DEF EndTurn
  <2> HIDE DEF s0
  <2>3. PICK old \in TurnEnd : old = turns[s0]
    BY <1>1, <2>1
  <2>4. turns' = [turns EXCEPT ![s0] = [old EXCEPT !.end = end]]
    BY <2>2, <2>3
  <2>5. [old EXCEPT !.end = end] = [owner |-> Current, end |-> end]
        /\ [old EXCEPT !.end = end] \in TurnEnd
    BY <2>1, <2>3 DEF TurnEnd
  <2> QED
    BY <1>1, <2>1, <2>4, <2>5 DEF s0
<1> QED
  BY <1>2, <1>3

\* A step of the node under way leaves the others standing.
LEMMA OthersStand ==
  ASSUME SessionInv, SessionTypes', Current \in Body, Len(turns) <= Len(turns'),
         \A s \in 1 .. Len(turns) : turns[s].owner # Current => turns'[s] = turns[s],
         \A b \in Body \ {Current} : nodes'[b] = nodes[b] /\ saved'[b] = saved[b],
         Stands(nodes, Current)', Stands(saved, Current)', UNCHANGED pos
  PROVE  \A b \in Body : Stands(nodes, b)' /\ Stands(saved, b)'
<1> TAKE b \in Body
<1>1. CASE b = Current
  BY <1>1 DEF Stands, Current
<1>2. CASE b # Current
  <2>0. turns \in Seq(TurnEnd) /\ turns' \in Seq(TurnEnd)
        /\ nodes[b] \in Node /\ saved[b] \in Node
    BY DEF SessionInv, SessionTypes
  <2>1. /\ nodes[b].session \in Nat /\ saved[b].session \in Nat
        /\ Len(turns) \in Nat /\ Len(turns') \in Nat
    BY <2>0 DEF Node
  <2>2. ASSUME NEW s \in 1 .. Len(turns), turns[s] = [owner |-> b, end |-> "completed"]
        PROVE  turns'[s] = [owner |-> b, end |-> "completed"]
    BY <1>2, <2>2
  <2>3. Stands(nodes, b) /\ Stands(saved, b)
    BY DEF SessionInv
  <2> QED
    BY <1>2, <2>1, <2>2, <2>3 DEF Stands, None
<1> QED
  BY <1>1, <1>2

\* A loop begins with no sessions.
LEMMA InitSession == Init => SessionInv
<1> SUFFICES ASSUME Init PROVE SessionInv
  OBVIOUS
<1>1. Fresh \in Node /\ Fresh.status = "pending" /\ Fresh.session = None
  BY DEF Fresh, Node, Statuses, None
<1>2. nodes \in [Body -> Node] /\ saved \in [Body -> Node]
      /\ \A b \in Body : nodes[b] = Fresh /\ saved[b] = Fresh
  BY <1>1 DEF Init
<1>3. attempt = NoTurn /\ turns = <<>> /\ at = "top"
  BY DEF Init
<1>4. SessionTypes
  BY <1>2, <1>3 DEF SessionTypes, NoTurn, None
<1>5. \A b \in Body : Stands(nodes, b) /\ Stands(saved, b)
  BY <1>1, <1>2, <1>3 DEF Stands, None
<1> QED
  BY <1>3, <1>4, <1>5 DEF SessionInv, TurnInv, Trying

\* Steps between attempts, and the end of the call.
LEMMA BetweenKeeps ==
  ASSUME SessionInv, at' \notin Trying, UNCHANGED <<saved, turns>>,
         nodes' = nodes \/ nodes' = saved,
         attempt' = attempt \/ attempt' = NoTurn
  PROVE  SessionInv'
<1>1. NoTurn \in [session : Nat, ok : BOOLEAN, cost : Nat, recorded : BOOLEAN]
  BY DEF NoTurn, None
<1>2. SessionTypes'
  BY <1>1 DEF SessionInv, SessionTypes
<1>3. \A b \in Body : Stands(nodes, b)' /\ Stands(saved, b)'
  BY DEF SessionInv, Stands
<1> QED
  BY <1>2, <1>3 DEF SessionInv, TurnInv, Trying

\* A record of the node under way is of a node.
LEMMA RecordStays ==
  ASSUME SessionInv, Current \in Body, NEW node \in Node, Becomes(Current, node)
  PROVE  /\ nodes' \in [Body -> Node] /\ saved' \in [Body -> Node]
         /\ nodes'[Current] = node /\ saved'[Current] = node
         /\ \A b \in Body \ {Current} : nodes'[b] = nodes[b] /\ saved'[b] = saved[b]
BY DEF Becomes, SessionInv, SessionTypes

\* The steps that begin an attempt or skip a node keep what is known of the sessions.
LEMMA NodeKeepsSession == IInv /\ SessionInv /\ OwnSessions /\ (SkipNode \/ BeginAttempt) => SessionInv'
<1> SUFFICES ASSUME IInv, SessionInv, OwnSessions, AtNode, SkipNode \/ BeginAttempt
             PROVE  SessionInv'
  BY DEF SkipNode, BeginAttempt
<1>1. at = "node" /\ pos \in DOMAIN BodyOrder /\ Current \in Body
  BY Places DEF AtNode, Current
<1>2. /\ nodes \in [Body -> Node] /\ saved \in [Body -> Node] /\ turns \in Seq(TurnEnd)
      /\ attempt \in [session : Nat, ok : BOOLEAN, cost : Nat, recorded : BOOLEAN]
      /\ \A b \in Body : Stands(nodes, b) /\ Stands(saved, b)
  BY DEF SessionInv, SessionTypes
<1>3. PICK old \in Node : old = nodes[Current]
  BY <1>1, <1>2
<1>4. CASE SkipNode
  <2>1. /\ nodes' = [nodes EXCEPT ![Current] = [old EXCEPT !.status = "skipped"]]
        /\ UNCHANGED <<at, attempt, saved, turns>>
    BY <1>3, <1>4 DEF SkipNode, durable
  <2>2. /\ [old EXCEPT !.status = "skipped"] \in Node
        /\ [old EXCEPT !.status = "skipped"].status = "skipped"
        /\ [old EXCEPT !.status = "skipped"].session = old.session
    BY DEF Node, Statuses
  <2>3. nodes' \in [Body -> Node]
    BY <1>1, <1>2, <2>1, <2>2
  <2>4. \A b \in Body : Stands(nodes, b)' /\ Stands(saved, b)'
    BY <1>1, <1>2, <1>3, <2>1, <2>2 DEF Stands
  <2> QED
    BY <1>1, <1>2, <2>1, <2>3, <2>4 DEF SessionInv, SessionTypes, TurnInv, Trying
<1>5. CASE BeginAttempt
  <2> DEFINE node == [old EXCEPT !.status = "running", !.iteration = iteration]
             s0 == SessionToContinue(Current)
  <2>1. /\ Becomes(Current, node) /\ attempt' = [NoTurn EXCEPT !.session = s0]
        /\ at' = IF SessionMissing(Current) THEN "settle" ELSE "attempt"
        /\ UNCHANGED <<pos, turns>>
    BY <1>3, <1>5 DEF BeginAttempt, locals
  <2>2. iteration \in Nat
    BY DEF IInv, PlaceOK
  <2>3. node \in Node /\ node.status = "running" /\ node.session = old.session
    BY <2>2 DEF Node, Statuses
  <2>4. s0 = None \/ (s0 = old.session /\ old.status = "completed" /\ Current \notin Commands)
    BY <1>1, <1>3 DEF SessionToContinue, SessionOwner, Eligible, OwnSessions
  <2>5. /\ s0 \in Nat /\ s0 <= Len(turns)
        /\ s0 # None => Current \notin Commands /\ turns[s0].owner = Current
    <3>1. CASE s0 = None
      <4>1. Len(turns) \in Nat
        BY <1>2
      <4> QED
        BY <3>1, <4>1 DEF None
    <3>2. CASE s0 # None
      <4>1. s0 = nodes[Current].session /\ nodes[Current].status = "completed"
            /\ s0 \in Nat /\ Current \notin Commands
        BY <1>3, <2>4, <3>2 DEF Node
      <4>2. s0 <= Len(turns) /\ turns[s0] = [owner |-> Current, end |-> "completed"]
        BY <1>1, <1>2, <3>2, <4>1 DEF Stands
      <4> QED
        BY <4>1, <4>2
    <3> QED
      BY <3>1, <3>2
  <2> HIDE DEF node, s0
  <2>6. /\ nodes' \in [Body -> Node] /\ saved' \in [Body -> Node]
        /\ nodes'[Current] = node /\ saved'[Current] = node
        /\ \A b \in Body \ {Current} : nodes'[b] = nodes[b] /\ saved'[b] = saved[b]
    BY <1>1, <2>1, <2>3, RecordStays
  <2>7. /\ attempt' \in [session : Nat, ok : BOOLEAN, cost : Nat, recorded : BOOLEAN]
        /\ attempt'.session = s0 /\ ~attempt'.ok
    BY <2>1, <2>5 DEF NoTurn
  <2>8. SessionTypes'
    BY <1>2, <2>1, <2>6, <2>7 DEF SessionTypes
  <2>9. Stands(nodes, Current)' /\ Stands(saved, Current)' /\ Current' = Current
    <3>1. Current' = Current
      BY <2>1 DEF Current
    <3> QED
      BY <1>1, <1>2, <1>3, <2>1, <2>3, <2>6, <3>1 DEF Stands
  <2>10. \A b \in Body : Stands(nodes, b)' /\ Stands(saved, b)'
    <3>1. Len(turns) \in Nat
      BY <1>2
    <3> QED
      BY <1>1, <2>1, <2>6, <2>8, <2>9, <3>1, OthersStand
  <2>11. TurnInv'
    BY <2>1, <2>3, <2>5, <2>6, <2>7, <2>9 DEF TurnInv
  <2> QED
    BY <2>8, <2>10, <2>11 DEF SessionInv
<1> QED
  BY <1>4, <1>5

\* The attempt, up to its outcome.
LEMMA AttemptKeepsSession == IInv /\ SessionInv /\ Attempt => SessionInv'
<1> SUFFICES ASSUME IInv, SessionInv, Attempt PROVE SessionInv'
  OBVIOUS
<1>1. at \in {"attempt", "human"} /\ at \in Trying
  BY DEF Attempt, AgentAnswers, CommandEnds, AskHuman, HumanAnswers, RouterGivesUp, Trying
<1>2. pos \in DOMAIN BodyOrder /\ Current \in Body
  BY <1>1, Places DEF IInv, PlaceOK, Current
<1>3. /\ nodes \in [Body -> Node] /\ saved \in [Body -> Node] /\ turns \in Seq(TurnEnd)
      /\ \A b \in Body : Stands(nodes, b) /\ Stands(saved, b)
      /\ attempt \in [session : Nat, ok : BOOLEAN, cost : Nat, recorded : BOOLEAN]
      /\ nodes[Current].status # "completed" /\ saved[Current].status # "completed"
      /\ attempt.session <= Len(turns) /\ Len(turns) \in Nat
  BY <1>1 DEF SessionInv, SessionTypes, TurnInv
<1>4. PICK old \in Node, copy \in Node : old = nodes[Current] /\ copy = saved[Current]
  BY <1>2, <1>3
<1>5. /\ NoteTurn("open") /\ UNCHANGED pos
      /\ at' \in {"human", "settle"} /\ (at' = "human" => Current \notin Commands)
  BY DEF Attempt, AgentAnswers, CommandEnds, AskHuman, HumanAnswers, RouterGivesUp, AttemptEnds,
         locals
<1>c. Current' = Current
  BY <1>5 DEF Current
<1>6. /\ turns' \in Seq(TurnEnd)
      /\ Len(turns) <= Len(turns') /\ Turn <= Len(turns')
      /\ Turn # None => turns'[Turn].owner = Current
      /\ \A s \in 1 .. Len(turns) : turns[s].owner # Current => turns'[s] = turns[s]
  BY <1>1, <1>2, <1>5, NoteKeeps
<1>7. /\ Turn \in Nat /\ (Turn # None => Current \notin Commands)
      /\ Current \notin Commands => Turn # None
  BY <1>1, <1>3, TurnIsNext
<1>8. /\ attempt' \in [session : Nat, ok : BOOLEAN, cost : Nat, recorded : BOOLEAN]
      /\ attempt'.session = Turn
  <2>1. CASE AskHuman
    BY <1>3, <1>7, <2>1 DEF AskHuman
  <2>2. CASE ~AskHuman
    <3>1. PICK ok \in BOOLEAN, owned \in BOOLEAN : AttemptEnds(ok, owned)
      <4>1. ASSUME NEW exit \in ExitCodes, CommandEnds(exit)
            PROVE  \E ok \in BOOLEAN : AttemptEnds(ok, FALSE)
        <5>1. AttemptEnds(exit = 0 /\ Validated(dir'), FALSE)
              /\ (exit = 0 /\ Validated(dir')) \in BOOLEAN
          BY <4>1 DEF CommandEnds
        <5> QED
          BY <5>1
      <4> QED
        BY <2>2, <4>1 DEF Attempt, AgentAnswers, HumanAnswers, RouterGivesUp
    <3>2. PICK cost \in {0} \cup Costs :
            attempt' = [session |-> Turn, ok |-> ok, cost |-> cost, recorded |-> owned]
      BY <3>1 DEF AttemptEnds
    <3> QED
      BY <1>7, <3>2, LoopAssumption
  <2> QED
    BY <2>1, <2>2
<1>9. /\ nodes' \in [Body -> Node] /\ saved' \in [Body -> Node]
      /\ \A b \in Body \ {Current} : nodes'[b] = nodes[b] /\ saved'[b] = saved[b]
      /\ nodes'[Current].status # "completed" /\ saved'[Current].status # "completed"
      /\ nodes'[Current].session \in {old.session, Turn}
      /\ saved'[Current].session \in {old.session, copy.session, Turn}
      /\ at' = "human" \/ attempt'.ok => nodes'[Current].session = Turn \/ Current \in Commands
      /\ Current \in Commands =>
           nodes'[Current].session = old.session /\ saved'[Current].session \in {old.session, copy.session}
  <2>1. ASSUME NEW ok \in BOOLEAN, AgentAnswers(ok)
        PROVE  /\ nodes' = [nodes EXCEPT ![Current] = [old EXCEPT !.session = Turn]]
               /\ saved' = [saved EXCEPT ![Current] = [copy EXCEPT !.session = Turn]]
               /\ Current \notin Commands
    BY <1>4, <2>1 DEF AgentAnswers, WithSession
  <2>2. ASSUME NEW exit \in ExitCodes, CommandEnds(exit)
        PROVE  UNCHANGED <<nodes, saved>> /\ Current \in Commands
    BY <2>2 DEF CommandEnds
  <2>3. CASE AskHuman
    <3>1. /\ Becomes(Current, [old EXCEPT !.status = "waiting", !.session = Turn])
          /\ Current \notin Commands
      BY <1>4, <2>3 DEF AskHuman
    <3>2. \A n \in Node :
            /\ [n EXCEPT !.status = "waiting", !.session = Turn] \in Node
            /\ [n EXCEPT !.status = "waiting", !.session = Turn].session = Turn
            /\ [n EXCEPT !.status = "waiting", !.session = Turn].status = "waiting"
      BY <1>7 DEF Node, Statuses
    <3>3. PICK node \in Node :
            /\ node = [old EXCEPT !.status = "waiting", !.session = Turn]
            /\ node.session = Turn /\ node.status = "waiting"
      BY <3>2
    <3>4. /\ nodes' \in [Body -> Node] /\ saved' \in [Body -> Node]
          /\ nodes'[Current] = node /\ saved'[Current] = node
          /\ \A b \in Body \ {Current} : nodes'[b] = nodes[b] /\ saved'[b] = saved[b]
      BY <1>2, <3>1, <3>3, RecordStays
    <3> QED
      BY <3>1, <3>3, <3>4
  <2>4. CASE HumanAnswers
    <3>1. UNCHANGED <<nodes, saved>> /\ at = "human"
      BY <2>4 DEF HumanAnswers
    <3>2. old.session = attempt.session /\ attempt.session # None /\ Current \notin Commands
      BY <1>4, <3>1 DEF SessionInv, TurnInv
    <3>3. Turn = attempt.session
      BY <1>1, <3>2, TurnIsNext
    <3> QED
      BY <1>3, <1>4, <3>1, <3>2, <3>3
  <2>5. CASE RouterGivesUp
    <3>1. /\ Becomes(Current, [old EXCEPT !.status = "failed"]) /\ AttemptEnds(FALSE, TRUE)
          /\ Current \notin Commands
      BY <1>4, <2>5 DEF RouterGivesUp, SessionInv, TurnInv
    <3>2. [old EXCEPT !.status = "failed"] \in Node
      BY DEF Node, Statuses
    <3>3. ~attempt'.ok /\ at' = "settle"
      BY <3>1 DEF AttemptEnds
    <3> QED
      BY <1>2, <3>1, <3>2, <3>3, RecordStays DEF Node
  <2>6. ASSUME NEW ok \in BOOLEAN, AgentAnswers(ok)
        PROVE  /\ nodes' \in [Body -> Node] /\ saved' \in [Body -> Node]
               /\ \A b \in Body \ {Current} : nodes'[b] = nodes[b] /\ saved'[b] = saved[b]
               /\ nodes'[Current].status = old.status /\ saved'[Current].status = copy.status
               /\ nodes'[Current].session = Turn /\ saved'[Current].session = Turn
               /\ Current \notin Commands
    <3>1. \A n \in Node : /\ [n EXCEPT !.session = Turn] \in Node
                          /\ [n EXCEPT !.session = Turn].session = Turn
                          /\ [n EXCEPT !.session = Turn].status = n.status
      BY <1>7 DEF Node
    <3>2. PICK new1 \in Node, new2 \in Node :
            /\ new1 = [old EXCEPT !.session = Turn] /\ new2 = [copy EXCEPT !.session = Turn]
            /\ new1.session = Turn /\ new2.session = Turn
            /\ new1.status = old.status /\ new2.status = copy.status
      BY <3>1
    <3>3. nodes' = [nodes EXCEPT ![Current] = new1] /\ saved' = [saved EXCEPT ![Current] = new2]
          /\ Current \notin Commands
      BY <2>1, <2>6, <3>2
    <3> QED
      BY <1>2, <1>3, <3>2, <3>3
  <2> QED
    BY <1>3, <1>4, <2>2, <2>3, <2>4, <2>5, <2>6 DEF Attempt
<1>10. SessionTypes'
  BY <1>6, <1>8, <1>9 DEF SessionTypes
<1>11. Stands(nodes, Current)' /\ Stands(saved, Current)'
  <2>1. Stands(nodes, Current) /\ Stands(saved, Current)
    BY <1>2, <1>3
  <2>2. /\ old.session <= Len(turns) /\ copy.session <= Len(turns)
        /\ Current \in Commands => old.session = None /\ copy.session = None
        /\ old.session \in Nat /\ copy.session \in Nat
    BY <1>4, <2>1 DEF Stands, Node
  <2>3. Len(turns') \in Nat
    BY <1>6
  <2> QED
    BY <1>c, <1>3, <1>6, <1>7, <1>9, <2>2, <2>3 DEF Stands
<1>12. \A b \in Body : Stands(nodes, b)' /\ Stands(saved, b)'
  BY <1>2, <1>5, <1>6, <1>9, <1>10, <1>11, OthersStand
<1>13. TurnInv'
  <2>1. Current \in Commands => nodes'[Current].session = None /\ Turn = None
    BY <1>c, <1>7, <1>11 DEF Stands
  <2> QED
    BY <1>c, <1>5, <1>6, <1>7, <1>8, <1>9, <2>1 DEF TurnInv, Trying
<1> QED
  BY <1>10, <1>12, <1>13 DEF SessionInv

\* The outcome of the attempt.
LEMMA OutcomeKeepsSession ==
  IInv /\ SessionInv /\ (SettleFailure \/ SettleSuccess \/ OverNodeBudget) => SessionInv'
<1> SUFFICES ASSUME IInv, SessionInv, SettleFailure \/ SettleSuccess \/ OverNodeBudget
             PROVE  SessionInv'
  OBVIOUS
<1>1. at \in {"settle", "settled"} /\ at \in Trying /\ UNCHANGED <<pos, attempt>>
  BY DEF SettleFailure, SettleSuccess, OverNodeBudget, Trying, locals
<1>2. pos \in DOMAIN BodyOrder /\ Current \in Body /\ Current' = Current
  BY <1>1, Places DEF IInv, PlaceOK, Current
<1>3. /\ nodes \in [Body -> Node] /\ saved \in [Body -> Node] /\ turns \in Seq(TurnEnd)
      /\ \A b \in Body : Stands(nodes, b) /\ Stands(saved, b)
      /\ attempt \in [session : Nat, ok : BOOLEAN, cost : Nat, recorded : BOOLEAN]
      /\ attempt.session <= Len(turns) /\ Len(turns) \in Nat
      /\ attempt.session # None =>
           Current \notin Commands /\ turns[attempt.session].owner = Current
  BY <1>1 DEF SessionInv, SessionTypes, TurnInv
<1>4. PICK old \in Node : old = nodes[Current]
  BY <1>2, <1>3
<1>5. PICK end \in {"completed", "failed"} : EndTurn(end) /\ (end = "failed" <=> ~SettleSuccess)
  BY DEF SettleFailure, SettleSuccess, OverNodeBudget
<1>6. /\ turns' \in Seq(TurnEnd) /\ Len(turns') = Len(turns)
      /\ attempt.session # None =>
           turns'[attempt.session] = [owner |-> Current, end |-> end]
      /\ \A s \in 1 .. Len(turns) : turns[s].owner # Current => turns'[s] = turns[s]
  BY <1>1, <1>5, EndKeeps
<1>7. /\ nodes' \in [Body -> Node] /\ saved' \in [Body -> Node]
      /\ \A b \in Body \ {Current} : nodes'[b] = nodes[b] /\ saved'[b] = saved[b]
      /\ nodes'[Current].session = old.session
      /\ saved'[Current].session \in {old.session, saved[Current].session}
      /\ nodes'[Current].status = "completed" \/ saved'[Current].status = "completed" =>
           SettleSuccess /\ saved'[Current] = nodes'[Current]
  <2>1. CASE SettleFailure /\ attempt.recorded
    <3>1. UNCHANGED <<nodes, saved>> /\ at = "settle"
      BY <2>1 DEF SettleFailure
    <3> QED
      BY <1>3, <1>4, <3>1 DEF SessionInv, TurnInv
  <2>2. CASE OverNodeBudget \/ (SettleFailure /\ ~attempt.recorded)
    <3>1. Becomes(Current, [old EXCEPT !.status = "failed"])
      BY <1>4, <2>2 DEF SettleFailure, OverNodeBudget
    <3>2. \A n \in Node : /\ [n EXCEPT !.status = "failed"] \in Node
                          /\ [n EXCEPT !.status = "failed"].status = "failed"
                          /\ [n EXCEPT !.status = "failed"].session = n.session
      BY DEF Node, Statuses
    <3>3. PICK node \in Node : /\ node = [old EXCEPT !.status = "failed"]
                               /\ node.status = "failed" /\ node.session = old.session
      BY <3>2
    <3> QED
      BY <1>2, <3>1, <3>3, RecordStays
  <2>3. CASE SettleSuccess
    <3>1. PICK cost \in Nat : Becomes(Current, [old EXCEPT !.status = "completed", !.cost = cost])
      <4>1. Becomes(Current, [old EXCEPT !.status = "completed",
                     !.cost = IF Current \in Commands THEN old.cost ELSE attempt.cost])
        BY <1>4, <2>3 DEF SettleSuccess
      <4>2. (IF Current \in Commands THEN old.cost ELSE attempt.cost) \in Nat
        BY <1>3 DEF Node
      <4> QED
        BY <4>1, <4>2
    <3>2. \A n \in Node :
            /\ [n EXCEPT !.status = "completed", !.cost = cost] \in Node
            /\ [n EXCEPT !.status = "completed", !.cost = cost].session = n.session
      BY DEF Node, Statuses
    <3>3. PICK node \in Node : /\ node = [old EXCEPT !.status = "completed", !.cost = cost]
                               /\ node.session = old.session
      BY <3>2
    <3> QED
      BY <1>2, <2>3, <3>1, <3>3, RecordStays
  <2> QED
    BY <2>1, <2>2, <2>3
<1>8. SessionTypes'
  BY <1>1, <1>3, <1>6, <1>7 DEF SessionTypes
<1>9. SettleSuccess => end = "completed" /\ old.session = attempt.session
  <2> SUFFICES ASSUME SettleSuccess PROVE old.session = attempt.session
    BY <1>5
  <2> QED
    BY <1>4 DEF SettleSuccess, SessionInv, TurnInv
<1>10. Stands(nodes, Current)' /\ Stands(saved, Current)'
  <2>1. Stands(nodes, Current) /\ Stands(saved, Current)
    BY <1>2, <1>3
  <2> QED
    BY <1>2, <1>4, <1>6, <1>7, <1>9, <2>1 DEF Stands
<1>11. \A b \in Body : Stands(nodes, b)' /\ Stands(saved, b)'
  <2>1. Len(turns) <= Len(turns')
    BY <1>3, <1>6
  <2> QED
    BY <1>1, <1>2, <1>6, <1>7, <1>8, <1>10, <2>1, OthersStand
<1>12. at' \in {"returned", "settled"}
  BY DEF SettleFailure, SettleSuccess, OverNodeBudget, ReturnFailed, Return
<1>13. TurnInv'
  BY <1>1, <1>2, <1>3, <1>6, <1>12 DEF TurnInv, Trying
<1> QED
  BY <1>8, <1>11, <1>13 DEF SessionInv

\* So does every step.
LEMMA StepKeepsSession == IInv /\ SessionInv /\ OwnSessions /\ [Next]_vars => SessionInv'
<1> SUFFICES ASSUME IInv, SessionInv, OwnSessions, [Next]_vars PROVE SessionInv'
  OBVIOUS
<1>1. CASE UNCHANGED vars
  BY <1>1 DEF vars, locals, durable, SessionInv, SessionTypes, TurnInv, Stands, Current
<1>2. CASE Preempt \/ StartIteration \/ Exhausted \/ GateThrows \/ OverRunBudget \/ NextNode
           \/ ExitHolds \/ ExitUnreadable \/ ExitDoesNotHold
  <2>1. at' \in {"top", "node", "returned"} /\ UNCHANGED <<nodes, saved, turns>>
    BY <1>2 DEF Preempt, StartIteration, Exhausted, GateThrows, OverRunBudget, NextNode,
                ExitHolds, ExitUnreadable, ExitDoesNotHold, Return, ReturnFailed, durable
  <2>2. attempt' = attempt \/ attempt' = NoTurn
    BY <1>2 DEF Preempt, StartIteration, Exhausted, GateThrows, OverRunBudget, NextNode,
                ExitHolds, ExitUnreadable, ExitDoesNotHold
  <2> QED
    BY <2>1, <2>2, BetweenKeeps DEF Trying
<1>3. CASE Resume
  <2>1. at' = "top" /\ attempt' = NoTurn /\ nodes' = saved /\ UNCHANGED <<saved, turns>>
    BY <1>3 DEF Resume
  <2> QED
    BY <2>1, BetweenKeeps DEF Trying
<1> QED
  BY <1>1, <1>2, <1>3, NodeKeepsSession, AttemptKeepsSession, OutcomeKeepsSession
     DEF Next, LoopStep, Attempt

\* FR-E100, for any loop whose nodes continue their own sessions: an attempt
\* never re-enters a conversation whose last turn failed or was cut short,
\* however often the engine died (session.ts, eligibleSession).
THEOREM FailedSessionsStayAlone == OwnSessions => (Spec => FailedSessionIsLeftAlone)
<1> SUFFICES ASSUME OwnSessions PROVE Spec => FailedSessionIsLeftAlone
  OBVIOUS
<1>1. IInv /\ SessionInv /\ [Next]_vars => SessionInv'
  BY StepKeepsSession
<1>2. ASSUME IInv, SessionInv, [Next]_vars, at = "node", at' = "attempt",
             attempt'.session # None
      PROVE  turns[attempt'.session].end = "completed"
  <2>1. BeginAttempt
    BY <1>2 DEF vars, Next, LoopStep, Preempt, StartIteration, Exhausted, SkipNode,
         GateThrows, AgentAnswers, CommandEnds, AskHuman, HumanAnswers,
         RouterGivesUp, SettleFailure, SettleSuccess, OverNodeBudget, OverRunBudget,
         NextNode, ExitHolds, ExitUnreadable, ExitDoesNotHold, Resume, Return, ReturnFailed,
         AttemptEnds
  <2>2. Current \in Body
    BY <2>1, Places DEF BeginAttempt, AtNode, Current
  <2>3. attempt'.session = SessionToContinue(Current)
    BY <2>1 DEF BeginAttempt, NoTurn
  <2>4. attempt'.session = nodes[Current].session /\ nodes[Current].status = "completed"
    BY <1>2, <2>2, <2>3 DEF OwnSessions, SessionToContinue, SessionOwner, Eligible
  <2>5. turns[nodes[Current].session] = [owner |-> Current, end |-> "completed"]
    BY <1>2, <2>2, <2>4 DEF SessionInv, Stands
  <2> QED
    BY <2>4, <2>5
<1>3. IInv /\ SessionInv /\ [Next]_vars =>
        [at = "node" /\ at' = "attempt" /\ attempt'.session # None =>
           turns[attempt'.session].end = "completed"]_vars
  BY <1>2
<1> QED
  BY <1>1, <1>3, InitSession, LoopIsWhole, PTL DEF Spec, FailedSessionIsLeftAlone

-----------------------------------------------------------------------------
(* The exit value.                                                         *)

\* One line gives the field: the two readers of a frontmatter agree on it.
LEMMA OneLineOneValue ==
  ASSUME NEW front, front \in Seq({front[i] : i \in DOMAIN front}), NEW k,
         Cardinality(LinesOf(front, k)) = 1, FirstValue(front, k) # NoValue
  PROVE  \E i \in LinesOf(front, k) :
            /\ (CHOOSE j \in LinesOf(front, k) : TRUE) = i
            /\ FirstValue(front, k) = ValueAt(front, i)
<1>1. DOMAIN front = 1 .. Len(front) /\ Len(front) \in Nat
  OBVIOUS
<1>2. IsFiniteSet(LinesOf(front, k))
  <2>1. IsFiniteSet(1 .. Len(front))
    BY <1>1, FS_Interval
  <2>2. LinesOf(front, k) \subseteq 1 .. Len(front)
    BY <1>1 DEF LinesOf
  <2> QED
    BY <2>1, <2>2, FS_Subset
<1>3. PICK i : LinesOf(front, k) = {i}
  BY <1>2, FS_Singleton
<1>4. i \in Nat
  BY <1>1, <1>3 DEF LinesOf
<1> DEFINE with == {j \in LinesOf(front, k) : ValueAt(front, j) # Blank}
<1>5. FirstValue(front, k) =
        IF with = {} THEN NoValue
        ELSE ValueAt(front, CHOOSE j \in with : \A n \in with : j <= n)
  BY DEF FirstValue
<1>6. with # {} /\ with \subseteq {i}
  BY <1>3, <1>5
<1>7. with = {i}
  BY <1>6
<1> HIDE DEF with
<1>8. (CHOOSE j \in with : \A n \in with : j <= n) = i
  BY <1>4, <1>7
<1> QED
  BY <1>3, <1>5, <1>6, <1>8

\* One file gives the field: what the loop reads as its exit value is what the
\* rules on the field have seen.
LEMMA ReadersAgree ==
  ASSUME IsDirectory(File, dir), AllPassed(Rules, dir), Cardinality(Giving) = 1,
         ExitValue \in ConditionValues(dir, ConditionField)
  PROVE  RulesSeeExit
<1>1. IsFiniteSet(Giving)
  BY ExitAssumption, FS_Subset DEF Giving
<1>2. PICK f : Giving = {f}
  BY <1>1, FS_Singleton
<1>3. /\ f \in File /\ Exists(dir, f) /\ dir[f].front # NoFront
      /\ LinesOf(dir[f].front, ConditionField) # {}
  BY <1>2 DEF Giving
<1> SUFFICES ASSUME NEW rule \in Rules, rule.type = "frontmatter_field",
                    rule.field = ConditionField
             PROVE  LET front == RuleFront(dir[rule.path])
                    IN  front # NoFront
                        /\ Unquoted(FirstValue(front, ConditionField)) = ExitValue
  BY DEF RulesSeeExit
<1>4. /\ rule.path \in File /\ Exists(dir, rule.path)
      /\ RuleFront(dir[rule.path]) # NoFront
      /\ FirstValue(RuleFront(dir[rule.path]), ConditionField) # NoValue
  BY ExitAssumption DEF AllPassed, Passes, FieldIsAllowed
<1>5. RuleFront(dir[rule.path]) = dir[rule.path].front
  BY <1>4 DEF RuleFront
<1>6. LinesOf(dir[rule.path].front, ConditionField) # {}
  BY <1>4, <1>5 DEF FirstValue
<1>7. rule.path = f
  BY <1>2, <1>4, <1>5, <1>6 DEF Giving
<1>8. FirstValue(dir[f].front, ConditionField) # NoValue
  BY <1>4, <1>5, <1>7
<1>9. Unquoted(FirstValue(dir[f].front, ConditionField)) = ExitValue
  <2>1. DOMAIN dir = File
    BY DEF IsDirectory
  <2>2. CASE f = "condition.json"
    <3>1. Decisive(dir, ConditionField) = {}
      BY <1>2, <2>1, <2>2 DEF Decisive, Giving
    <3>2. ExitValue = FromJson(dir, ConditionField)
      BY <3>1 DEF ConditionValues
    <3>3. FromJson(dir, ConditionField) = FirstValue(dir[f].front, ConditionField)
      BY <1>3, <2>2 DEF FromJson
    <3> QED
      BY <3>2, <3>3, ExitAssumption
  <2>3. CASE f # "condition.json"
    <3>1. Decisive(dir, ConditionField) = {f}
      BY <1>2, <1>3, <2>1, <2>3 DEF Decisive, Giving
    <3>2. FromJson(dir, ConditionField) = NoValue
      <4>1. CASE ~Exists(dir, "condition.json") \/ dir["condition.json"].front = NoFront
        BY <4>1 DEF FromJson
      <4>2. CASE ~(~Exists(dir, "condition.json") \/ dir["condition.json"].front = NoFront)
        <5>1. LinesOf(dir["condition.json"].front, ConditionField) = {}
          BY <1>2, <2>3, <4>2, ExitAssumption DEF Giving
        <5>2. FirstValue(dir["condition.json"].front, ConditionField) = NoValue
          BY <5>1 DEF FirstValue
        <5> QED
          BY <4>2, <5>2 DEF FromJson
      <4> QED
        BY <4>1, <4>2
    <3>3. ExitValue = Extracted(dir[f], ConditionField)
      BY <3>1, <3>2, ExitAssumption DEF ConditionValues
    <3>4. Cardinality(LinesOf(dir[f].front, ConditionField)) = 1
          /\ ExitValue = Unquoted(ValueAt(dir[f].front,
                             CHOOSE i \in LinesOf(dir[f].front, ConditionField) : TRUE))
      BY <3>3, ExitAssumption DEF Extracted
    <3>5. dir[f].front \in Seq({dir[f].front[i] : i \in DOMAIN dir[f].front})
      BY <1>3 DEF IsDirectory
    <3> QED
      BY <1>8, <3>4, <3>5, OneLineOneValue
  <2> QED
    BY <2>2, <2>3
<1> QED
  BY <1>4, <1>5, <1>7, <1>9

-----------------------------------------------------------------------------
(* The rules hold of what a command has left, until it runs again.         *)

CheckedInv ==
  /\ IsDirectory(File, dir)
  /\ at = "human" => Current \notin Commands
  /\ ConditionNode \in Commands =>
       /\ at \in Inside => \A k \in DOMAIN BodyOrder :
            k < pos /\ BodyOrder[k] = ConditionNode
              /\ nodes[ConditionNode].status = "completed" => AllPassed(Rules, dir)
       /\ (at = "settle" /\ attempt.ok) \/ at = "settled" =>
            (Current = ConditionNode => AllPassed(Rules, dir))
  /\ ExitWasValidated

\* A loop begins with nothing checked.
LEMMA InitChecked == Init => CheckedInv
<1> SUFFICES ASSUME Init PROVE CheckedInv
  OBVIOUS
<1>1. IsDirectory(File, dir)
  BY DEF Init, IsDirectory, Exists
<1>2. ExitWasValidated
  BY DEF Init, ExitWasValidated, ExitOfThisIteration, Pending
<1>3. \A k \in DOMAIN BodyOrder : ~ k < pos
  BY Places DEF Init
<1> QED
  BY <1>1, <1>2, <1>3 DEF Init, CheckedInv

\* What an attempt leaves is a directory; only the condition node changes it.
LEMMA WritesDirectory ==
  ASSUME CheckedInv, dir' \in Writes
  PROVE  IsDirectory(File, dir)' /\ (Current # ConditionNode => dir' = dir)
<1>1. \A d \in {dir} \cup Outputs : IsDirectory(File, d)
  BY ExitAssumption DEF CheckedInv
<1>2. dir' \in {dir} \cup Outputs
  BY DEF Writes
<1>3. PICK d \in {dir} \cup Outputs : d = dir'
  BY <1>2
<1>4. IsDirectory(File, d)
  BY <1>1
<1>5. IsDirectory(File, dir)' <=> IsDirectory(File, dir')
  BY DEF IsDirectory, Exists
<1> QED
  BY <1>3, <1>4, <1>5 DEF Writes

\* A call that returns otherwise than by its exit value has nothing to show.
LEMMA ReturnKeepsChecked ==
  ASSUME CheckedInv, at' = "returned", verdict'.reason # "exit_value", UNCHANGED dir
  PROVE  CheckedInv'
<1>1. IsDirectory(File, dir)'
  BY DEF CheckedInv, IsDirectory, Exists
<1>2. ExitWasValidated'
  BY DEF ExitWasValidated, ExitOfThisIteration
<1> QED
  BY <1>1, <1>2 DEF CheckedInv, Inside, Trying

\* Inside an iteration: what the nodes passed have left stays as it is checked.
LEMMA InsideKeepsChecked ==
  ASSUME CheckedInv, IsDirectory(File, dir)', at' \in Inside, verdict' = Pending,
         at' = "human" => (Current \notin Commands)',
         ConditionNode \in Commands =>
           /\ \A k \in DOMAIN BodyOrder :
                k < pos' /\ BodyOrder[k] = ConditionNode
                  /\ nodes'[ConditionNode].status = "completed" => AllPassed(Rules, dir')
           /\ (at' = "settle" /\ attempt'.ok) \/ at' = "settled" =>
                (BodyOrder[pos'] = ConditionNode => AllPassed(Rules, dir'))
  PROVE  CheckedInv'
<1>1. ExitWasValidated'
  BY DEF ExitWasValidated, ExitOfThisIteration, Pending
<1>2. AllPassed(Rules, dir)' <=> AllPassed(Rules, dir')
  BY DEF AllPassed, Passes, Exists, FieldIsAllowed, ArtifactPasses, FieldsAreFilled, HasSection
<1>3. (Current = ConditionNode)' <=> BodyOrder[pos'] = ConditionNode
  BY DEF Current
<1> QED
  BY <1>1, <1>2, <1>3 DEF CheckedInv

\* Of the nodes passed, none is the one under way.
LEMMA PassedAreOthers ==
  ASSUME pos \in DOMAIN BodyOrder, NEW k \in DOMAIN BodyOrder, k < pos
  PROVE  BodyOrder[k] # Current /\ BodyOrder[k] \in Body
BY Places, OrderAssumption DEF Current

\* A command that runs again is checked again.
LEMMA StepKeepsChecked == IInv /\ CheckedInv /\ [Next]_vars => CheckedInv'
<1> SUFFICES ASSUME IInv, CheckedInv, [Next]_vars PROVE CheckedInv'
  OBVIOUS
<1>0. /\ at \notin {"returned"} => verdict = Pending
      /\ IsState(nodes) /\ pos \in Nat /\ IsDirectory(File, dir)
      /\ at \in Trying => pos \in DOMAIN BodyOrder /\ Current \in Body
  BY Places DEF IInv, PlaceOK, CheckedInv, Current
<1>d. dir' = dir => IsDirectory(File, dir)'
  BY <1>0 DEF IsDirectory, Exists
<1>p. /\ ConditionNode \in Commands /\ at \in Inside => \A k \in DOMAIN BodyOrder :
            k < pos /\ BodyOrder[k] = ConditionNode
              /\ nodes[ConditionNode].status = "completed" => AllPassed(Rules, dir)
      /\ ConditionNode \in Commands /\ at = "settled" =>
            (Current = ConditionNode => AllPassed(Rules, dir))
      /\ ConditionNode \in Commands /\ at = "settle" /\ attempt.ok =>
            (Current = ConditionNode => AllPassed(Rules, dir))
  BY DEF CheckedInv
<1>1. CASE UNCHANGED vars
  BY <1>1 DEF vars, locals, durable, CheckedInv, IsDirectory, Exists, Current, AllPassed,
     Passes, FieldIsAllowed, ArtifactPasses, FieldsAreFilled, HasSection,
     ExitWasValidated, ExitOfThisIteration, Giving, RulesSeeExit
<1>2. CASE Preempt \/ Exhausted \/ GateThrows \/ SettleFailure \/ OverNodeBudget \/ OverRunBudget
           \/ ExitUnreadable
  BY <1>2, ReturnKeepsChecked DEF Preempt, Exhausted, GateThrows, SettleFailure, OverNodeBudget,
     OverRunBudget, ExitUnreadable, Return, ReturnFailed, durable
<1>3. CASE StartIteration
  <2>1. at = "top" /\ at' = "node" /\ pos' = 1 /\ dir' = dir /\ verdict' = verdict
    BY <1>3 DEF StartIteration
  <2>2. \A k \in DOMAIN BodyOrder : ~ k < pos'
    BY <2>1, Places
  <2> QED
    BY <1>0, <1>d, <2>1, <2>2, InsideKeepsChecked DEF Inside
<1>4. CASE SkipNode
  <2>1. /\ at = "node" /\ pos \in DOMAIN BodyOrder /\ Current \in Body
        /\ at' = at /\ pos' = pos + 1 /\ dir' = dir /\ verdict' = verdict
        /\ nodes' = [nodes EXCEPT ![Current].status = "skipped"]
    BY <1>4, Places DEF SkipNode, AtNode, durable, Current
  <2> DEFINE node == [nodes[Current] EXCEPT !.status = "skipped"]
  <2>a. nodes' = [nodes EXCEPT ![Current] = node]
    BY <2>1
  <2>b. node.status = "skipped"
    BY <1>0, <2>1 DEF IsState
  <2> HIDE DEF node
  <2>2. nodes'[Current].status # "completed" /\ \A b \in Body \ {Current} : nodes'[b] = nodes[b]
    BY <1>0, <2>1, <2>a, <2>b DEF IsState
  <2>3. ASSUME ConditionNode \in Commands, NEW k \in DOMAIN BodyOrder, k < pos',
               BodyOrder[k] = ConditionNode, nodes'[ConditionNode].status = "completed"
        PROVE  AllPassed(Rules, dir')
    <3>1. k # pos
      BY <2>2, <2>3 DEF Current
    <3>2. k < pos
      BY <2>1, <2>3, <3>1, Places
    <3>3. nodes'[ConditionNode] = nodes[ConditionNode]
      BY <2>1, <2>2, <2>3, <3>2, PassedAreOthers
    <3> QED
      BY <1>p, <2>1, <2>3, <3>2, <3>3 DEF Inside
  <2> QED
    BY <1>0, <1>d, <2>1, <2>3, InsideKeepsChecked DEF Inside
<1>5. CASE BeginAttempt \/ SettleSuccess
  <2>1. /\ pos \in DOMAIN BodyOrder /\ Current \in Body /\ at \in Inside
        /\ at' \in {"settle", "attempt", "settled"} /\ pos' = pos /\ dir' = dir
        /\ verdict' = verdict
        /\ \E node : nodes' = [nodes EXCEPT ![Current] = node]
    BY <1>0, <1>5, Places DEF BeginAttempt, SettleSuccess, AtNode, locals, Current, Inside,
       Trying, Becomes
  <2>2. \A b \in Body \ {Current} : nodes'[b] = nodes[b]
    BY <1>0, <2>1 DEF IsState
  <2>3. ASSUME ConditionNode \in Commands, NEW k \in DOMAIN BodyOrder, k < pos',
               BodyOrder[k] = ConditionNode, nodes'[ConditionNode].status = "completed"
        PROVE  AllPassed(Rules, dir')
    <3>1. nodes'[ConditionNode] = nodes[ConditionNode]
      BY <2>1, <2>2, <2>3, PassedAreOthers
    <3> QED
      BY <1>p, <2>1, <2>3, <3>1
  <2>4. (at' = "settle" /\ attempt'.ok) \/ at' = "settled" =>
          SettleSuccess /\ at = "settle" /\ attempt.ok
    BY <1>5 DEF BeginAttempt, NoTurn, SettleSuccess
  <2>5. verdict' = Pending
    BY <1>0, <2>1 DEF Inside, Trying
  <2> QED
    BY <1>d, <1>p, <2>1, <2>3, <2>4, <2>5, InsideKeepsChecked DEF Inside, Trying, Current
<1>6. CASE Attempt
  <2>1. at \in {"attempt", "human"} /\ at' \in {"human", "settle"}
        /\ UNCHANGED <<pos, verdict>>
    BY <1>6 DEF Attempt, AgentAnswers, CommandEnds, AskHuman, HumanAnswers, RouterGivesUp,
       AttemptEnds, locals
  <2>2. pos \in DOMAIN BodyOrder /\ Current \in Body
    BY <1>0, <2>1 DEF Trying
  <2>3. dir' \in Writes
    BY <1>6 DEF Attempt, AgentAnswers, CommandEnds, AskHuman, HumanAnswers, RouterGivesUp,
       Writes
  <2>4. IsDirectory(File, dir)' /\ (Current # ConditionNode => dir' = dir)
    BY <2>3, WritesDirectory
  <2>5. \A b \in Body \ {Current} : nodes'[b] = nodes[b]
    BY <1>0, <1>6, <2>2 DEF Attempt, AgentAnswers, CommandEnds, AskHuman, HumanAnswers,
       RouterGivesUp, Becomes, IsState
  <2>6. ASSUME ConditionNode \in Commands, NEW k \in DOMAIN BodyOrder, k < pos',
               BodyOrder[k] = ConditionNode, nodes'[ConditionNode].status = "completed"
        PROVE  AllPassed(Rules, dir')
    <3>1. Current # ConditionNode /\ nodes'[ConditionNode] = nodes[ConditionNode]
      BY <2>1, <2>2, <2>5, <2>6, PassedAreOthers
    <3> QED
      BY <1>p, <2>1, <2>4, <2>6, <3>1 DEF Inside, Trying
  <2>7. ASSUME ConditionNode \in Commands, at' = "settle", attempt'.ok,
               BodyOrder[pos'] = ConditionNode
        PROVE  AllPassed(Rules, dir')
    <3>1. Current = ConditionNode /\ Current \in Commands
      BY <2>1, <2>7 DEF Current
    <3>2. PICK exit \in ExitCodes : CommandEnds(exit)
      BY <1>6, <2>1, <2>7, <3>1 DEF Attempt, AgentAnswers, AskHuman, HumanAnswers, RouterGivesUp,
         CheckedInv
    <3>3. AttemptEnds(exit = 0 /\ Validated(dir'), FALSE)
          /\ (exit = 0 /\ Validated(dir')) \in BOOLEAN
      BY <3>2 DEF CommandEnds
    <3>4. PICK ok \in BOOLEAN : ok = (exit = 0 /\ Validated(dir'))
      BY <3>3
    <3>5. AttemptEnds(ok, FALSE)
      BY <3>3, <3>4
    <3>6. attempt'.ok = ok
      BY <3>5 DEF AttemptEnds
    <3>7. Validated(dir')
      BY <2>7, <3>4, <3>6
    <3> QED
      BY <3>1, <3>7 DEF Validated
  <2>8. at' = "human" => (Current \notin Commands)'
    <3> SUFFICES ASSUME at' = "human" PROVE (Current \notin Commands)'
      OBVIOUS
    <3>1. AskHuman
      BY <1>6 DEF Attempt, AgentAnswers, CommandEnds, HumanAnswers, RouterGivesUp, AttemptEnds
    <3> QED
      BY <2>1, <3>1 DEF AskHuman, Current
  <2> QED
    BY <1>0, <2>1, <2>4, <2>6, <2>7, <2>8, InsideKeepsChecked DEF Inside, Trying
<1>7. CASE NextNode
  <2>1. /\ at = "settled" /\ at' = "node" /\ pos' = pos + 1 /\ dir' = dir
        /\ verdict' = verdict /\ nodes' = nodes
    BY <1>7 DEF NextNode, durable
  <2>2. ASSUME ConditionNode \in Commands, NEW k \in DOMAIN BodyOrder, k < pos',
               BodyOrder[k] = ConditionNode, nodes'[ConditionNode].status = "completed"
        PROVE  AllPassed(Rules, dir')
    <3>1. CASE k = pos
      BY <1>p, <2>1, <2>2, <3>1 DEF Current
    <3>2. CASE k # pos
      <4>1. k < pos
        BY <1>0, <2>1, <2>2, <3>2, Places
      <4> QED
        BY <1>p, <2>1, <2>2, <4>1 DEF Inside, Trying
    <3> QED
      BY <3>1, <3>2
  <2> QED
    BY <1>0, <1>d, <2>1, <2>2, InsideKeepsChecked DEF Inside
<1>8. CASE ExitHolds
  <2>1. /\ at = "node" /\ at' = "returned" /\ UNCHANGED <<dir, nodes>> /\ pos > Len(BodyOrder)
        /\ verdict'.reason = "exit_value" =>
             ExitValue \in ConditionValues(dir, ConditionField)
    BY <1>8 DEF ExitHolds, AtExit, Return
  <2>2. ASSUME ExitOfThisIteration', Cardinality(Giving') = 1
        PROVE  RulesSeeExit'
    <3>1. /\ ExitValue \in ConditionValues(dir, ConditionField)
          /\ ConditionNode \in Commands /\ nodes[ConditionNode].status = "completed"
      BY <2>1, <2>2 DEF ExitOfThisIteration
    <3>2. PICK k \in DOMAIN BodyOrder : BodyOrder[k] = ConditionNode
      BY LoopAssumption DEF Body
    <3>3. k < pos
      BY <1>0, <2>1, Places
    <3>4. AllPassed(Rules, dir)
      BY <1>p, <2>1, <3>1, <3>2, <3>3 DEF Inside
    <3>5. Giving' = Giving
      BY <2>1 DEF Giving, Exists
    <3>6. RulesSeeExit
      BY <1>0, <2>2, <3>1, <3>4, <3>5, ReadersAgree
    <3> QED
      BY <2>1, <3>6 DEF RulesSeeExit
  <2>3. ExitWasValidated'
    BY <2>2 DEF ExitWasValidated
  <2> QED
    BY <1>d, <2>1, <2>3 DEF CheckedInv, Inside, Trying
<1>9. CASE ExitDoesNotHold
  <2>1. at = "node" /\ at' = "top" /\ dir' = dir /\ verdict' = verdict
    BY <1>9 DEF ExitDoesNotHold, AtExit
  <2>2. ExitWasValidated'
    BY <1>0, <2>1 DEF ExitWasValidated, ExitOfThisIteration, Pending
  <2> QED
    BY <1>d, <2>1, <2>2 DEF CheckedInv, Inside, Trying
<1>10. CASE Resume
  <2>1. at' = "top" /\ verdict' = Pending /\ dir' \in {dir} \cup Writes
    BY <1>10 DEF Resume
  <2>2. IsDirectory(File, dir)'
    BY <1>d, <2>1, WritesDirectory
  <2>3. ExitWasValidated'
    BY <2>1 DEF ExitWasValidated, ExitOfThisIteration, Pending
  <2> QED
    BY <2>1, <2>2, <2>3 DEF CheckedInv, Inside, Trying
<1> QED
  BY <1>1, <1>2, <1>3, <1>4, <1>5, <1>6, <1>7, <1>8, <1>9, <1>10 DEF Next, LoopStep, Attempt

\* What the success of a loop stands for, whatever its body, its rules, what
\* its agents and commands leave and how often the engine dies: a whole last
\* iteration, and an exit value that the rules on its field have accepted when
\* one file gives it (runLoop, runValidations, FR-E36).
THEOREM SuccessIsAlwaysEarned == Spec => []SuccessIsEarned
<1>1. IInv /\ CheckedInv => SuccessIsEarned
  BY DEF IInv, CheckedInv, SuccessIsEarned
<1> QED
  BY <1>1, InitChecked, StepKeepsChecked, LoopIsWhole, PTL DEF Spec

-----------------------------------------------------------------------------
(* How long a call can take.                                               *)

\* The iteration under way is one of those allowed, and the position in it one
\* of its nodes or the exit behind them.
CountInv == /\ iteration \in Nat /\ iteration <= MaxIterations + 1
            /\ at \in Inside => /\ iteration <= MaxIterations
                                /\ pos \in Nat /\ pos <= Len(BodyOrder) + 1
            /\ crashes \in Nat

\* Iterations begin within their bound, and positions are passed one by one.
LEMMA StepKeepsCount == IInv /\ CountInv /\ [Next]_vars => CountInv'
<1> SUFFICES ASSUME IInv, CountInv, [Next]_vars PROVE CountInv'
  OBVIOUS
<1> USE DEF CountInv, Inside, Trying
<1>1. Len(BodyOrder) \in Nat /\ MaxIterations \in Nat \ {0}
  BY Places, LoopAssumption
<1>2. pos \in DOMAIN BodyOrder => pos \in Nat /\ pos <= Len(BodyOrder)
  BY Places
<1>3. CASE Preempt \/ StartIteration \/ Exhausted
  BY <1>1, <1>3 DEF Preempt, StartIteration, Exhausted, Return, locals
<1>4. CASE SkipNode \/ GateThrows \/ BeginAttempt
  BY <1>1, <1>2, <1>4 DEF SkipNode, GateThrows, BeginAttempt, AtNode, Return, locals
<1>5. CASE Attempt
  BY <1>5 DEF Attempt, AgentAnswers, CommandEnds, AskHuman, HumanAnswers, RouterGivesUp,
              AttemptEnds, locals
<1>6. CASE Settle
  <2>1. at \in Trying /\ pos \in DOMAIN BodyOrder
    BY <1>6 DEF Settle, SettleFailure, SettleSuccess, OverNodeBudget, OverRunBudget, NextNode,
                IInv, PlaceOK
  <2> QED
    BY <1>1, <1>2, <1>6, <2>1 DEF Settle, SettleFailure, SettleSuccess, OverNodeBudget,
         OverRunBudget, NextNode, ReturnFailed, Return, locals
<1>7. CASE ExitHolds \/ ExitUnreadable \/ ExitDoesNotHold
  BY <1>1, <1>7 DEF ExitHolds, ExitUnreadable, ExitDoesNotHold, AtExit, ReturnFailed, Return,
                    locals
<1>8. CASE Resume
  BY <1>1, <1>8 DEF Resume
<1>9. CASE UNCHANGED vars
  BY <1>9 DEF vars, locals
<1> QED
  BY <1>3, <1>4, <1>5, <1>6, <1>7, <1>8, <1>9 DEF Next, LoopStep, Attempt, Settle

\* One iteration less to come is a whole iteration's steps less.
LEMMA IterationsAdd == ASSUME NEW n \in Int, NEW k \in Int PROVE (n + 1) * k = n * k + k
OBVIOUS

\* A position further is the five stages of one less.
LEMMA PositionsAdd ==
  ASSUME NEW b \in Int, NEW l \in Int, NEW p \in Int, NEW s \in 1 .. 5
  PROVE  b + 1 + 5 * (l + 1 - (p + 1)) + 5 < b + 1 + 5 * (l + 1 - p) + s
OBVIOUS

\* Inside an iteration a step to a later position, or to a later stage in the same
\* position, is a step nearer.
LEMMA Nearer ==
  ASSUME CountInv, CountInv', at \in Inside, at' \in Inside, iteration' = iteration,
         \/ pos' = pos /\ StagesLeft[at'] < StagesLeft[at]
         \/ pos' = pos + 1 /\ at' = "node"
  PROVE  StepsToReturn' < StepsToReturn
<1> DEFINE before == (MaxIterations - iteration) * IterationSteps
<1>1. Len(BodyOrder) \in Nat /\ MaxIterations \in Nat /\ before \in Int
  BY Places, LoopAssumption DEF CountInv, IterationSteps
<1>2. /\ StepsToReturn = before + 1 + 5 * (Len(BodyOrder) + 1 - pos) + StagesLeft[at]
      /\ StepsToReturn' = before + 1 + 5 * (Len(BodyOrder) + 1 - pos') + StagesLeft[at']
  BY DEF StepsToReturn, Inside, Trying, IterationSteps, StagesLeft
<1>3. StagesLeft[at] \in 1 .. 5 /\ StagesLeft[at'] \in 1 .. 5 /\ StagesLeft["node"] = 5
  BY DEF StagesLeft, Inside, Trying
<1>4. pos \in Nat /\ pos' \in Nat
  BY DEF CountInv
<1> HIDE DEF before
<1>5. CASE pos' = pos /\ StagesLeft[at'] < StagesLeft[at]
  BY <1>1, <1>2, <1>3, <1>4, <1>5
<1>6. CASE pos' = pos + 1 /\ at' = "node"
  <2>1. StepsToReturn' = before + 1 + 5 * (Len(BodyOrder) + 1 - (pos + 1)) + 5
    BY <1>2, <1>3, <1>6
  <2> QED
    <3>1. before + 1 + 5 * (Len(BodyOrder) + 1 - (pos + 1)) + 5
            < before + 1 + 5 * (Len(BodyOrder) + 1 - pos) + StagesLeft[at]
      BY <1>1, <1>3, <1>4, PositionsAdd
    <3> QED
      BY <1>2, <2>1, <3>1
<1> QED
  BY <1>5, <1>6

\* A call that has not returned has a step to take.
LEMMA StepsRemain ==
  ASSUME CountInv, at \in Inside \cup {"top"} PROVE StepsToReturn \in Nat /\ StepsToReturn > 0
<1>1. Len(BodyOrder) \in Nat /\ MaxIterations \in Nat /\ IterationSteps \in Nat
  BY Places, LoopAssumption DEF IterationSteps
<1>2. ASSUME NEW n \in Nat PROVE n * IterationSteps \in Nat
  BY <1>1
<1>3. CASE at = "top"
  <2>1. MaxIterations + 1 - iteration \in Nat
    BY <1>1 DEF CountInv
  <2> QED
    BY <1>2, <1>3, <2>1 DEF StepsToReturn
<1>4. CASE at \in Inside
  <2>1. MaxIterations - iteration \in Nat /\ 5 * (Len(BodyOrder) + 1 - pos) \in Nat
    BY <1>1, <1>4 DEF CountInv
  <2>2. (MaxIterations - iteration) * IterationSteps \in Nat
    BY <1>2, <2>1
  <2>3. StagesLeft[at] \in Nat
    BY <1>4 DEF StagesLeft, Inside, Trying
  <2> QED
    BY <1>4, <2>1, <2>2, <2>3 DEF StepsToReturn, Inside, Trying
<1> QED
  BY <1>3, <1>4

\* Every step of a call brings it nearer its return.
LEMMA StepIsNearer ==
  ASSUME IInv, CountInv, CountInv', LoopStep PROVE StepsToReturn' < StepsToReturn
<1>1. Len(BodyOrder) \in Nat /\ MaxIterations \in Nat /\ IterationSteps \in Nat
  BY Places, LoopAssumption DEF IterationSteps
<1>2. ASSUME at # "returned", at' = "returned" PROVE StepsToReturn' < StepsToReturn
  <2>1. StepsToReturn' = 0
    BY <1>2 DEF StepsToReturn
  <2> QED
    BY <1>2, <2>1, StepsRemain DEF IInv, PlaceOK
<1>3. CASE \/ Preempt \/ Exhausted \/ GateThrows \/ SettleFailure \/ OverNodeBudget
           \/ OverRunBudget \/ ExitHolds \/ ExitUnreadable
  BY <1>2, <1>3 DEF Preempt, Exhausted, GateThrows, SettleFailure, OverNodeBudget, OverRunBudget,
       ExitHolds, ExitUnreadable, AtNode, AtExit, ReturnFailed, Return
<1>4. CASE StartIteration
  <2> DEFINE n == MaxIterations - iteration
  <2>1. /\ at = "top" /\ at' = "node" /\ pos' = 1 /\ iteration' = iteration /\ n \in Int
    BY <1>1, <1>4 DEF StartIteration, CountInv
  <2>2. /\ StepsToReturn = (n + 1) * IterationSteps + 1
        /\ StepsToReturn' = n * IterationSteps + 1 + 5 * Len(BodyOrder) + 5
    BY <1>1, <2>1 DEF StepsToReturn, StagesLeft, IterationSteps, CountInv
  <2>3. (n + 1) * IterationSteps = n * IterationSteps + IterationSteps
    BY <1>1, <2>1, IterationsAdd
  <2>4. n * IterationSteps \in Int
    BY <1>1, <2>1
  <2> HIDE DEF n
  <2> QED
    BY <1>1, <2>2, <2>3, <2>4 DEF IterationSteps
<1>5. CASE SkipNode
  BY <1>5, Nearer DEF SkipNode, AtNode, Inside
<1>6. CASE BeginAttempt \/ Attempt \/ SettleSuccess
  <2>1. /\ at \in Inside /\ at' \in Inside /\ UNCHANGED <<iteration, pos>>
        /\ StagesLeft[at'] < StagesLeft[at]
    BY <1>6 DEF BeginAttempt, AtNode, Attempt, AgentAnswers, CommandEnds, AskHuman,
         HumanAnswers, RouterGivesUp, AttemptEnds, SettleSuccess, StagesLeft, Inside, Trying,
         locals
  <2> QED
    BY <2>1, Nearer
<1>7. CASE NextNode
  BY <1>7, Nearer DEF NextNode, Inside, Trying
<1>8. CASE ExitDoesNotHold
  <2> DEFINE n == MaxIterations - iteration
  <2>1. /\ at = "node" /\ at' = "top" /\ iteration' = iteration + 1 /\ n \in Int
        /\ pos \in Nat /\ pos <= Len(BodyOrder) + 1
    BY <1>1, <1>8 DEF ExitDoesNotHold, AtExit, CountInv, Inside
  <2>2. MaxIterations + 1 - iteration' = n
    BY <1>1, <2>1 DEF CountInv
  <2>3. /\ StepsToReturn = n * IterationSteps + 1 + 5 * (Len(BodyOrder) + 1 - pos) + 5
        /\ StepsToReturn' = n * IterationSteps + 1
    BY <2>1, <2>2 DEF StepsToReturn, StagesLeft, IterationSteps
  <2>4. n * IterationSteps \in Int
    BY <1>1, <2>1
  <2> HIDE DEF n
  <2> QED
    BY <1>1, <2>1, <2>3, <2>4
<1> QED
  BY <1>3, <1>4, <1>5, <1>6, <1>7, <1>8 DEF LoopStep, Attempt

\* A call of runLoop returns within 5 n + 6 steps per iteration allowed, n being the
\* nodes of its body, whatever its agents, predicates, humans and budgets do.
THEOREM CallsAreFinite == Spec => CallIsNumbered
<1>1. Init => CountInv
  BY Places, LoopAssumption DEF Init, CountInv, Inside, Trying
<1>2. Spec => []CountInv
  BY <1>1, StepKeepsCount, LoopIsWhole, PTL DEF Spec
<1>3. IInv /\ CountInv /\ CountInv' /\ [Next]_vars
        => [crashes' = crashes => StepsToReturn' < StepsToReturn]_vars
  <2>1. ASSUME CountInv, Resume, crashes' = crashes PROVE FALSE
    BY <2>1 DEF CountInv, Resume
  <2> QED
    BY <2>1, StepIsNearer DEF Next
<1> QED
  BY <1>2, <1>3, LoopIsWhole, PTL DEF Spec, CallIsNumbered

=============================================================================
