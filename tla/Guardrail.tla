----------------------------- MODULE Guardrail -----------------------------
(***************************************************************************)
(* Who is blamed for a file, and which files are put back: the bracket     *)
(* that GroupGuardrail keeps around the nodes at work (guardrail.ts,       *)
(* FR-E50, FR-E91) and the scope check of each agent node (agent.ts and    *)
(* scope-check.ts, FR-E37), both made of snapshots that git takes of a     *)
(* whole tree while other nodes write.                                     *)
(*                                                                         *)
(* A path is outside the run's worktree, where the bracket looks, or       *)
(* inside it, where the scope check looks.  Every await of a git process   *)
(* is two steps: the moment git reads the tree, and the resumption.        *)
(*                                                                         *)
(* With max_parallel 1 there is no GroupGuardrail: runWithGuardrail does   *)
(* the same around the runtime call of an agent node, and around nothing   *)
(* else.  A command, merge, loop, human or hitl node works outside it, so  *)
(* does a resumed human round, and a call that throws is never judged.     *)
(*                                                                         *)
(* git answers.  Nobody but the nodes and the guardrail changes files      *)
(* during the run.                                                         *)
(***************************************************************************)
EXTENDS Naturals, FiniteSets

CONSTANTS Node,
          Outside, Inside,  \* the paths of the checkout and of the worktree
          Dirty,            \* what the user had changed before the run
          Agents,           \* the agent nodes
          Scoped,           \* those that declare allowed_paths
          Allowed,          \* what a node declares, {} if it declares nothing
          Reach,            \* what a node may come to write
          Caps,             \* the values of max_parallel; 0 is no limit
          Undefined         \* no snapshot

ASSUME NodesAssumption == IsFiniteSet(Node)
ASSUME PathsAssumption ==
  /\ Outside \cap Inside = {} /\ Dirty \subseteq Outside
  /\ \A seen \in SUBSET Outside : seen # Undefined
ASSUME ScopesAssumption ==
  /\ Scoped \subseteq Agents /\ Agents \subseteq Node
  /\ Allowed \in [Node -> SUBSET (Outside \cup Inside)]
  /\ Reach \in [Node -> SUBSET ((Outside \cup Inside) \ Dirty)]
ASSUME CapsAssumption == Caps \subseteq Nat

Path == Outside \cup Inside

VARIABLES
  cap,      \* defaults.max_parallel
  stage,    \* what the task of a node is doing
  changed,  \* the paths that git reports as modified or untracked
  before, allowed, depth,  \* of the GroupGuardrail; with max_parallel 1 the
                           \* first two are those of runWithGuardrail
  running, bracket,        \* keys of runningScopes and of bracketScopes
  snap,     \* the answer of git that the task awaits, and what is to roll back
  base,     \* beforeSnapshot of runAgent
  flagged,  \* history: nodes the scope check has failed at least once
  passed,   \* history: nodes it has let go
  wrote,    \* history: what a node has written
  loose,    \* history: what of it outside a call, or in a call that threw
  epoch, epochOf,  \* history: how often the nodes at work have been none
  overlapped, \* history: a bracket was opened or closed by two at once
  crossed     \* history: it was opened by one while closed by another

group    == <<before, allowed, depth>>
scopes   == <<running, bracket, epoch, epochOf>>
files    == <<changed, wrote, loose>>
history  == <<overlapped, crossed>>
vars == <<cap, stage, changed, before, allowed, depth, running, bracket, snap,
          base, flagged, passed, wrote, loose, epoch, epochOf, overlapped, crossed>>

-----------------------------------------------------------------------------

Started == {n \in Node : stage[n] \notin {"idle", "out"}}
\* The nodes in the middle of enter, and of leave.
Opening == {n \in Node : stage[n] \in {"opening", "opened"}}
Closing == {n \in Node : stage[n] \in {"closing", "checking", "rolling"}}
\* The nodes that have entered and not left.
Within == {n \in Node : stage[n] \in {"entered", "inside", "reviewing", "loose"}}

\* Whether the run has a GroupGuardrail.
Grouped == cap # 1
\* Whom runningScopes is to name: a group is entered before the scope is noted.
AtWork == IF Grouped THEN Within ELSE Started

Go(n, s) == stage' = [stage EXCEPT ![n] = s]

Init == /\ cap \in Caps
        /\ stage = [n \in Node |-> "idle"]
        /\ changed = Dirty
        /\ before = Undefined /\ allowed = {} /\ depth = 0
        /\ running = {} /\ bracket = {}
        /\ snap = [n \in Node |-> {}] /\ base = [n \in Node |-> {}]
        /\ flagged = {} /\ passed = {}
        /\ wrote = [n \in Node |-> {}] /\ loose = [n \in Node |-> {}]
        /\ epoch = 0 /\ epochOf = [n \in Node |-> 0]
        /\ overlapped = FALSE /\ crossed = FALSE

\* runScheduledNode clears bracketScopes when nothing is running.
BracketWith(n) == (IF running = {} THEN {} ELSE bracket) \cup {n}

\* What runScheduledNode does before it executes the node.
EnterScopes(n) ==
  /\ bracket' = BracketWith(n)
  /\ running' = running \cup {n}
  /\ epoch' = IF running = {} THEN epoch + 1 ELSE epoch
  /\ epochOf' = [epochOf EXCEPT ![n] = epoch']

MayStart(n) == stage[n] = "idle" /\ (cap = 0 \/ Cardinality(Started) < cap)

\* enter: a node finds the bracket open and joins it, or asks git to open it.
Enter(n) ==
  /\ Grouped /\ MayStart(n)
  /\ IF depth > 0
     THEN /\ depth' = depth + 1
          /\ allowed' = allowed \cup Allowed[n]
          /\ Go(n, "entered") /\ EnterScopes(n)
          /\ UNCHANGED before
     ELSE Go(n, "opening") /\ UNCHANGED <<group, scopes>>
  /\ overlapped' = (overlapped \/ Opening \cup Closing # {})
  /\ crossed' = (crossed \/ Closing # {})
  /\ UNCHANGED <<cap, passed, files, snap, base, flagged>>

\* Without a group: runWithGuardrail begins, unless the node is no agent, or one
\* that waits for a human.
EnterAlone(n) ==
  /\ ~Grouped /\ MayStart(n)
  /\ EnterScopes(n)
  /\ \/ n \in Agents /\ Go(n, "opening")
     \/ Go(n, "loose")
  /\ UNCHANGED <<cap, passed, files, group, snap, base, flagged, history>>

\* git reads the checkout.
Sees(n, from, to) ==
  /\ stage[n] = from
  /\ Go(n, to)
  /\ snap' = [snap EXCEPT ![n] = changed \cap Outside]
  /\ UNCHANGED <<cap, passed, files, group, scopes, base, flagged, history>>

SnapshotOf(n) == snap[n]

OneMore == depth + 1

\* enter goes on: the fields are reset, whoever set them meanwhile.
Open(n) ==
  /\ stage[n] = "opened"
  /\ before' = SnapshotOf(n)
  /\ allowed' = Allowed[n]
  /\ Go(n, "entered")
  /\ IF Grouped THEN depth' = OneMore /\ EnterScopes(n) ELSE UNCHANGED <<depth, scopes>>
  /\ UNCHANGED <<cap, passed, files, snap, base, flagged, history>>

\* runAgent takes its snapshot of the worktree.
Begin(n) ==
  /\ stage[n] = "entered"
  /\ Go(n, "inside")
  /\ base' = [base EXCEPT ![n] = changed \cap Inside]
  /\ UNCHANGED <<cap, passed, files, group, scopes, snap, flagged, history>>

Write(n, p) ==
  /\ stage[n] \in {"inside", "loose"} /\ p \in Reach[n] \ wrote[n]
  /\ changed' = changed \cup {p}
  /\ wrote' = [wrote EXCEPT ![n] = @ \cup {p}]
  /\ loose' = IF stage[n] = "loose" THEN [loose EXCEPT ![n] = @ \cup {p}] ELSE loose
  /\ UNCHANGED <<cap, passed, stage, group, scopes, snap, base, flagged, history>>

\* The invocation has ended; the scope check asks git for a second snapshot.
Return(n) ==
  /\ stage[n] = "inside" /\ n \in Scoped
  /\ Go(n, "reviewing")
  /\ snap' = [snap EXCEPT ![n] = changed \cap Inside]
  /\ UNCHANGED <<cap, passed, files, group, scopes, base, flagged, history>>

\* Mutant: only the scopes of the nodes still running are forgiven.
ForgivenRunning(n) == UNION {Allowed[m] : m \in running \ {n}}

\* forgivenScopes.
Forgiven(n) == UNION {Allowed[m] : m \in bracket \ {n}}

Violations(n) == snap[n] \ (base[n] \cup Allowed[n] \cup Forgiven(n))

\* leave, up to its await: only the last one closes the bracket.
Leave(n) ==
  /\ running' = running \ {n}
  /\ depth' = depth - 1
  /\ Go(n, IF depth' > 0 THEN "out" ELSE "closing")
  /\ crossed' = (crossed \/ Opening # {})
  /\ UNCHANGED <<bracket, epoch, epochOf, before, allowed, overlapped>>

\* Without a group: executeNode is through.
Out(n) ==
  /\ Go(n, "out") /\ running' = running \ {n}
  /\ UNCHANGED <<bracket, epoch, epochOf>>

\* Mutant: at max_parallel 1 the check after the call is gone as well.
CallEndsUnjudged(n) ==
  IF Grouped THEN Leave(n) ELSE Out(n) /\ UNCHANGED <<group, history>>

\* runAgent has returned: the bracket of the call, or of the group, is left.
CallEnds(n) ==
  IF Grouped THEN Leave(n)
  ELSE Go(n, "closing") /\ UNCHANGED <<group, scopes, history>>

\* A call that went well has asked a human: the rest of the round goes on
\* without a scope check, and without a bracket unless it is the group's.  (In a
\* group, a node that nobody checks may as well stay inside.)
HumanRound(n) ==
  /\ n \in Agents
  /\ Go(n, "loose")
  /\ UNCHANGED <<depth, scopes, history>>

\* A violation, or a validation rule that fails, costs a continuation, with the
\* snapshot as its new base, until max_continuations are spent.
Reject(n) ==
  /\ stage[n] = "reviewing"
  /\ flagged' = IF Violations(n) # {} THEN flagged \cup {n} ELSE flagged
  /\ base' = [base EXCEPT ![n] = snap[n]]
  /\ \/ Go(n, "inside") /\ UNCHANGED <<group, scopes, history>>
     \/ CallEnds(n)
  /\ UNCHANGED <<cap, passed, files, snap>>

Pass(n) ==
  /\ stage[n] = "reviewing" /\ Violations(n) = {}
  /\ \/ CallEnds(n)
     \/ Grouped /\ HumanRound(n) /\ UNCHANGED <<before, allowed>>
  /\ passed' = passed \cup {n}
  /\ UNCHANGED <<cap, files, snap, base, flagged>>

\* A node with nothing to check, or one that fails; in a group also one that
\* throws.
End(n) ==
  /\ stage[n] \in {"entered", "inside"}
  /\ CallEnds(n)
  /\ UNCHANGED <<cap, passed, files, snap, base, flagged>>

\* Without a group: runAgent throws, and runWithGuardrail with it.
Throw(n) ==
  /\ ~Grouped /\ stage[n] \in {"entered", "inside", "reviewing"}
  /\ Out(n)
  /\ before' = Undefined /\ allowed' = {}
  /\ loose' = [loose EXCEPT ![n] = @ \cup wrote[n]]
  /\ UNCHANGED <<cap, passed, changed, wrote, depth, snap, base, flagged, history>>

\* The end of what no call encloses.
EndLoose(n) ==
  /\ stage[n] = "loose"
  /\ IF Grouped THEN Leave(n) ELSE Out(n) /\ UNCHANGED <<group, history>>
  /\ UNCHANGED <<cap, passed, files, snap, base, flagged>>

KnownBefore == IF before = Undefined THEN {} ELSE before

\* Mutant: the scope of the node that leaves last decides.
LeaksOfLast(n) == snap[n] \ (KnownBefore \cup Allowed[n])

\* detectLeaks against what the fields hold now.
Leaks(n) == snap[n] \ (KnownBefore \cup allowed)

\* The end of the node, once it is judged.  In a group it is the bracket that was
\* judged, and the node had ended.
JudgedOut(n) == IF Grouped THEN Go(n, "out") /\ UNCHANGED scopes ELSE Out(n)

\* leave, or runWithGuardrail, goes on: the bracket is judged and its fields reset.
Check(n) ==
  /\ stage[n] = "checking"
  /\ snap' = [snap EXCEPT ![n] = Leaks(n)]
  /\ before' = Undefined /\ allowed' = {}
  /\ IF Leaks(n) # {} THEN Go(n, "rolling") /\ UNCHANGED <<depth, scopes, history>>
     ELSE \/ JudgedOut(n) /\ UNCHANGED <<depth, history>>
          \/ ~Grouped /\ (n \in Scoped => n \in passed) /\ HumanRound(n)
  /\ UNCHANGED <<cap, passed, files, base, flagged>>

Rollback(p) == changed \ {p}

\* rollbackLeaks puts the files back one by one.
RollBack(n, p) ==
  /\ stage[n] = "rolling" /\ p \in snap[n]
  /\ changed' = Rollback(p)
  /\ snap' = [snap EXCEPT ![n] = @ \ {p}]
  /\ IF snap'[n] = {} THEN JudgedOut(n) ELSE UNCHANGED <<stage, scopes>>
  /\ UNCHANGED <<cap, passed, wrote, loose, group, base, flagged, history>>

Next == \E n \in Node :
          \/ Enter(n) \/ EnterAlone(n) \/ Sees(n, "opening", "opened") \/ Open(n)
          \/ Begin(n) \/ Return(n) \/ Reject(n) \/ Pass(n) \/ End(n)
          \/ Throw(n) \/ EndLoose(n)
          \/ Sees(n, "closing", "checking") \/ Check(n)
          \/ \E p \in Path : Write(n, p) \/ RollBack(n, p)

Spec == Init /\ [][Next]_vars

-----------------------------------------------------------------------------
(* Properties.                                                             *)

Stages == {"idle", "opening", "opened", "entered", "inside", "reviewing", "loose",
           "closing", "checking", "rolling", "out"}

\* Every variable holds a value of its type; depth counts the nodes within and
\* runningScopes names them, however their awaits interleave.  Without a group
\* nothing is counted, and runningScopes names the node at work.
TypeOK ==
  /\ cap \in Caps
  /\ stage \in [Node -> Stages]
  /\ changed \subseteq Path
  /\ before = Undefined \/ before \subseteq Outside
  /\ allowed \subseteq Path
  /\ depth = IF Grouped THEN Cardinality(Within) ELSE 0
  /\ running = AtWork
  /\ bracket \subseteq Node
  /\ snap \in [Node -> SUBSET Path] /\ base \in [Node -> SUBSET Inside]
  /\ flagged \subseteq Scoped /\ passed \subseteq Scoped
  /\ wrote \in [Node -> SUBSET Path] /\ loose \in [Node -> SUBSET Path]
  /\ epoch \in Nat /\ epochOf \in [Node -> 0 .. epoch]
  /\ overlapped \in BOOLEAN /\ crossed \in BOOLEAN

\* The scope check fails a node only when some node that worked in its time
\* wrote outside its own scope: an early finisher's legitimate files are never
\* held against those who still work (bracketScopes, FR-E37).
BlameNeedsAStray ==
  \A n \in flagged : \E m \in Node :
     /\ epochOf[m] = epochOf[n]
     /\ ~ wrote[m] \cap Inside \subseteq Allowed[m]

\* A node that passes wrote only what was changed when its last check began or
\* what the company it kept may write: scopes of nodes long gone excuse nothing.
\* A human round after the check is on its own.
PassesOnlyInScope ==
  \A n \in passed \ flagged : \A p \in (wrote[n] \cap Inside) \ (base[n] \cup loose[n]) :
     \E m \in Node : epochOf[m] = epochOf[n] /\ p \in Allowed[m]

\* The scope check fails whom it should and nobody else, whoever else works in
\* the tree (findViolations, forgivenScopes, FR-E37).
ScopeVerdictIsRight == BlameNeedsAStray /\ PassesOnlyInScope

\* Unless one node opens the bracket while another closes it, the rollback
\* leaves the user's own changes alone (detectLeaks "excludes pre-existing
\* modifications").
UserWorkIsKept == ~ crossed => Dirty \subseteq changed

\* Unless two nodes open or close the bracket at once, whoever leaves last, the
\* rollback leaves alone what a node may write outside the worktree.
AllowedWritesAreKept ==
  ~ overlapped => \A n \in Node : wrote[n] \cap Allowed[n] \subseteq changed

\* ... and nothing that no node may write outlives the nodes at work.  Without a
\* group it does where no bracket is or where the call threw: what is written
\* there stays.
LeaksAreUndone ==
  ~ overlapped /\ Started = {} =>
     changed \cap Outside \subseteq
       Dirty \cup UNION {Allowed[n] \cup (IF Grouped THEN {} ELSE loose[n]) : n \in Node}

\* Together: the rollback takes the leaks, all of them and nothing else (FR-E50),
\* of what a bracket encloses.
RollbackTakesTheLeaks == UserWorkIsKept /\ AllowedWritesAreKept /\ LeaksAreUndone

-----------------------------------------------------------------------------
(* What documents say and the code does not do.                            *)

\* The bracket "admits every node that joins while it is open, unions their
\* allowed_paths" (FR-E50): what a node may write is never rolled back.
ScopesAreUnited == \A n \in Node : wrote[n] \cap Allowed[n] \subseteq changed

=============================================================================
