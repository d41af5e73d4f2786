------------------------------- MODULE Levels -------------------------------
(***************************************************************************)
(* What the engine computes from a workflow before it runs: the cycle      *)
(* check of buildDependencies (a depth-first search with three colours)    *)
(* and the levels of topoSort, which `--dry-run`, the bootstrap journal    *)
(* and the drift check read (dag.ts).  The searches visit nodes in the     *)
(* order of a map; here they visit them in any order.                      *)
(***************************************************************************)
EXTENDS Dag, SequencesExt

VARIABLES w,          \* the workflow
          deps,       \* its dependency map
          colour,     \* of detectCycles: state
          path,       \* of detectCycles: the nodes in progress, outermost first
          todo,       \* the dependencies a node in progress has not looked at
          remaining,  \* of topoSort: what a node not yet placed still waits for
          levels,     \* the levels found so far
          verdict     \* of the whole: "none" as long as it computes

graphVars == <<w, deps, colour, path, todo, remaining, levels, verdict>>

Colours == {"unvisited", "inProgress", "done"}

\* Before the first step.
Blank == /\ deps = Dependencies(w)
         /\ colour = [n \in Node |-> "unvisited"]
         /\ path = <<>>
         /\ todo = deps
         /\ remaining = deps
         /\ levels = <<>>
         /\ verdict = "none"

-----------------------------------------------------------------------------
(* detectCycles.                                                           *)

Searching == verdict = "none" /\ \E n \in Node : colour[n] # "done"

Entered(n) == [colour EXCEPT ![n] = "inProgress"]

\* dfs(n) is called.
Visit(n) == /\ colour' = Entered(n)
            /\ path' = Append(path, n)
            /\ UNCHANGED <<w, deps, todo, remaining, levels, verdict>>

\* From the outer loop.
Root(n) == /\ Searching /\ path = <<>> /\ colour[n] = "unvisited"
           /\ Visit(n)

ClosesCycle(d) == colour[d] = "inProgress"

\* The innermost call looks at its next dependency.
Look(d) == /\ Searching /\ path # <<>> /\ d \in todo[Last(path)]
           /\ IF ClosesCycle(d)
              THEN /\ verdict' = "cycle"
                   /\ UNCHANGED <<w, deps, colour, path, todo, remaining, levels>>
              ELSE IF colour[d] = "unvisited" THEN Visit(d)
              ELSE /\ todo' = [todo EXCEPT ![Last(path)] = @ \ {d}]
                   /\ UNCHANGED <<w, deps, colour, path, remaining, levels, verdict>>

Left(n) == [colour EXCEPT ![n] = "done"]

\* It has looked at all of them and returns.
Leave == /\ Searching /\ path # <<>> /\ todo[Last(path)] = {}
         /\ colour' = Left(Last(path))
         /\ path' = Front(path)
         /\ UNCHANGED <<w, deps, todo, remaining, levels, verdict>>

-----------------------------------------------------------------------------
(* topoSort.                                                               *)

Placed == UNION Range(levels)
Sorting == verdict = "none" /\ ~ Searching

\* Mutant: one dependency that is not placed yet is forgiven.
FreeButOne == {n \in Node \ Placed : Cardinality(remaining[n]) <= 1}

Free == {n \in Node \ Placed : remaining[n] = {}}

\* An iteration of the loop; "Cannot resolve dependencies" is said not to happen.
PlaceLevel == /\ Sorting /\ Placed # Node
              /\ IF Free = {}
                 THEN verdict' = "stall" /\ UNCHANGED <<levels, remaining>>
                 ELSE /\ levels' = Append(levels, Free)
                      /\ remaining' = [n \in Node |-> remaining[n] \ Free]
                      /\ UNCHANGED verdict
              /\ UNCHANGED <<w, deps, colour, path, todo>>

Finish == /\ Sorting /\ Placed = Node
          /\ verdict' = "levels"
          /\ UNCHANGED <<w, deps, colour, path, todo, remaining, levels>>

Compute == \/ \E n \in Node : Root(n) \/ Look(n)
           \/ Leave
           \/ PlaceLevel \/ Finish

-----------------------------------------------------------------------------
(* Properties.                                                             *)

\* Every variable holds a value of its type.
TypeOK ==
  /\ w \in Workflow
  /\ deps \in [Node -> SUBSET Node]
  /\ colour \in [Node -> Colours]
  /\ path \in Seq(Node) /\ IsInjective(path)
  /\ todo \in [Node -> SUBSET Node] /\ remaining \in [Node -> SUBSET Node]
  /\ levels \in Seq(SUBSET Node)
  /\ verdict \in {"none", "cycle", "stall", "levels"}

\* Reference: n needs itself, at any distance.
Needs(ns) == ns \cup UNION {deps[n] : n \in ns}
NeedsAtLast(n) ==
  LET within[k \in 0 .. Cardinality(Node)] ==
        IF k = 0 THEN deps[n] ELSE Needs(within[k - 1])
  IN within[Cardinality(Node)]
IsCyclic == \E n \in Node : n \in NeedsAtLast(n)

\* The search answers "cycle" for the cyclic graphs alone, so that the sort never
\* meets one and its defensive error never shows (detectCycles, topoSort).
CycleVerdictIsRight ==
  /\ verdict = "cycle" => IsCyclic
  /\ verdict = "levels" => ~ IsCyclic
  /\ verdict # "stall"

LevelOf(n) == CHOOSE i \in DOMAIN levels : n \in levels[i]

\* A level is made of what waits for earlier levels only, and a node is in it
\* as soon as it can be: one of its dependencies is in the level before.
LevelsAreEarliest ==
  verdict = "levels" =>
     \A n \in Node :
        /\ \A d \in deps[n] : LevelOf(d) < LevelOf(n)
        /\ LevelOf(n) > 1 => \E d \in deps[n] : LevelOf(d) = LevelOf(n) - 1

\* A join comes after every member of every branch of its group, though only
\* the ends of the branches are among its dependencies (branchTerminals).
JoinComesLast ==
  verdict = "levels" =>
     \A n, m \in Node :
        w.join[n] # NoGroup /\ GroupOf(w)[m] = w.join[n] => LevelOf(m) < LevelOf(n)

\* Together: a cyclic workflow is refused and no other, and what --dry-run
\* shows and drift detection compares is right.
LevelsAreRight == CycleVerdictIsRight /\ LevelsAreEarliest /\ JoinComesLast

=============================================================================
