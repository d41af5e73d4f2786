-------------------------------- MODULE Dag --------------------------------
(***************************************************************************)
(* The graph of a workflow as the engine derives it from a loaded config:  *)
(* branch membership (config.ts), the dependency map with the join edges   *)
(* that inputs cannot express (dag.ts), the nodes that must run alone      *)
(* (engine.ts, branch-scope.ts) and Kahn's levels.  Nodes are numbers, in  *)
(* the order of their sorted ids.  A loop node stands for its whole body.  *)
(*                                                                         *)
(* A workflow w is a record:                                               *)
(*   inputs  the inputs each node names                                    *)
(*   fork    the branch the node opens, or NoBranch                        *)
(*   join    the group the node joins, or NoGroup                          *)
(*   scoped  the nodes that declare allowed_paths                          *)
(***************************************************************************)
EXTENDS Naturals, FiniteSets

CONSTANTS Node, Group, Name, NoGroup, NoBranch

ASSUME NodeAssumption == Node \subseteq Nat /\ IsFiniteSet(Node)
ASSUME NoneAssumption == NoGroup \notin Group /\ NoBranch \notin [group : Group, name : Name]

Branch == [group : Group, name : Name]

Workflow == [inputs : [Node -> SUBSET Node],
             fork   : [Node -> Branch \cup {NoBranch}],
             join   : [Node -> Group \cup {NoGroup}],
             scoped : SUBSET Node]

-----------------------------------------------------------------------------
(* Branch membership.                                                      *)

\* The branches that the inputs of n belong to under membership m.
InputBranches(w, m, n) == {m[i] : i \in w.inputs[n]} \ {NoBranch}

\* One pass of the fixpoint: a node that neither forks nor joins takes the
\* branch of its inputs.  (The code updates in place; the fixpoint is the same.)
MembershipPass(w, m) ==
  [n \in Node |->
     IF /\ w.fork[n] = NoBranch
        /\ w.join[n] = NoGroup
        /\ m[n] = NoBranch
        /\ Cardinality(InputBranches(w, m, n)) = 1
     THEN CHOOSE b \in InputBranches(w, m, n) : TRUE
     ELSE m[n]]

\* Mutant: one pass, which is enough for the nodes next to a fork.
MembershipOnePass(w) == MembershipPass(w, w.fork)

\* resolveBranchMembership: the fixpoint of the pass from the declared forks.
Membership(w) ==
  LET after[k \in 0 .. Cardinality(Node)] ==
        IF k = 0 THEN w.fork ELSE MembershipPass(w, after[k - 1])
  IN after[Cardinality(Node)]

\* The load error "takes inputs from two branches".
ReadsTwoBranches(w) ==
  \E n \in Node : /\ w.fork[n] = NoBranch
                  /\ w.join[n] = NoGroup
                  /\ Cardinality(InputBranches(w, Membership(w), n)) > 1

\* validateForkGraph: every group that is forked into has exactly one join,
\* every join has a group, and a branch is declared by one node.
ForkGraphIsValid(w) ==
  /\ \A n, m \in Node : w.fork[n] = w.fork[m] /\ w.fork[n] # NoBranch => n = m
  /\ \A n, m \in Node : w.join[n] = w.join[m] /\ w.join[n] # NoGroup => n = m
  /\ {w.fork[n].group : n \in {x \in Node : w.fork[x] # NoBranch}}
       = {w.join[n] : n \in Node} \ {NoGroup}
  /\ ~ ReadsTwoBranches(w)

-----------------------------------------------------------------------------
(* Dependencies.                                                           *)

\* branchTerminals: the members of group g that no sibling of their branch
\* takes as an input.
BranchTerminals(w, g) ==
  LET own == Membership(w)
      InGroup(n) == own[n] # NoBranch /\ own[n].group = g
  IN {n \in Node : /\ InGroup(n)
                   /\ \A m \in Node : n \in w.inputs[m] => own[m] # own[n]}

\* buildDependencies, before the cycle check: the inputs of a node and, for a
\* join, every terminal of its group.
Dependencies(w) ==
  [n \in Node |->
     w.inputs[n] \cup
       (IF w.join[n] = NoGroup THEN {} ELSE BranchTerminals(w, w.join[n]))]

-----------------------------------------------------------------------------
(* Nodes that run alone: members of a branch that has no worktree.         *)

\* isolatedBranches: a branch owns a tree when one of its nodes has a scope.
IsolatedBranches(w) == {Membership(w)[n] : n \in w.scoped} \ {NoBranch}

\* The closure `exclusive` of runNodes.
Exclusive(w) ==
  {n \in Node : /\ Membership(w)[n] # NoBranch
                /\ Membership(w)[n] \notin IsolatedBranches(w)}

\* The group of every node, for the failure mode that governs it.
GroupOf(w) ==
  [n \in Node |-> IF Membership(w)[n] = NoBranch THEN NoGroup
                                                 ELSE Membership(w)[n].group]

=============================================================================
