-------------------------- MODULE GuardrailProofs --------------------------
(***************************************************************************)
(* Proofs about the guardrail bracket and the scope checks (Guardrail),    *)
(* for any nodes, paths, scopes and max_parallel: a scope check fails whom *)
(* it should and nobody else, and the rollback takes the leaks and nothing *)
(* else, unless two nodes are at the door of the bracket at once.          *)
(***************************************************************************)
EXTENDS Guardrail, FiniteSetTheorems, TLAPS

\* What a snapshot is about: the checkout at the door of the bracket, the worktree
\* under a scope check.
SnapInv ==
  /\ \A n \in Node : stage[n] \in {"opened", "checking", "rolling"} => snap[n] \subseteq Outside
  /\ \A n \in Node : stage[n] = "reviewing" => n \in Scoped /\ snap[n] \subseteq Inside

-----------------------------------------------------------------------------
(* Who works in whose time.                                                *)

\* Where a node has noted no scope yet.
Early == IF Grouped THEN {"idle", "opening", "opened"} ELSE {"idle"}

\* The nodes at work, and those that bracketScopes still names, are of this
\* epoch; a node that has not entered yet is of none and has done nothing.
EpochInv ==
  /\ \A n \in AtWork : epochOf[n] = epoch /\ n \in bracket
  /\ \A m \in bracket : epochOf[m] = epoch
  /\ \A m \in Node : stage[m] \in Early =>
       wrote[m] = {} /\ m \notin flagged \cup passed /\ epochOf[m] = 0
  /\ \A m \in Node : stage[m] \notin Early => epochOf[m] # 0

\* A node that is under no scope check any more.
Late == {"closing", "checking", "rolling", "loose", "out"}

\* What has changed in the worktree since a node began was written in its time,
\* and a check under way has seen all that its node wrote.
ScopeInv ==
  /\ \A n \in Node : stage[n] \in {"inside", "reviewing"} =>
       /\ base[n] \subseteq changed
       /\ \A p \in (changed \cap Inside) \ base[n] : \E m \in bracket : p \in wrote[m]
  /\ \A n \in Node : wrote[n] \cap Inside \subseteq changed
  /\ \A n \in Node : stage[n] = "reviewing" =>
       /\ base[n] \subseteq snap[n] /\ snap[n] \subseteq changed
       /\ wrote[n] \cap Inside \subseteq snap[n]
  /\ \A n \in passed : stage[n] \in Late

-----------------------------------------------------------------------------
(* Opening and closing the bracket.                                        *)

\* The closing nodes whose judgement is still to come.
Judging == {n \in Node : stage[n] \in {"closing", "checking"}}

\* Whoever closes the bracket is alone, and finds it as it was opened.
CrossInv ==
  ~ crossed =>
    /\ Closing # {} => Opening = {} /\ Within = {}
    /\ \A m, n \in Closing : m = n
    /\ Within \cup Judging # {} => before # Undefined
    /\ before # Undefined => Dirty \subseteq before
    /\ Dirty \subseteq changed
    /\ \A n \in Node : stage[n] = "opened" => Dirty \subseteq snap[n]
    /\ \A n \in Node : stage[n] = "rolling" => snap[n] \cap Dirty = {}

\* What nodes wrote where they may, outside the worktree.
Kept == UNION {wrote[m] \cap Allowed[m] \cap Outside : m \in Node}
\* What may be there.
Fine == Dirty \cup UNION {Allowed[m] : m \in Node}

\* While one opens or closes the bracket, nobody else is in it.
SoloInv ==
  ~ overlapped =>
    /\ ~ crossed
    /\ \A m, n \in Opening \cup Closing : m = n
    /\ Opening \cup Closing # {} => Within = {}

\* While nobody overlaps: the scopes of those within are united, what they may
\* keep is known, and what is still to be put back is known too.
LeakInv ==
  ~ overlapped =>
    /\ \A n \in Within : Allowed[n] \subseteq allowed
    /\ allowed \subseteq UNION {Allowed[m] : m \in Node}
    /\ before # Undefined => before \subseteq Fine
    /\ Within \cup Judging # {} => Kept \subseteq KnownBefore \cup allowed
    /\ Kept \subseteq changed
    /\ \A n \in Node : stage[n] = "opened" => Kept \subseteq snap[n] /\ snap[n] \subseteq Fine
    /\ \A n \in Node : stage[n] = "checking" => snap[n] = changed \cap Outside
    /\ \A n \in Node : stage[n] = "rolling" =>
         snap[n] \cap Kept = {} /\ changed \cap Outside \subseteq Fine \cup snap[n]
    /\ Within = {} /\ Closing = {} => changed \cap Outside \subseteq Fine

-----------------------------------------------------------------------------
(* Types.                                                                  *)

\* What Go does to one node.
LEMMA Going ==
  ASSUME stage \in [Node -> Stages], NEW n \in Node, NEW s \in Stages, Go(n, s)
  PROVE  /\ stage' \in [Node -> Stages]
         /\ stage'[n] = s
         /\ \A m \in Node \ {n} : stage'[m] = stage[m]
  BY DEF Go

\* Who is inside the bracket afterwards.
LEMMA WithinNow ==
  ASSUME stage \in [Node -> Stages], NEW n \in Node, NEW s \in Stages, Go(n, s)
  PROVE  Within' = IF s \in {"entered", "inside", "reviewing", "loose"}
                   THEN Within \cup {n} ELSE Within \ {n}
  BY Going DEF Within

\* max_parallel is what it was: the run has a group, or has none.
LEMMA SameMode ==
  ASSUME [Next]_vars
  PROVE  cap' = cap /\ (Grouped' <=> Grouped)
<1>1. cap' = cap
  BY DEF Next, vars, Enter, EnterAlone, Sees, Open, Begin, Return, Reject, Pass, End, Throw,
     EndLoose, Check, Write, RollBack
<1> QED
  BY <1>1 DEF Grouped

\* There are finitely many nodes inside the bracket at any time.
LEMMA WithinIsFinite ==
  /\ IsFiniteSet(Within)
  /\ Cardinality(Within) \in Nat
  /\ Within = {} <=> Cardinality(Within) = 0
<1>1. Within \subseteq Node /\ IsFiniteSet(Node)
  BY NodesAssumption DEF Within
<1>2. IsFiniteSet(Within)
  BY <1>1, FS_Subset
<1> QED
  BY <1>2, FS_CardinalityType, FS_EmptySet

\* The stages of the nodes at work, with a group and without.
Working(s) == IF Grouped THEN s \in {"entered", "inside", "reviewing", "loose"}
                         ELSE s \notin {"idle", "out"}

\* Who is at work afterwards.
LEMMA AtWorkNow ==
  ASSUME stage \in [Node -> Stages], cap' = cap, NEW n \in Node, NEW s \in Stages, Go(n, s)
  PROVE  /\ AtWork' = IF Working(s) THEN AtWork \cup {n} ELSE AtWork \ {n}
         /\ n \in AtWork <=> Working(stage[n])
         /\ Grouped' <=> Grouped
<1>1. Grouped' <=> Grouped
  BY DEF Grouped
<1>2. CASE Grouped
  <2>1. AtWork = Within /\ AtWork' = Within'
    BY <1>1, <1>2 DEF AtWork
  <2>2. n \in Within <=> Working(stage[n])
    BY <1>2 DEF Within, Working
  <2> QED
    BY <1>1, <1>2, <2>1, <2>2, WithinNow DEF Working
<1>3. CASE ~ Grouped
  <2>1. AtWork = Started /\ AtWork' = Started'
    BY <1>1, <1>3 DEF AtWork
  <2>2. n \in Started <=> Working(stage[n])
    BY <1>3 DEF Started, Working
  <2>3. Started' = IF s \notin {"idle", "out"} THEN Started \cup {n} ELSE Started \ {n}
    BY Going DEF Started
  <2> QED
    BY <1>1, <1>3, <2>1, <2>2, <2>3 DEF Working
<1> QED
  BY <1>2, <1>3

\* What TypeOK says of the stages and the counts.
Counted == /\ stage \in [Node -> Stages]
           /\ depth = IF Grouped THEN Cardinality(Within) ELSE 0
           /\ running = AtWork

\* A node that is at work as it was.
LEMMA Remains ==
  ASSUME TypeOK, cap' = cap, NEW n \in Node, NEW s \in Stages, Go(n, s),
         Working(stage[n]) <=> Working(s), UNCHANGED <<depth, running>>
  PROVE  Counted'
<1>1. AtWork' = AtWork /\ stage' \in [Node -> Stages] /\ (Grouped' <=> Grouped)
  BY AtWorkNow, Going DEF TypeOK
<1>2. Grouped => Within' = Within
  BY <1>1 DEF AtWork
<1> QED
  BY <1>1, <1>2 DEF Counted, TypeOK

\* A node comes to work.
LEMMA Arrives ==
  ASSUME TypeOK, cap' = cap, NEW n \in Node, n \notin AtWork, NEW s \in Stages, Go(n, s),
         Working(s), EnterScopes(n), depth' = IF Grouped THEN depth + 1 ELSE depth
  PROVE  /\ Counted'
         /\ bracket' \subseteq Node
         /\ epoch' \in Nat /\ epochOf' \in [Node -> 0 .. epoch']
<1>1. /\ AtWork' = AtWork \cup {n} /\ stage' \in [Node -> Stages]
      /\ Grouped' <=> Grouped
  BY AtWorkNow, Going DEF TypeOK
<1>2. Grouped => n \notin Within /\ Within' = Within \cup {n}
  BY <1>1 DEF AtWork
<1>3. n \notin Within => Cardinality(Within \cup {n}) = Cardinality(Within) + 1
  BY WithinIsFinite, FS_AddElement
<1>4. depth' = IF Grouped' THEN Cardinality(Within') ELSE 0
  BY <1>1, <1>2, <1>3 DEF TypeOK
<1>5. running' = AtWork' /\ bracket' \subseteq Node
  BY <1>1 DEF EnterScopes, BracketWith, TypeOK
<1>6. epoch' \in Nat /\ epoch' >= epoch
  BY DEF EnterScopes, TypeOK
<1>7. epochOf' \in [Node -> 0 .. epoch']
  BY <1>6 DEF EnterScopes, TypeOK
<1> QED
  BY <1>1, <1>4, <1>5, <1>6, <1>7 DEF Counted

\* A node leaves the bracket of the group: the last one goes on to close it.
LEMMA Departs ==
  ASSUME TypeOK, Grouped, cap' = cap, NEW n \in Node, n \in Within, Leave(n)
  PROVE  /\ Counted'
         /\ Go(n, stage'[n])
         /\ stage'[n] = IF Within \ {n} = {} THEN "closing" ELSE "out"
         /\ Within' = Within \ {n}
         /\ crossed' \in BOOLEAN
<1>0. Grouped' /\ AtWork = Within /\ AtWork' = Within'
  BY DEF Grouped, AtWork
<1>1. Cardinality(Within \ {n}) = Cardinality(Within) - 1
  BY WithinIsFinite, FS_RemoveElement
<1>2. /\ IsFiniteSet(Within \ {n}) /\ Cardinality(Within \ {n}) \in Nat
      /\ Within \ {n} = {} <=> Cardinality(Within \ {n}) = 0
  BY WithinIsFinite, FS_RemoveElement, FS_CardinalityType, FS_EmptySet
<1>3. depth' = Cardinality(Within \ {n})
  BY <1>1 DEF Leave, TypeOK
<1> DEFINE s == IF depth' > 0 THEN "out" ELSE "closing"
<1>4. s \in Stages /\ s \notin {"entered", "inside", "reviewing", "loose"} /\ Go(n, s)
  BY DEF Leave, Stages
<1>5. s = IF Within \ {n} = {} THEN "closing" ELSE "out"
  BY <1>2, <1>3
<1> HIDE DEF s
<1>6. stage' \in [Node -> Stages] /\ stage'[n] = s /\ Within' = Within \ {n}
  BY <1>4, Going, WithinNow DEF TypeOK
<1>7. running' = AtWork' /\ crossed' \in BOOLEAN
  BY <1>0, <1>6 DEF Leave, TypeOK
<1> QED
  BY <1>0, <1>3, <1>4, <1>5, <1>6, <1>7 DEF Counted

\* Without a group: a node ends.
LEMMA EndsAlone ==
  ASSUME TypeOK, ~ Grouped, cap' = cap, NEW n \in Node, Out(n), depth' = depth
  PROVE  /\ Counted'
         /\ stage'[n] = "out" /\ \A m \in Node \ {n} : stage'[m] = stage[m]
<1>1. Go(n, "out") /\ "out" \in Stages /\ ~ Working("out")
  BY DEF Out, Stages, Working
<1>2. AtWork' = AtWork \ {n} /\ ~ Grouped'
  BY <1>1, AtWorkNow DEF TypeOK
<1>3. /\ stage' \in [Node -> Stages] /\ stage'[n] = "out"
      /\ \A m \in Node \ {n} : stage'[m] = stage[m]
  BY <1>1, Going DEF TypeOK
<1> QED
  BY <1>2, <1>3 DEF Out, TypeOK, Counted

\* The end of a call, with a group or without.
LEMMA CallEnded ==
  ASSUME TypeOK, cap' = cap, NEW n \in Node, n \in Within, CallEnds(n)
  PROVE  /\ Counted' /\ Go(n, stage'[n])
         /\ stage'[n] \in {"closing", "out"}
         /\ crossed' \in BOOLEAN
         /\ UNCHANGED <<bracket, epoch, epochOf, before, allowed, overlapped>>
<1>1. CASE Grouped
  <2>1. Leave(n)
    BY <1>1 DEF CallEnds
  <2> QED
    BY <1>1, <2>1, Departs DEF Leave
<1>2. CASE ~ Grouped
  <2>1. Go(n, "closing") /\ UNCHANGED <<group, scopes, history>>
    BY <1>2 DEF CallEnds
  <2>2. "closing" \in Stages /\ Working("closing") /\ Working(stage[n])
    BY <1>2 DEF Within, Stages, Working
  <2>3. Counted'
    BY <2>1, <2>2, Remains DEF group, scopes
  <2>4. stage'[n] = "closing"
    BY <2>1, <2>2, Going DEF TypeOK
  <2> QED
    BY <2>1, <2>3, <2>4 DEF TypeOK, group, scopes, history
<1> QED
  BY <1>1, <1>2

\* The end of what no call encloses.
LEMMA LooseEnded ==
  ASSUME TypeOK, cap' = cap, NEW n \in Node, EndLoose(n)
  PROVE  /\ Counted' /\ Go(n, stage'[n])
         /\ stage'[n] \in {"closing", "out"}
         /\ crossed' \in BOOLEAN
         /\ UNCHANGED <<bracket, epoch, epochOf, before, allowed, overlapped>>
<1>1. n \in Within
  BY DEF EndLoose, Within
<1>2. CASE Grouped
  <2>1. Leave(n)
    BY <1>2 DEF EndLoose
  <2> QED
    BY <1>1, <1>2, <2>1, Departs DEF Leave
<1>3. CASE ~ Grouped
  <2>1. Out(n) /\ UNCHANGED <<group, history>>
    BY <1>3 DEF EndLoose
  <2> QED
    BY <1>3, <2>1, EndsAlone DEF Out, TypeOK, group, history
<1> QED
  BY <1>2, <1>3

\* The end of a node that is judged.
LEMMA JudgedEnds ==
  ASSUME TypeOK, cap' = cap, NEW n \in Node, stage[n] \in {"checking", "rolling"},
         JudgedOut(n), depth' = depth
  PROVE  Counted' /\ Go(n, "out") /\ UNCHANGED <<bracket, epoch, epochOf>>
<1>1. CASE Grouped
  <2>1. Go(n, "out") /\ UNCHANGED scopes
    BY <1>1 DEF JudgedOut
  <2>2. ~ Working(stage[n]) /\ ~ Working("out") /\ "out" \in Stages
    BY <1>1 DEF Working, Stages
  <2> QED
    BY <2>1, <2>2, Remains DEF scopes
<1>2. CASE ~ Grouped
  <2>1. Out(n)
    BY <1>2 DEF JudgedOut
  <2> QED
    BY <1>2, <2>1, EndsAlone DEF Out
<1> QED
  BY <1>1, <1>2

\* A run begins with values of the types.
LEMMA TypeInit == Init => TypeOK
<1> SUFFICES ASSUME Init PROVE TypeOK
  OBVIOUS
<1>1. Within = {} /\ AtWork = {} /\ Cardinality({}) = 0
  BY FS_EmptySet DEF Init, Within, Started, AtWork
<1>2. stage \in [Node -> Stages]
  BY DEF Init, Stages
<1>3. changed \subseteq Path
  BY PathsAssumption DEF Init, Path
<1>4. (depth = IF Grouped THEN Cardinality(Within) ELSE 0) /\ running = AtWork
  BY <1>1 DEF Init
<1>5. epochOf \in [Node -> 0 .. epoch] /\ epoch \in Nat
  BY DEF Init
<1>6. /\ snap \in [Node -> SUBSET Path] /\ base \in [Node -> SUBSET Inside]
      /\ wrote \in [Node -> SUBSET Path] /\ loose \in [Node -> SUBSET Path]
  BY DEF Init
<1>7. flagged \subseteq Scoped /\ passed \subseteq Scoped /\ bracket \subseteq Node
      /\ allowed \subseteq Path /\ before = Undefined /\ cap \in Caps
      /\ overlapped \in BOOLEAN /\ crossed \in BOOLEAN
  BY DEF Init
<1> QED
  BY <1>2, <1>3, <1>4, <1>5, <1>6, <1>7 DEF TypeOK

\* The subsets that the checks keep of a snapshot are paths too.
LEMMA PathsOfTypes ==
  /\ \A n \in Node : Allowed[n] \subseteq Path
  /\ Outside \subseteq Path /\ Inside \subseteq Path
  BY ScopesAssumption DEF Path

\* A step keeps them.
LEMMA TypeStep ==
  ASSUME TypeOK, SnapInv, [Next]_vars
  PROVE  TypeOK'
<1>c. cap' = cap
  BY SameMode
<1>0. CASE UNCHANGED vars
  BY <1>0 DEF vars, TypeOK, Within, Started, AtWork, Grouped
<1>1. ASSUME NEW n \in Node, Enter(n) PROVE TypeOK'
  <2>0. overlapped' \in BOOLEAN /\ crossed' \in BOOLEAN /\ Grouped /\ stage[n] = "idle"
    BY <1>1 DEF Enter, MayStart
  <2>1. CASE depth > 0
    <3>1. n \notin AtWork /\ Working("entered") /\ "entered" \in Stages
      BY <2>0 DEF Within, AtWork, Working, Stages
    <3>2. Go(n, "entered") /\ EnterScopes(n) /\ depth' = depth + 1
      BY <1>1, <2>1 DEF Enter
    <3>3. allowed' \subseteq Path /\ before' = before
      BY <1>1, <2>1, PathsOfTypes DEF Enter, TypeOK
    <3>4. Counted' /\ bracket' \subseteq Node /\ epoch' \in Nat /\ epochOf' \in [Node -> 0 .. epoch']
      BY <1>c, <2>0, <3>1, <3>2, Arrives
    <3> QED
      BY <1>1, <1>c, <2>0, <3>3, <3>4 DEF Enter, TypeOK, files, Counted
  <2>2. CASE ~ depth > 0
    <3>1. ~ Working(stage[n]) /\ ~ Working("opening") /\ "opening" \in Stages
      BY <2>0 DEF Working, Stages
    <3>2. Go(n, "opening") /\ UNCHANGED <<group, scopes>>
      BY <1>1, <2>2 DEF Enter
    <3>3. Counted'
      BY <1>c, <3>1, <3>2, Remains DEF group, scopes
    <3> QED
      BY <1>1, <1>c, <2>0, <3>2, <3>3 DEF Enter, TypeOK, files, group, scopes, Counted
  <2> QED
    BY <2>1, <2>2
<1>2. ASSUME NEW n \in Node, EnterAlone(n) PROVE TypeOK'
  <2>1. /\ ~ Grouped /\ stage[n] = "idle" /\ EnterScopes(n)
        /\ UNCHANGED <<passed, files, group, snap, base, flagged, history>>
    BY <1>2 DEF EnterAlone, MayStart
  <2>2. PICK s \in {"opening", "loose"} : Go(n, s)
    BY <1>2 DEF EnterAlone
  <2>3. s \in Stages /\ Working(s) /\ n \notin AtWork
    BY <2>1 DEF Working, Stages, AtWork, Started
  <2>4. Counted' /\ bracket' \subseteq Node /\ epoch' \in Nat /\ epochOf' \in [Node -> 0 .. epoch']
    BY <1>c, <2>1, <2>2, <2>3, Arrives DEF group
  <2> QED
    BY <1>c, <2>1, <2>4 DEF TypeOK, files, group, history, Counted
<1>3. ASSUME NEW n \in Node, Sees(n, "opening", "opened") \/ Sees(n, "closing", "checking")
      PROVE  TypeOK'
  <2>1. PICK s \in {"opened", "checking"} : Go(n, s)
    BY <1>3 DEF Sees
  <2>2. s \in Stages /\ (Working(stage[n]) <=> Working(s))
    BY <1>3, <2>1 DEF Sees, Working, Stages
  <2>3. Counted'
    BY <1>3, <1>c, <2>1, <2>2, Remains DEF Sees, group, scopes
  <2>4. snap' \in [Node -> SUBSET Path]
    BY <1>3, PathsOfTypes DEF Sees, TypeOK
  <2> QED
    BY <1>3, <1>c, <2>3, <2>4 DEF Sees, TypeOK, files, group, scopes, history, Counted
<1>4. ASSUME NEW n \in Node, Open(n) PROVE TypeOK'
  <2>1. before' \subseteq Outside /\ allowed' \subseteq Path
    BY <1>4, PathsOfTypes DEF Open, SnapInv, SnapshotOf
  <2>2. "entered" \in Stages /\ Go(n, "entered") /\ stage[n] = "opened"
    BY <1>4 DEF Open, Stages
  <2>3. CASE Grouped
    <3>1. n \notin AtWork /\ Working("entered") /\ EnterScopes(n) /\ depth' = depth + 1
      BY <1>4, <2>3 DEF Open, OneMore, Within, AtWork, Working
    <3>2. Counted' /\ bracket' \subseteq Node /\ epoch' \in Nat /\ epochOf' \in [Node -> 0 .. epoch']
      BY <1>c, <2>2, <2>3, <3>1, Arrives
    <3> QED
      BY <1>4, <1>c, <2>1, <3>2 DEF Open, TypeOK, files, history, Counted
  <2>4. CASE ~ Grouped
    <3>1. Working(stage[n]) /\ Working("entered") /\ UNCHANGED <<depth, scopes>>
      BY <1>4, <2>4 DEF Open, Working
    <3>2. Counted'
      BY <1>c, <2>2, <3>1, Remains DEF scopes
    <3> QED
      BY <1>4, <1>c, <2>1, <3>1, <3>2 DEF Open, TypeOK, files, scopes, history, Counted
  <2> QED
    BY <2>3, <2>4
<1>5. ASSUME NEW n \in Node, Begin(n) PROVE TypeOK'
  <2>1. Working(stage[n]) /\ Working("inside") /\ Go(n, "inside") /\ "inside" \in Stages
    BY <1>5 DEF Begin, Working, Stages
  <2>2. Counted'
    BY <1>5, <1>c, <2>1, Remains DEF Begin, group, scopes
  <2>3. base' \in [Node -> SUBSET Inside]
    BY <1>5 DEF Begin, TypeOK
  <2> QED
    BY <1>5, <1>c, <2>2, <2>3 DEF Begin, TypeOK, files, group, scopes, history, Counted
<1>6. ASSUME NEW n \in Node, NEW p \in Path, Write(n, p) PROVE TypeOK'
  <2>1. changed' \subseteq Path /\ wrote' \in [Node -> SUBSET Path]
        /\ loose' \in [Node -> SUBSET Path]
    BY <1>6 DEF Write, TypeOK
  <2>2. Within' = Within /\ AtWork' = AtWork /\ (Grouped' <=> Grouped)
    BY <1>6 DEF Write, Within, AtWork, Started, Grouped
  <2> QED
    BY <1>6, <2>1, <2>2 DEF Write, TypeOK, group, scopes, history
<1>7. ASSUME NEW n \in Node, Return(n) PROVE TypeOK'
  <2>1. Working(stage[n]) /\ Working("reviewing") /\ Go(n, "reviewing") /\ "reviewing" \in Stages
    BY <1>7 DEF Return, Working, Stages
  <2>2. Counted'
    BY <1>7, <1>c, <2>1, Remains DEF Return, group, scopes
  <2>3. snap' \in [Node -> SUBSET Path]
    BY <1>7, PathsOfTypes DEF Return, TypeOK
  <2> QED
    BY <1>7, <1>c, <2>2, <2>3 DEF Return, TypeOK, files, group, scopes, history, Counted
<1>8. ASSUME NEW n \in Node, Reject(n) PROVE TypeOK'
  <2>1. n \in Within /\ Working(stage[n])
    BY <1>8 DEF Reject, Within, Working
  <2>2. flagged' \subseteq Scoped
    BY <1>8 DEF Reject, SnapInv, TypeOK
  <2>3. base' \in [Node -> SUBSET Inside]
    BY <1>8 DEF Reject, SnapInv, TypeOK
  <2>4. CASE Go(n, "inside") /\ UNCHANGED <<group, scopes, history>>
    <3>1. Working("inside") /\ "inside" \in Stages
      BY DEF Working, Stages
    <3>2. Counted'
      BY <1>c, <2>1, <2>4, <3>1, Remains DEF group, scopes
    <3> QED
      BY <1>8, <1>c, <2>2, <2>3, <2>4, <3>2
      DEF Reject, TypeOK, files, group, scopes, history, Counted
  <2>5. CASE CallEnds(n)
    <3>1. /\ Counted' /\ crossed' \in BOOLEAN
          /\ UNCHANGED <<bracket, epoch, epochOf, before, allowed, overlapped>>
      BY <1>c, <2>1, <2>5, CallEnded
    <3> QED
      BY <1>8, <1>c, <2>2, <2>3, <3>1 DEF Reject, TypeOK, files, Counted
  <2> QED
    BY <1>8, <2>4, <2>5 DEF Reject
<1>9. ASSUME NEW n \in Node, Pass(n) PROVE TypeOK'
  <2>1. n \in Within /\ Working(stage[n])
    BY <1>9 DEF Pass, Within, Working
  <2>2. passed' \subseteq Scoped
    BY <1>9 DEF Pass, SnapInv, TypeOK
  <2>3. CASE CallEnds(n)
    <3>1. /\ Counted' /\ crossed' \in BOOLEAN
          /\ UNCHANGED <<bracket, epoch, epochOf, before, allowed, overlapped>>
      BY <1>c, <2>1, <2>3, CallEnded
    <3> QED
      BY <1>9, <1>c, <2>2, <3>1 DEF Pass, TypeOK, files, Counted
  <2>4. CASE HumanRound(n) /\ UNCHANGED <<before, allowed>>
    <3>1. Working("loose") /\ "loose" \in Stages
      BY DEF Working, Stages
    <3>2. Counted'
      BY <1>c, <2>1, <2>4, <3>1, Remains DEF HumanRound, scopes
    <3> QED
      BY <1>9, <1>c, <2>2, <2>4, <3>2
      DEF Pass, HumanRound, TypeOK, files, scopes, history, Counted
  <2> QED
    BY <1>9, <2>3, <2>4 DEF Pass
<1>10. ASSUME NEW n \in Node, End(n) PROVE TypeOK'
  <2>1. n \in Within /\ CallEnds(n)
    BY <1>10 DEF End, Within
  <2>2. /\ Counted' /\ crossed' \in BOOLEAN
        /\ UNCHANGED <<bracket, epoch, epochOf, before, allowed, overlapped>>
    BY <1>c, <2>1, CallEnded
  <2> QED
    BY <1>10, <1>c, <2>2 DEF End, TypeOK, files, Counted
<1>11. ASSUME NEW n \in Node, Throw(n) PROVE TypeOK'
  <2>1. Counted'
    BY <1>11, <1>c, EndsAlone DEF Throw
  <2>2. loose' \in [Node -> SUBSET Path]
    BY <1>11 DEF Throw, TypeOK
  <2> QED
    BY <1>11, <1>c, <2>1, <2>2 DEF Throw, Out, TypeOK, history, Counted
<1>12. ASSUME NEW n \in Node, EndLoose(n) PROVE TypeOK'
  <2>1. /\ Counted' /\ crossed' \in BOOLEAN
        /\ UNCHANGED <<bracket, epoch, epochOf, before, allowed, overlapped>>
    BY <1>12, <1>c, LooseEnded
  <2> QED
    BY <1>12, <1>c, <2>1 DEF EndLoose, TypeOK, files, Counted
<1>13. ASSUME NEW n \in Node, Check(n) PROVE TypeOK'
  <2>1. snap' \in [Node -> SUBSET Path]
    BY <1>13 DEF Check, Leaks, TypeOK
  <2>2. /\ UNCHANGED <<passed, files, base, flagged, depth, history>>
        /\ before' = Undefined /\ allowed' = {} /\ stage[n] = "checking"
    BY <1>13 DEF Check, HumanRound
  <2>3. Counted' /\ UNCHANGED <<bracket, epoch, epochOf>>
    <3>1. CASE JudgedOut(n)
      BY <1>c, <2>2, <3>1, JudgedEnds
    <3>2. CASE Go(n, "rolling") /\ UNCHANGED scopes
      <4>1. (Working(stage[n]) <=> Working("rolling")) /\ "rolling" \in Stages
        BY <2>2 DEF Working, Stages
      <4> QED
        BY <1>c, <2>2, <3>2, <4>1, Remains DEF scopes
    <3>3. CASE ~ Grouped /\ HumanRound(n)
      <4>1. Working(stage[n]) /\ Working("loose") /\ "loose" \in Stages
        BY <2>2, <3>3 DEF Working, Stages
      <4> QED
        BY <1>c, <2>2, <3>3, <4>1, Remains DEF HumanRound, scopes
    <3> QED
      BY <1>13, <3>1, <3>2, <3>3 DEF Check
  <2> QED
    BY <1>c, <2>1, <2>2, <2>3 DEF TypeOK, files, history, Counted
<1>14. ASSUME NEW n \in Node, NEW p \in Path, RollBack(n, p) PROVE TypeOK'
  <2>1. snap' \in [Node -> SUBSET Path] /\ changed' \subseteq Path
    BY <1>14 DEF RollBack, Rollback, TypeOK
  <2>2. Counted' /\ UNCHANGED <<bracket, epoch, epochOf>>
    <3>1. CASE JudgedOut(n)
      BY <1>14, <1>c, <3>1, JudgedEnds DEF RollBack, group
    <3>2. CASE UNCHANGED <<stage, scopes>>
      <4>1. Within' = Within /\ AtWork' = AtWork /\ (Grouped' <=> Grouped)
        BY <1>c, <3>2 DEF Within, AtWork, Started, Grouped
      <4> QED
        BY <1>14, <3>2, <4>1 DEF RollBack, TypeOK, Counted, group, scopes
    <3> QED
      BY <1>14, <3>1, <3>2 DEF RollBack
  <2> QED
    BY <1>14, <1>c, <2>1, <2>2 DEF RollBack, TypeOK, group, history, Counted
<1> QED
  BY <1>0, <1>1, <1>2, <1>3, <1>4, <1>5, <1>6, <1>7, <1>8, <1>9, <1>10, <1>11, <1>12,
     <1>13, <1>14
  DEF Next

\* What a snapshot is about changes only with the snapshot and the stage.
LEMMA SnapStep ==
  ASSUME TypeOK, SnapInv, [Next]_vars
  PROVE  SnapInv'
<1>a. ASSUME NEW n \in Node, NEW s \in Stages, Go(n, s), UNCHANGED snap,
             s \in {"opened", "checking", "rolling"} => snap[n] \subseteq Outside,
             s = "reviewing" => n \in Scoped /\ snap[n] \subseteq Inside
      PROVE  SnapInv'
  BY <1>a, Going DEF TypeOK, SnapInv
<1>b. ASSUME NEW n \in Node, NEW s \in Stages, Go(n, s), NEW seen,
             snap' = [snap EXCEPT ![n] = seen],
             s \in {"opened", "checking", "rolling"} => seen \subseteq Outside,
             s = "reviewing" => n \in Scoped /\ seen \subseteq Inside
      PROVE  SnapInv'
  <2>1. snap'[n] = seen /\ \A m \in Node \ {n} : snap'[m] = snap[m]
    BY <1>b DEF TypeOK
  <2>2. stage'[n] = s /\ \A m \in Node \ {n} : stage'[m] = stage[m]
    BY <1>b, Going DEF TypeOK
  <2> QED
    BY <1>b, <2>1, <2>2 DEF SnapInv
<1>0. CASE UNCHANGED vars
  BY <1>0 DEF vars, SnapInv
<1>1. ASSUME NEW n \in Node, Enter(n) PROVE SnapInv'
  BY <1>1, <1>a DEF Enter, Stages
<1>2. ASSUME NEW n \in Node, EnterAlone(n) PROVE SnapInv'
  BY <1>2, <1>a DEF EnterAlone, Stages
<1>3. ASSUME NEW n \in Node, Sees(n, "opening", "opened") PROVE SnapInv'
  BY <1>3, <1>b DEF Sees, Stages
<1>4. ASSUME NEW n \in Node, Open(n) PROVE SnapInv'
  BY <1>4, <1>a DEF Open, Stages
<1>5. ASSUME NEW n \in Node, Begin(n) PROVE SnapInv'
  BY <1>5, <1>a DEF Begin, Stages
<1>6. ASSUME NEW n \in Node, NEW p \in Path, Write(n, p) PROVE SnapInv'
  BY <1>6 DEF Write, SnapInv
<1>7. ASSUME NEW n \in Node, Return(n) PROVE SnapInv'
  BY <1>7, <1>b DEF Return, Stages
<1>c. ASSUME NEW n \in Node, n \in Within, CallEnds(n), UNCHANGED snap, cap' = cap
      PROVE  SnapInv'
  <2>1. Go(n, stage'[n]) /\ stage'[n] \in {"closing", "out"}
    BY <1>c, CallEnded
  <2> QED
    BY <1>a, <1>c, <2>1 DEF Stages
<1>8. ASSUME NEW n \in Node, Reject(n) PROVE SnapInv'
  <2>1. CASE Go(n, "inside")
    BY <1>8, <2>1, <1>a DEF Reject, Stages
  <2>2. CASE CallEnds(n)
    BY <1>8, <2>2, <1>c DEF Reject, Within
  <2> QED
    BY <1>8, <2>1, <2>2 DEF Reject
<1>9. ASSUME NEW n \in Node, Pass(n) PROVE SnapInv'
  <2>1. CASE CallEnds(n)
    BY <1>9, <2>1, <1>c DEF Pass, Within
  <2>2. CASE Go(n, "loose")
    BY <1>9, <2>2, <1>a DEF Pass, Stages
  <2> QED
    BY <1>9, <2>1, <2>2 DEF Pass, HumanRound
<1>10. ASSUME NEW n \in Node, End(n) PROVE SnapInv'
  BY <1>10, <1>c DEF End, Within
<1>11. ASSUME NEW n \in Node, Throw(n) PROVE SnapInv'
  BY <1>11, <1>a DEF Throw, Out, Stages
<1>12. ASSUME NEW n \in Node, EndLoose(n) PROVE SnapInv'
  <2>1. Go(n, stage'[n]) /\ stage'[n] \in {"closing", "out"} /\ UNCHANGED snap
    BY <1>12, LooseEnded DEF EndLoose
  <2> QED
    BY <1>a, <2>1 DEF Stages
<1>13. ASSUME NEW n \in Node, Sees(n, "closing", "checking") PROVE SnapInv'
  BY <1>13, <1>b DEF Sees, Stages
<1>14. ASSUME NEW n \in Node, Check(n) PROVE SnapInv'
  <2>1. Leaks(n) \subseteq Outside
    BY <1>14 DEF Check, SnapInv, Leaks
  <2>2. \E s \in Stages : Go(n, s) /\ s # "reviewing"
    BY <1>14 DEF Check, JudgedOut, Out, HumanRound, Stages
  <2> QED
    BY <1>14, <2>1, <2>2, <1>b DEF Check
<1>15. ASSUME NEW n \in Node, NEW p \in Path, RollBack(n, p) PROVE SnapInv'
  <2>1. snap[n] \ {p} \subseteq Outside
    BY <1>15 DEF RollBack, SnapInv
  <2>2. snap' = [snap EXCEPT ![n] = snap[n] \ {p}]
    BY <1>15 DEF RollBack
  <2>3. CASE Go(n, "out")
    BY <2>1, <2>2, <2>3, <1>b DEF Stages
  <2>4. CASE stage' = stage
    <3>1. \A m \in Node : snap'[m] \subseteq snap[m]
      BY <2>2 DEF TypeOK
    <3> QED
      BY <2>4, <3>1 DEF SnapInv
  <2> QED
    BY <1>15, <2>3, <2>4 DEF RollBack, JudgedOut, Out
<1> QED
  BY <1>0, <1>1, <1>2, <1>3, <1>4, <1>5, <1>6, <1>7, <1>8, <1>9, <1>10, <1>11, <1>12,
     <1>13, <1>14, <1>15
  DEF Next

\* The types, and with them what the snapshots are of.
Types == TypeOK /\ SnapInv

\* The types and what is inside, at the beginning ...
LEMMA TypesInit == Init => Types
  BY TypeInit DEF Types, SnapInv, Init

\* ... and after a step.
LEMMA TypesStep == Types /\ [Next]_vars => Types'
  BY TypeStep, SnapStep DEF Types

-----------------------------------------------------------------------------
(* Epochs.                                                                 *)

\* No epoch has begun at the beginning ...
LEMMA EpochInit == Init => EpochInv
<1> SUFFICES ASSUME Init PROVE EpochInv
  OBVIOUS
<1>1. AtWork = {}
  BY DEF Init, AtWork, Within, Started
<1>2. \A m \in Node : stage[m] \in Early
  BY DEF Init, Early
<1> QED
  BY <1>1, <1>2 DEF Init, EpochInv

\* Who is at work has entered.
LEMMA WorkIsLater ==
  ASSUME stage \in [Node -> Stages]
  PROVE  /\ \A n \in AtWork : n \in Node /\ stage[n] \notin Early
         /\ \A n \in Node : stage[n] \in {"entered", "inside", "reviewing", "loose"} => n \in AtWork
  BY DEF AtWork, Within, Started, Early

\* bracketScopes and the epoch while a node comes in.
LEMMA ArrivesInTime ==
  ASSUME Types, EpochInv, cap' = cap, NEW n \in Node, NEW s \in Stages, Go(n, s),
         Working(s), EnterScopes(n)
  PROVE  /\ epochOf'[n] = epoch' /\ epoch' # 0
         /\ \A m \in Node \ {n} : epochOf'[m] = epochOf[m]
         /\ n \in bracket' /\ bracket' \ {n} \subseteq bracket
         /\ AtWork # {} => epoch' = epoch /\ bracket \subseteq bracket'
         /\ AtWork = {} => bracket' = {n}
         /\ AtWork' = AtWork \cup {n}
<1>1. running = AtWork
  BY DEF Types, TypeOK
<1>2. epochOf'[n] = epoch' /\ \A m \in Node \ {n} : epochOf'[m] = epochOf[m]
  BY DEF EnterScopes, Types, TypeOK
<1>3. AtWork' = AtWork \cup {n}
  BY AtWorkNow DEF Types, TypeOK
<1>4. CASE AtWork = {}
  <2>1. epoch' = epoch + 1 /\ epoch \in Nat
    BY <1>1, <1>4 DEF EnterScopes, Types, TypeOK
  <2>2. bracket' = {n}
    BY <1>1, <1>4 DEF EnterScopes, BracketWith
  <2> QED
    BY <1>2, <1>3, <1>4, <2>1, <2>2
<1>5. CASE AtWork # {}
  <2>1. epoch' = epoch /\ bracket' = bracket \cup {n}
    BY <1>1, <1>5 DEF EnterScopes, BracketWith
  <2>2. PICK m \in AtWork : TRUE
    BY <1>5
  <2>3. m \in Node /\ stage[m] \notin Early /\ epochOf[m] = epoch
    BY <2>2, WorkIsLater DEF EpochInv, Types, TypeOK
  <2>4. epoch # 0
    BY <2>3 DEF EpochInv
  <2> QED
    BY <1>2, <1>3, <1>5, <2>1, <2>4
<1> QED
  BY <1>4, <1>5

\* Where a judgement leads.
LEMMA CheckMoves ==
  ASSUME Types, NEW n \in Node, Check(n)
  PROVE  \E s \in {"out", "rolling", "loose"} :
           /\ Go(n, s) /\ (s = "loose" => ~ Grouped)
           /\ UNCHANGED <<bracket, epoch, epochOf>>
  BY DEF Check, JudgedOut, Out, HumanRound, scopes

\* Where a rollback leads.
LEMMA RollBackMoves ==
  ASSUME Types, NEW n \in Node, NEW p \in Path, RollBack(n, p)
  PROVE  \E s \in {"out", "rolling"} : Go(n, s) /\ UNCHANGED <<bracket, epoch, epochOf>>
<1>1. CASE JudgedOut(n)
  BY <1>1 DEF JudgedOut, Out, scopes
<1>2. CASE UNCHANGED <<stage, scopes>>
  <2>1. stage' = [stage EXCEPT ![n] = "rolling"]
    BY <1>2 DEF RollBack, Types, TypeOK
  <2> QED
    BY <1>2, <2>1 DEF Go, scopes
<1> QED
  BY <1>1, <1>2 DEF RollBack

\* ... and a step leaves those at work in the same one.
LEMMA EpochStep ==
  ASSUME Types, EpochInv, [Next]_vars
  PROVE  EpochInv'
<1> USE DEF Types
<1>m. cap' = cap /\ (Grouped' <=> Grouped) /\ Early' = Early
  BY SameMode DEF Early
<1>w. /\ \A n \in AtWork : n \in Node /\ stage[n] \notin Early
      /\ \A n \in Node : stage[n] \in {"entered", "inside", "reviewing", "loose"} => n \in AtWork
  BY WorkIsLater DEF TypeOK
<1>a. ASSUME NEW n \in Node, NEW s \in Stages, Go(n, s), s \in Early, stage[n] \in Early,
             UNCHANGED <<bracket, epoch, epochOf, wrote, flagged, passed>>
      PROVE  EpochInv'
  <2>1. stage'[n] = s /\ \A m \in Node \ {n} : stage'[m] = stage[m]
    BY <1>a, Going DEF TypeOK
  <2>2. ~ Working(s)
    BY <1>a DEF Working, Early
  <2>3. AtWork' \subseteq AtWork
    BY <1>a, <1>m, <2>2, AtWorkNow DEF TypeOK
  <2> QED
    BY <1>a, <1>m, <2>1, <2>3 DEF EpochInv
<1>b. ASSUME NEW n \in Node, NEW s \in Stages, Go(n, s), s \notin Early, stage[n] \notin Early,
             UNCHANGED <<bracket, epoch, epochOf>>, Working(s) => n \in AtWork,
             \A m \in Node \ {n} : wrote'[m] = wrote[m],
             flagged' \subseteq flagged \cup {n}, passed' \subseteq passed \cup {n}
      PROVE  EpochInv'
  <2>1. stage'[n] = s /\ \A m \in Node \ {n} : stage'[m] = stage[m]
    BY <1>b, Going DEF TypeOK
  <2>2. AtWork' \subseteq AtWork
    BY <1>b, <1>m, AtWorkNow DEF TypeOK
  <2> QED
    BY <1>b, <1>m, <2>1, <2>2 DEF EpochInv
<1>c. ASSUME NEW n \in Node, stage[n] \in Early, NEW s \in Stages, Go(n, s), Working(s),
             EnterScopes(n), UNCHANGED <<wrote, flagged, passed>>
      PROVE  EpochInv'
  <2>0. s \notin Early
    BY <1>c DEF Working, Early
  <2>1. stage'[n] = s /\ \A m \in Node \ {n} : stage'[m] = stage[m]
    BY <1>c, Going DEF TypeOK
  <2>2. \A m \in AtWork' : epochOf'[m] = epoch' /\ m \in bracket'
    BY <1>c, <1>m, <1>w, ArrivesInTime DEF EpochInv
  <2>3. \A m \in bracket' : epochOf'[m] = epoch'
    BY <1>c, <1>m, ArrivesInTime DEF EpochInv, TypeOK
  <2>4. \A m \in Node : stage'[m] \in Early =>
          wrote'[m] = {} /\ m \notin flagged' \cup passed' /\ epochOf'[m] = 0
    BY <1>c, <1>m, <2>0, <2>1, ArrivesInTime DEF EpochInv
  <2>5. \A m \in Node : stage'[m] \notin Early => epochOf'[m] # 0
    BY <1>c, <1>m, <2>1, ArrivesInTime DEF EpochInv
  <2> QED
    BY <1>m, <2>2, <2>3, <2>4, <2>5 DEF EpochInv
<1>d. ASSUME NEW n \in Node, n \in Within, CallEnds(n), UNCHANGED wrote,
             flagged' \subseteq flagged \cup {n}, passed' \subseteq passed \cup {n}
      PROVE  EpochInv'
  <2>1. /\ Go(n, stage'[n]) /\ stage'[n] \in {"closing", "out"}
        /\ UNCHANGED <<bracket, epoch, epochOf>>
    BY <1>d, <1>m, CallEnded
  <2>2. stage'[n] \in Stages /\ stage'[n] \notin Early /\ n \in AtWork /\ stage[n] \notin Early
    BY <1>d, <1>w, <2>1 DEF Stages, Early, Within
  <2> QED
    BY <1>b, <1>d, <2>1, <2>2
<1>0. CASE UNCHANGED vars
  BY <1>0, <1>m DEF vars, EpochInv, AtWork, Within, Started
<1>1. ASSUME NEW n \in Node, Enter(n) PROVE EpochInv'
  <2>0. Grouped /\ stage[n] \in Early /\ "opening" \in Early /\ Working("entered")
    BY <1>1 DEF Enter, MayStart, Early, Working
  <2>1. CASE depth > 0
    BY <1>1, <2>0, <2>1, <1>c DEF Enter, files, Stages
  <2>2. CASE ~ depth > 0
    BY <1>1, <2>0, <2>2, <1>a DEF Enter, files, scopes, Stages
  <2> QED
    BY <2>1, <2>2
<1>2. ASSUME NEW n \in Node, EnterAlone(n) PROVE EpochInv'
  <2>1. PICK s \in {"opening", "loose"} : Go(n, s)
    BY <1>2 DEF EnterAlone
  <2>2. s \in Stages /\ stage[n] \in Early /\ Working(s)
    BY <1>2 DEF EnterAlone, MayStart, Early, Working, Stages
  <2> QED
    BY <1>2, <1>c, <2>1, <2>2 DEF EnterAlone, files
<1>3. ASSUME NEW n \in Node, Sees(n, "opening", "opened") PROVE EpochInv'
  <2>1. CASE Grouped
    BY <1>3, <1>a, <2>1 DEF Sees, Early, files, scopes, Stages
  <2>2. CASE ~ Grouped
    <3>1. n \in AtWork
      BY <1>3, <2>2 DEF Sees, AtWork, Started
    <3> QED
      BY <1>3, <1>b, <2>2, <3>1 DEF Sees, Early, files, scopes, Stages
  <2> QED
    BY <2>1, <2>2
<1>4. ASSUME NEW n \in Node, Open(n) PROVE EpochInv'
  <2>1. CASE Grouped
    BY <1>4, <1>c, <2>1 DEF Open, Early, Working, files, Stages
  <2>2. CASE ~ Grouped
    <3>1. n \in AtWork
      BY <1>4, <2>2 DEF Open, AtWork, Started
    <3> QED
      BY <1>4, <1>b, <2>2, <3>1 DEF Open, Early, files, scopes, Stages
  <2> QED
    BY <2>1, <2>2
<1>5. ASSUME NEW n \in Node, Begin(n) PROVE EpochInv'
  BY <1>5, <1>b, <1>w DEF Begin, Early, files, scopes, Stages
<1>6. ASSUME NEW n \in Node, NEW p \in Path, Write(n, p) PROVE EpochInv'
  <2>1. \A m \in Node \ {n} : wrote'[m] = wrote[m]
    BY <1>6 DEF Write, TypeOK
  <2>2. stage[n] \notin Early /\ AtWork' = AtWork
    BY <1>6, <1>m DEF Write, Early, AtWork, Within, Started
  <2> QED
    BY <1>6, <1>m, <2>1, <2>2 DEF Write, scopes, EpochInv
<1>7. ASSUME NEW n \in Node, Return(n) PROVE EpochInv'
  BY <1>7, <1>b, <1>w DEF Return, Early, files, scopes, Stages
<1>8. ASSUME NEW n \in Node, Reject(n) PROVE EpochInv'
  <2>0. n \in Within /\ stage[n] \notin Early /\ flagged' \subseteq flagged \cup {n} /\ n \in AtWork
    BY <1>8, <1>w DEF Reject, Within, Early
  <2>1. CASE Go(n, "inside") /\ UNCHANGED <<group, scopes, history>>
    BY <1>8, <2>0, <2>1, <1>b DEF Reject, Early, files, scopes, Stages
  <2>2. CASE CallEnds(n)
    BY <1>8, <2>0, <2>2, <1>d DEF Reject, files
  <2> QED
    BY <1>8, <2>1, <2>2 DEF Reject
<1>9. ASSUME NEW n \in Node, Pass(n) PROVE EpochInv'
  <2>0. n \in Within /\ stage[n] \notin Early /\ n \in AtWork
    BY <1>9, <1>w DEF Pass, Within, Early
  <2>1. CASE HumanRound(n)
    BY <1>9, <1>b, <2>0, <2>1 DEF Pass, HumanRound, Early, files, scopes, Stages
  <2>2. CASE CallEnds(n)
    BY <1>9, <1>d, <2>0, <2>2 DEF Pass, files
  <2> QED
    BY <1>9, <2>1, <2>2 DEF Pass
<1>10. ASSUME NEW n \in Node, End(n) PROVE EpochInv'
  BY <1>10, <1>d DEF End, Within, files
<1>11. ASSUME NEW n \in Node, Throw(n) PROVE EpochInv'
  BY <1>11, <1>b, <1>w DEF Throw, Out, Early, Stages
<1>12. ASSUME NEW n \in Node, EndLoose(n) PROVE EpochInv'
  <2>1. /\ Go(n, stage'[n]) /\ stage'[n] \in {"closing", "out"}
        /\ UNCHANGED <<bracket, epoch, epochOf>>
    BY <1>12, <1>m, LooseEnded
  <2>2. stage'[n] \in Stages /\ stage'[n] \notin Early /\ n \in AtWork /\ stage[n] \notin Early
    BY <1>12, <1>w, <2>1 DEF EndLoose, Stages, Early
  <2> QED
    BY <1>12, <1>b, <2>1, <2>2 DEF EndLoose, files
<1>13. ASSUME NEW n \in Node, Sees(n, "closing", "checking") PROVE EpochInv'
  <2>1. Working("checking") => n \in AtWork
    BY <1>13 DEF Sees, Working, AtWork, Started
  <2> QED
    BY <1>13, <1>b, <2>1 DEF Sees, Early, files, scopes, Stages
<1>14. ASSUME NEW n \in Node, Check(n) PROVE EpochInv'
  <2>1. PICK s \in {"out", "rolling", "loose"} :
          /\ Go(n, s) /\ (s = "loose" => ~ Grouped)
          /\ UNCHANGED <<bracket, epoch, epochOf>>
    BY <1>14, CheckMoves
  <2>2. s \in Stages /\ s \notin Early /\ stage[n] \notin Early /\ (Working(s) => n \in AtWork)
    BY <1>14, <2>1 DEF Check, Stages, Early, Working, AtWork, Started
  <2> QED
    BY <1>14, <1>b, <2>1, <2>2 DEF Check, files
<1>15. ASSUME NEW n \in Node, NEW p \in Path, RollBack(n, p) PROVE EpochInv'
  <2>1. PICK s \in {"out", "rolling"} : Go(n, s) /\ UNCHANGED <<bracket, epoch, epochOf>>
    BY <1>15, RollBackMoves
  <2>2. s \in Stages /\ s \notin Early /\ stage[n] \notin Early /\ (Working(s) => n \in AtWork)
    BY <1>15, <2>1 DEF RollBack, Stages, Early, Working, AtWork, Started
  <2> QED
    BY <1>15, <1>b, <2>1, <2>2 DEF RollBack
<1> QED
  BY <1>0, <1>1, <1>2, <1>3, <1>4, <1>5, <1>6, <1>7, <1>8, <1>9, <1>10, <1>11, <1>12,
     <1>13, <1>14, <1>15
  DEF Next

-----------------------------------------------------------------------------
(* The worktree under the scope checks.                                    *)

\* Nothing is changed at the beginning ...
LEMMA ScopeInit == Init => ScopeInv
  BY DEF Init, ScopeInv

\* ... and what a step changes is written in the time of all at work.
LEMMA ScopeStep ==
  ASSUME Types, EpochInv, ScopeInv, [Next]_vars
  PROVE  ScopeInv'
<1> USE DEF Types
<1>t. base \in [Node -> SUBSET Inside] /\ wrote \in [Node -> SUBSET Path]
      /\ snap \in [Node -> SUBSET Path] /\ stage \in [Node -> Stages]
      /\ passed \subseteq Node /\ flagged \subseteq Node /\ cap' = cap
  BY ScopesAssumption, SameMode DEF TypeOK
<1>w. /\ \A n \in AtWork : n \in Node /\ stage[n] \notin Early
      /\ \A n \in Node : stage[n] \in {"entered", "inside", "reviewing", "loose"} => n \in AtWork
  BY WorkIsLater DEF TypeOK
<1>a. ASSUME NEW n \in Node, NEW s \in Stages, Go(n, s),
             UNCHANGED <<base, wrote, bracket>>, changed' \cap Inside = changed \cap Inside,
             s # "reviewing", s = "inside" => stage[n] \in {"inside", "reviewing"},
             \A m \in Node \ {n} : snap'[m] = snap[m],
             s \in Late \/ n \notin passed', passed' \subseteq passed \cup {n}
      PROVE  ScopeInv'
  <2>1. stage'[n] = s /\ \A m \in Node \ {n} : stage'[m] = stage[m]
    BY <1>a, Going DEF TypeOK
  <2>2. \A m \in Node : stage'[m] \in {"inside", "reviewing"} =>
          stage[m] \in {"inside", "reviewing"}
    BY <1>a, <2>1
  <2>3. \A m \in Node : stage'[m] \in {"inside", "reviewing"} =>
          /\ base'[m] \subseteq changed'
          /\ \A p \in (changed' \cap Inside) \ base'[m] : \E k \in bracket' : p \in wrote'[k]
    BY <1>a, <1>t, <2>2 DEF ScopeInv
  <2>4. \A m \in Node : wrote'[m] \cap Inside \subseteq changed'
    BY <1>a DEF ScopeInv
  <2>5. \A m \in Node : stage'[m] = "reviewing" => m # n
    BY <1>a, <2>1
  <2>6. \A m \in Node : stage[m] = "reviewing" => snap[m] \subseteq Inside
    BY DEF SnapInv
  <2>7. \A m \in Node : stage'[m] = "reviewing" =>
          /\ base'[m] \subseteq snap'[m] /\ snap'[m] \subseteq changed'
          /\ wrote'[m] \cap Inside \subseteq snap'[m]
    BY <1>a, <2>1, <2>5, <2>6 DEF ScopeInv
  <2>8. \A m \in passed' : stage'[m] \in Late
    BY <1>a, <1>t, <2>1 DEF ScopeInv
  <2> QED
    BY <2>3, <2>4, <2>7, <2>8 DEF ScopeInv
<1>b. ASSUME NEW n \in Node, stage[n] \in Early, NEW s \in {"entered", "opening", "loose"},
             Go(n, s), Working(s), EnterScopes(n), UNCHANGED <<base, files, snap, passed>>
      PROVE  ScopeInv'
  <2>0. s \in Stages
    BY DEF Stages
  <2>1. stage'[n] = s /\ \A m \in Node \ {n} : stage'[m] = stage[m]
    BY <1>b, <2>0, Going DEF TypeOK
  <2>2. \A m \in Node : stage'[m] \in {"inside", "reviewing"} =>
          m \in AtWork /\ stage[m] = stage'[m]
    BY <1>b, <1>w, <2>1
  <2>3. AtWork # {} => bracket \subseteq bracket'
    BY <1>b, <1>t, <2>0, ArrivesInTime
  <2>4. n \notin passed
    BY <1>b DEF EpochInv
  <2> QED
    BY <1>b, <1>t, <2>1, <2>2, <2>3, <2>4 DEF ScopeInv, files
<1>c. ASSUME NEW n \in Node, n \in Within, CallEnds(n),
             \A m \in Node \ {n} : base'[m] = base[m], UNCHANGED <<files, snap>>,
             passed' \subseteq passed \cup {n}
      PROVE  ScopeInv'
  <2>0. /\ stage'[n] \in {"closing", "out"} /\ Go(n, stage'[n]) /\ bracket' = bracket
    BY <1>c, <1>t, CallEnded
  <2>1. stage'[n] \in Late /\ \A m \in Node \ {n} : stage'[m] = stage[m]
    BY <2>0, Going DEF TypeOK, Late, Stages
  <2>2. \A m \in Node : stage'[m] \in {"inside", "reviewing"} => m # n /\ stage[m] = stage'[m]
    BY <2>1 DEF Late
  <2> QED
    BY <1>c, <1>t, <2>0, <2>1, <2>2 DEF ScopeInv, files
<1>0. CASE UNCHANGED vars
  BY <1>0 DEF vars, ScopeInv
<1>1. ASSUME NEW n \in Node, Enter(n) PROVE ScopeInv'
  <2>0. Grouped /\ stage[n] \in Early /\ Working("entered")
    BY <1>1 DEF Enter, MayStart, Early, Working
  <2>1. CASE depth > 0
    BY <1>1, <2>0, <2>1, <1>b DEF Enter
  <2>2. CASE ~ depth > 0
    <3>1. n \notin passed
      BY <2>0 DEF EpochInv
    <3> QED
      BY <1>1, <2>2, <3>1, <1>a DEF Enter, files, scopes, Stages
  <2> QED
    BY <2>1, <2>2
<1>2. ASSUME NEW n \in Node, EnterAlone(n) PROVE ScopeInv'
  <2>1. PICK s \in {"opening", "loose"} : Go(n, s)
    BY <1>2 DEF EnterAlone
  <2>2. stage[n] \in Early /\ Working(s)
    BY <1>2 DEF EnterAlone, MayStart, Early, Working
  <2> QED
    BY <1>2, <1>b, <2>1, <2>2 DEF EnterAlone
<1>3. ASSUME NEW n \in Node, Sees(n, "opening", "opened") PROVE ScopeInv'
  <2>1. n \notin passed
    BY <1>3 DEF Sees, ScopeInv, Late
  <2> QED
    BY <1>3, <1>a, <1>t, <2>1 DEF Sees, files, scopes, Stages
<1>4. ASSUME NEW n \in Node, Open(n) PROVE ScopeInv'
  <2>1. CASE Grouped
    BY <1>4, <1>b, <2>1 DEF Open, Early, Working
  <2>2. CASE ~ Grouped
    <3>1. n \notin passed
      BY <1>4 DEF Open, ScopeInv, Late
    <3> QED
      BY <1>4, <1>a, <1>t, <2>2, <3>1 DEF Open, files, scopes, Stages
  <2> QED
    BY <2>1, <2>2
<1>5. ASSUME NEW n \in Node, Begin(n) PROVE ScopeInv'
  <2>1. stage'[n] = "inside" /\ \A m \in Node \ {n} : stage'[m] = stage[m]
    BY <1>5, Going DEF Begin, TypeOK, Stages
  <2>2. base'[n] = changed \cap Inside /\ \A m \in Node \ {n} : base'[m] = base[m]
    BY <1>5, <1>t DEF Begin
  <2>3. n \notin passed
    BY <1>5 DEF Begin, ScopeInv, Late
  <2> QED
    BY <1>5, <1>t, <2>1, <2>2, <2>3 DEF Begin, files, scopes, ScopeInv
<1>6. ASSUME NEW n \in Node, NEW p \in Path, Write(n, p) PROVE ScopeInv'
  <2>1. wrote'[n] = wrote[n] \cup {p} /\ \A m \in Node \ {n} : wrote'[m] = wrote[m]
    BY <1>6, <1>t DEF Write
  <2>2. changed' = changed \cup {p} /\ UNCHANGED <<stage, base, snap, bracket, passed>>
    BY <1>6 DEF Write, scopes
  <2>3. n \in bracket /\ stage[n] # "reviewing"
    BY <1>6, <1>w DEF Write, EpochInv
  <2>4. bracket \subseteq Node
    BY DEF TypeOK
  <2>5. ASSUME NEW m \in Node, stage'[m] \in {"inside", "reviewing"},
               NEW q \in (changed' \cap Inside) \ base'[m]
        PROVE  \E k \in bracket' : q \in wrote'[k]
    <3>1. CASE q = p
      BY <2>1, <2>2, <2>3, <3>1
    <3>2. CASE q # p
      <4>1. PICK k \in bracket : q \in wrote[k]
        BY <2>2, <2>5, <3>2 DEF ScopeInv
      <4> QED
        BY <2>1, <2>2, <2>4, <4>1
    <3> QED
      BY <3>1, <3>2
  <2>6. \A m \in Node : stage'[m] \in {"inside", "reviewing"} => base'[m] \subseteq changed'
    BY <2>2 DEF ScopeInv
  <2>7. \A m \in Node : wrote'[m] \cap Inside \subseteq changed'
    BY <2>1, <2>2 DEF ScopeInv
  <2>8. \A m \in Node : stage'[m] = "reviewing" => wrote'[m] = wrote[m]
    BY <2>1, <2>2, <2>3
  <2> QED
    BY <2>2, <2>5, <2>6, <2>7, <2>8 DEF ScopeInv
<1>7. ASSUME NEW n \in Node, Return(n) PROVE ScopeInv'
  <2>1. stage'[n] = "reviewing" /\ \A m \in Node \ {n} : stage'[m] = stage[m]
    BY <1>7, Going DEF Return, TypeOK, Stages
  <2>2. snap'[n] = changed \cap Inside /\ \A m \in Node \ {n} : snap'[m] = snap[m]
    BY <1>7, <1>t DEF Return
  <2>3. n \notin passed /\ stage[n] = "inside"
    BY <1>7 DEF Return, ScopeInv, Late
  <2>4. base[n] \subseteq Inside
    BY <1>t
  <2> QED
    BY <1>7, <1>t, <2>1, <2>2, <2>3, <2>4 DEF Return, files, scopes, ScopeInv
<1>8. ASSUME NEW n \in Node, Reject(n) PROVE ScopeInv'
  <2>0. /\ base'[n] = snap[n] /\ \A m \in Node \ {n} : base'[m] = base[m]
        /\ n \in Within /\ stage[n] = "reviewing" /\ UNCHANGED <<files, snap, passed>>
    BY <1>8, <1>t DEF Reject, Within
  <2>1. CASE Go(n, "inside") /\ UNCHANGED <<group, scopes, history>>
    <3>1. stage'[n] = "inside" /\ \A m \in Node \ {n} : stage'[m] = stage[m]
      BY <2>1, Going DEF TypeOK, Stages
    <3>2. n \notin passed
      BY <2>0 DEF ScopeInv, Late
    <3>3. \A m \in Node : stage'[m] \in {"inside", "reviewing"} =>
             base[m] \subseteq base'[m] /\ stage[m] \in {"inside", "reviewing"}
             /\ base'[m] \subseteq changed
      BY <2>0, <3>1 DEF ScopeInv
    <3> QED
      BY <1>t, <2>0, <2>1, <3>1, <3>2, <3>3 DEF files, scopes, ScopeInv
  <2>2. CASE CallEnds(n)
    BY <2>0, <2>2, <1>c
  <2> QED
    BY <1>8, <2>1, <2>2 DEF Reject
<1>9. ASSUME NEW n \in Node, Pass(n) PROVE ScopeInv'
  <2>1. CASE CallEnds(n)
    BY <1>9, <1>c, <2>1 DEF Pass, Within
  <2>2. CASE HumanRound(n)
    BY <1>9, <1>a, <1>t, <2>2 DEF Pass, HumanRound, files, scopes, Stages, Late
  <2> QED
    BY <1>9, <2>1, <2>2 DEF Pass
<1>10. ASSUME NEW n \in Node, End(n) PROVE ScopeInv'
  BY <1>10, <1>c DEF End, Within
<1>11. ASSUME NEW n \in Node, Throw(n) PROVE ScopeInv'
  BY <1>11, <1>a, <1>t DEF Throw, Out, Stages, Late
<1>12. ASSUME NEW n \in Node, EndLoose(n) PROVE ScopeInv'
  <2>1. Go(n, stage'[n]) /\ stage'[n] \in {"closing", "out"} /\ bracket' = bracket
    BY <1>12, <1>t, LooseEnded
  <2>2. stage'[n] \in Stages /\ stage'[n] \in Late
    BY <2>1 DEF Stages, Late
  <2> QED
    BY <1>12, <1>a, <2>1, <2>2 DEF EndLoose, files
<1>13. ASSUME NEW n \in Node, Sees(n, "closing", "checking") PROVE ScopeInv'
  BY <1>13, <1>a, <1>t DEF Sees, files, scopes, Stages, Late
<1>14. ASSUME NEW n \in Node, Check(n) PROVE ScopeInv'
  <2>1. PICK s \in {"out", "rolling", "loose"} : Go(n, s) /\ bracket' = bracket
    BY <1>14, CheckMoves
  <2>2. s \in Stages /\ s \in Late
    BY DEF Stages, Late
  <2> QED
    BY <1>14, <1>a, <1>t, <2>1, <2>2 DEF Check, files
<1>15. ASSUME NEW n \in Node, NEW p \in Path, RollBack(n, p) PROVE ScopeInv'
  <2>1. PICK s \in {"out", "rolling"} : Go(n, s) /\ bracket' = bracket
    BY <1>15, RollBackMoves
  <2>2. p \in Outside
    BY <1>15 DEF RollBack, SnapInv
  <2>3. changed' \cap Inside = changed \cap Inside
    BY <1>15, <2>2, PathsAssumption DEF RollBack, Rollback
  <2>4. s \in Stages /\ s \in Late
    BY DEF Stages, Late
  <2> QED
    BY <1>15, <1>a, <1>t, <2>1, <2>3, <2>4 DEF RollBack
<1> QED
  BY <1>0, <1>1, <1>2, <1>3, <1>4, <1>5, <1>6, <1>7, <1>8, <1>9, <1>10, <1>11, <1>12,
     <1>13, <1>14, <1>15
  DEF Next

-----------------------------------------------------------------------------
(* The verdicts of the scope checks.                                       *)

\* No verdict is given at the beginning ...
LEMMA VerdictInit == Init => ScopeVerdictIsRight
  BY DEF Init, ScopeVerdictIsRight, BlameNeedsAStray, PassesOnlyInScope

\* A check that fails its node has seen somebody's stray file.
LEMMA FailedForAStray ==
  ASSUME Types, EpochInv, ScopeInv, NEW n \in Node, stage[n] = "reviewing",
         Violations(n) # {}
  PROVE  \E m \in Node : epochOf[m] = epochOf[n] /\ ~ wrote[m] \cap Inside \subseteq Allowed[m]
<1>1. PICK p \in snap[n] : p \notin base[n] \cup Allowed[n] \cup Forgiven(n)
  BY DEF Violations
<1>2. p \in (changed \cap Inside) \ base[n]
  BY <1>1 DEF ScopeInv, Types, SnapInv
<1>3. PICK m \in bracket : p \in wrote[m]
  BY <1>2 DEF ScopeInv
<1>4. n \in AtWork /\ m \in Node
  BY <1>3, WorkIsLater DEF Types, TypeOK
<1>5. epochOf[m] = epochOf[n]
  BY <1>3, <1>4 DEF EpochInv
<1>6. p \notin Allowed[m]
  BY <1>1, <1>3 DEF Forgiven
<1> QED
  BY <1>2, <1>3, <1>4, <1>5, <1>6

\* A check that passes its node has an excuse for every file it has seen.
LEMMA PassedForAScope ==
  ASSUME Types, EpochInv, ScopeInv, NEW n \in Node, stage[n] = "reviewing",
         Violations(n) = {}, NEW p \in (wrote[n] \cap Inside) \ base[n]
  PROVE  \E m \in Node : /\ epochOf[m] = epochOf[n] /\ p \in Allowed[m]
                         /\ stage[m] \notin Early
<1>1. p \in snap[n]
  BY DEF ScopeInv
<1>2. p \in Allowed[n] \/ p \in Forgiven(n)
  BY <1>1 DEF Violations
<1>3. n \in AtWork /\ epochOf[n] # 0
  BY WorkIsLater DEF Types, TypeOK, EpochInv
<1>4. CASE p \in Allowed[n]
  BY <1>3, <1>4, WorkIsLater DEF Types, TypeOK
<1>5. CASE p \in Forgiven(n)
  <2>1. PICK m \in bracket : p \in Allowed[m]
    BY <1>5 DEF Forgiven
  <2>2. m \in Node /\ epochOf[m] = epochOf[n]
    BY <1>3, <2>1 DEF EpochInv, Types, TypeOK
  <2>3. stage[m] \notin Early
    BY <2>2, <1>3 DEF EpochInv
  <2> QED
    BY <2>1, <2>2, <2>3
<1> QED
  BY <1>2, <1>4, <1>5

\* ... and one that a step gives is right.
LEMMA VerdictStep ==
  ASSUME Types, EpochInv, ScopeInv, ScopeVerdictIsRight, [Next]_vars
  PROVE  ScopeVerdictIsRight'
<1> USE DEF Types
<1>t. base \in [Node -> SUBSET Inside] /\ wrote \in [Node -> SUBSET Path]
      /\ loose \in [Node -> SUBSET Path]
      /\ stage \in [Node -> Stages] /\ epochOf \in [Node -> 0 .. epoch]
      /\ passed \subseteq Node /\ flagged \subseteq Node /\ cap' = cap
  BY ScopesAssumption, SameMode DEF TypeOK
\* Nobody enters, writes, begins or is judged.
<1>a. ASSUME UNCHANGED <<wrote, epochOf>>, flagged' = flagged, passed' = passed,
             \A m \in passed : base'[m] = base[m] /\ loose[m] \subseteq loose'[m]
      PROVE  ScopeVerdictIsRight'
  BY <1>a, <1>t DEF ScopeVerdictIsRight, BlameNeedsAStray, PassesOnlyInScope
\* A node enters: it has written nothing and excuses nothing.
<1>b. ASSUME NEW n \in Node, stage[n] \in Early, NEW s \in Stages, Go(n, s), Working(s),
             EnterScopes(n), UNCHANGED <<wrote, loose, base, flagged, passed>>
      PROVE  ScopeVerdictIsRight'
  <2>1. \A m \in Node \ {n} : epochOf'[m] = epochOf[m]
    BY <1>b, <1>t, ArrivesInTime
  <2>2. n \notin flagged \cup passed /\ wrote[n] = {} /\ epochOf[n] = 0
    BY <1>b DEF EpochInv
  <2>3. \A m \in flagged \cup passed : m \in Node /\ epochOf[m] # 0
    BY <1>t DEF EpochInv
  <2>4. ASSUME NEW m \in flagged
        PROVE  \E k \in Node : /\ epochOf'[k] = epochOf'[m]
                               /\ ~ wrote'[k] \cap Inside \subseteq Allowed[k]
    <3>1. PICK k \in Node : epochOf[k] = epochOf[m] /\ ~ wrote[k] \cap Inside \subseteq Allowed[k]
      BY DEF ScopeVerdictIsRight, BlameNeedsAStray
    <3>2. k # n /\ m # n
      BY <2>2, <3>1
    <3> QED
      BY <1>b, <2>1, <2>3, <3>1, <3>2
  <2>5. ASSUME NEW m \in passed \ flagged,
               NEW p \in (wrote[m] \cap Inside) \ (base[m] \cup loose[m])
        PROVE  \E k \in Node : epochOf'[k] = epochOf'[m] /\ p \in Allowed[k]
    <3>1. PICK k \in Node : epochOf[k] = epochOf[m] /\ p \in Allowed[k]
      BY DEF ScopeVerdictIsRight, PassesOnlyInScope
    <3>2. k # n /\ m # n
      BY <2>2, <2>3, <3>1
    <3> QED
      BY <2>1, <2>3, <3>1, <3>2
  <2> QED
    BY <1>b, <2>4, <2>5 DEF ScopeVerdictIsRight, BlameNeedsAStray, PassesOnlyInScope
<1>0. CASE UNCHANGED vars
  BY <1>0, <1>a DEF vars
<1>1. ASSUME NEW n \in Node, Enter(n) PROVE ScopeVerdictIsRight'
  <2>0. stage[n] \in Early /\ Working("entered") /\ "entered" \in Stages
    BY <1>1 DEF Enter, MayStart, Early, Working, Stages
  <2>1. CASE depth > 0
    BY <1>1, <2>0, <2>1, <1>b DEF Enter, files
  <2>2. CASE ~ depth > 0
    BY <1>1, <2>2, <1>a DEF Enter, files, scopes
  <2> QED
    BY <2>1, <2>2
<1>2. ASSUME NEW n \in Node, EnterAlone(n) PROVE ScopeVerdictIsRight'
  <2>1. PICK s \in {"opening", "loose"} : Go(n, s)
    BY <1>2 DEF EnterAlone
  <2>2. stage[n] \in Early /\ Working(s) /\ s \in Stages
    BY <1>2 DEF EnterAlone, MayStart, Early, Working, Stages
  <2> QED
    BY <1>2, <1>b, <2>1, <2>2 DEF EnterAlone, files
<1>3. ASSUME NEW n \in Node, Sees(n, "opening", "opened") \/ Sees(n, "closing", "checking")
      PROVE  ScopeVerdictIsRight'
  BY <1>3, <1>a DEF Sees, files, scopes
<1>4. ASSUME NEW n \in Node, Open(n) PROVE ScopeVerdictIsRight'
  <2>1. CASE Grouped
    BY <1>4, <1>b, <2>1 DEF Open, Early, Working, files, Stages
  <2>2. CASE ~ Grouped
    BY <1>4, <1>a, <2>2 DEF Open, files, scopes
  <2> QED
    BY <2>1, <2>2
<1>5. ASSUME NEW n \in Node, Begin(n) PROVE ScopeVerdictIsRight'
  <2>1. n \notin passed
    BY <1>5 DEF Begin, ScopeInv, Late
  <2>2. \A m \in Node \ {n} : base'[m] = base[m]
    BY <1>5, <1>t DEF Begin
  <2> QED
    BY <1>5, <1>a, <1>t, <2>1, <2>2 DEF Begin, files, scopes
<1>6. ASSUME NEW n \in Node, NEW p \in Path, Write(n, p) PROVE ScopeVerdictIsRight'
  <2>1. n \notin passed \/ (loose'[n] = loose[n] \cup {p} /\ wrote'[n] = wrote[n] \cup {p})
    BY <1>6, <1>t DEF Write, ScopeInv, Late
  <2>2. \A m \in Node \ {n} : wrote'[m] = wrote[m] /\ loose'[m] = loose[m]
    BY <1>6, <1>t DEF Write
  <2>3. \A m \in Node : wrote[m] \subseteq wrote'[m] /\ loose[m] \subseteq loose'[m]
    BY <1>6, <1>t DEF Write
  <2>4. UNCHANGED <<epochOf, base, flagged, passed>>
    BY <1>6 DEF Write, scopes
  <2>5. BlameNeedsAStray'
    BY <2>3, <2>4, <1>t DEF ScopeVerdictIsRight, BlameNeedsAStray
  <2>6. ASSUME NEW m \in passed \ flagged
        PROVE  (wrote'[m] \cap Inside) \ (base[m] \cup loose'[m])
                 \subseteq (wrote[m] \cap Inside) \ (base[m] \cup loose[m])
    BY <1>t, <2>1, <2>2
  <2>7. PassesOnlyInScope'
    BY <2>4, <2>6 DEF ScopeVerdictIsRight, PassesOnlyInScope
  <2> QED
    BY <2>5, <2>7 DEF ScopeVerdictIsRight
<1>7. ASSUME NEW n \in Node, Return(n) PROVE ScopeVerdictIsRight'
  BY <1>7, <1>a DEF Return, files, scopes
<1>8. ASSUME NEW n \in Node, Reject(n) PROVE ScopeVerdictIsRight'
  <2>0. epochOf' = epochOf
    BY <1>8, <1>t, CallEnded DEF Reject, scopes, Within
  <2>1. /\ stage[n] = "reviewing" /\ n \notin passed
        /\ \A m \in Node \ {n} : base'[m] = base[m]
        /\ UNCHANGED <<wrote, loose, epochOf, passed>>
    BY <1>8, <1>t, <2>0 DEF Reject, ScopeInv, Late, files
  <2>2. flagged' = flagged \/ (flagged' = flagged \cup {n} /\ Violations(n) # {})
    BY <1>8 DEF Reject
  <2>3. BlameNeedsAStray'
    <3>1. CASE flagged' = flagged
      BY <1>t, <2>1, <3>1 DEF ScopeVerdictIsRight, BlameNeedsAStray
    <3>2. CASE flagged' = flagged \cup {n} /\ Violations(n) # {}
      BY <1>t, <2>1, <3>2, FailedForAStray DEF ScopeVerdictIsRight, BlameNeedsAStray
    <3> QED
      BY <2>2, <3>1, <3>2
  <2>4. PassesOnlyInScope'
    BY <1>t, <2>1, <2>2 DEF ScopeVerdictIsRight, PassesOnlyInScope
  <2> QED
    BY <2>3, <2>4 DEF ScopeVerdictIsRight
<1>9. ASSUME NEW n \in Node, Pass(n) PROVE ScopeVerdictIsRight'
  <2>0. epochOf' = epochOf
    BY <1>9, <1>t, CallEnded DEF Pass, HumanRound, scopes, Within
  <2>1. /\ stage[n] = "reviewing" /\ Violations(n) = {}
        /\ passed' = passed \cup {n} /\ UNCHANGED <<wrote, loose, epochOf, base, flagged>>
    BY <1>9, <2>0 DEF Pass, files
  <2>2. \A p \in (wrote[n] \cap Inside) \ base[n] :
          \E m \in Node : epochOf[m] = epochOf[n] /\ p \in Allowed[m]
    BY <2>1, PassedForAScope
  <2> QED
    BY <1>t, <2>1, <2>2 DEF ScopeVerdictIsRight, BlameNeedsAStray, PassesOnlyInScope
<1>10. ASSUME NEW n \in Node, End(n) PROVE ScopeVerdictIsRight'
  <2>1. epochOf' = epochOf
    BY <1>10, <1>t, CallEnded DEF End, Within
  <2> QED
    BY <1>10, <1>a, <2>1 DEF End, files
<1>11. ASSUME NEW n \in Node, Throw(n) PROVE ScopeVerdictIsRight'
  <2>1. \A m \in Node : loose[m] \subseteq loose'[m]
    BY <1>11, <1>t DEF Throw
  <2> QED
    BY <1>11, <1>a, <1>t, <2>1 DEF Throw, Out
<1>12. ASSUME NEW n \in Node, EndLoose(n) PROVE ScopeVerdictIsRight'
  <2>1. epochOf' = epochOf
    BY <1>12, <1>t, LooseEnded
  <2> QED
    BY <1>12, <1>a, <2>1 DEF EndLoose, files
<1>13. ASSUME NEW n \in Node, Check(n) PROVE ScopeVerdictIsRight'
  <2>1. epochOf' = epochOf
    BY <1>13, CheckMoves
  <2> QED
    BY <1>13, <1>a, <2>1 DEF Check, files
<1>14. ASSUME NEW n \in Node, NEW p \in Path, RollBack(n, p) PROVE ScopeVerdictIsRight'
  <2>1. epochOf' = epochOf
    BY <1>14, RollBackMoves
  <2> QED
    BY <1>14, <1>a, <2>1 DEF RollBack
<1> QED
  BY <1>0, <1>1, <1>2, <1>3, <1>4, <1>5, <1>6, <1>7, <1>8, <1>9, <1>10, <1>11, <1>12,
     <1>13, <1>14
  DEF Next

-----------------------------------------------------------------------------
(* The steps of a run with a group.                                        *)

\* The bracket opens, ...
OpenIn(n) ==
  /\ stage[n] = "opened" /\ Go(n, "entered") /\ EnterScopes(n)
  /\ before' = SnapshotOf(n) /\ allowed' = Allowed[n] /\ depth' = depth + 1
  /\ UNCHANGED <<passed, files, snap, base, flagged, history>>

\* ... a check fails its node, ...
RejectIn(n) ==
  /\ stage[n] = "reviewing"
  /\ flagged' = IF Violations(n) # {} THEN flagged \cup {n} ELSE flagged
  /\ base' = [base EXCEPT ![n] = snap[n]]
  /\ \/ Go(n, "inside") /\ UNCHANGED <<group, scopes, history>>
     \/ Leave(n)
  /\ UNCHANGED <<passed, files, snap>>

\* ... or lets it go, ...
PassIn(n) ==
  /\ stage[n] = "reviewing" /\ Violations(n) = {} /\ Leave(n)
  /\ passed' = passed \cup {n}
  /\ UNCHANGED <<files, snap, base, flagged>>

\* ... with a human in the round, ...
HumanIn(n) ==
  /\ stage[n] = "reviewing" /\ Go(n, "loose")
  /\ UNCHANGED <<files, snap, base, flagged, group, scopes, history>>

\* ... a node ends, ...
EndIn(n) ==
  /\ stage[n] \in {"entered", "inside", "loose"} /\ Leave(n)
  /\ UNCHANGED <<passed, files, snap, base, flagged>>

\* ... the bracket is judged, ...
CheckIn(n) ==
  /\ stage[n] = "checking"
  /\ Go(n, IF Leaks(n) = {} THEN "out" ELSE "rolling")
  /\ snap' = [snap EXCEPT ![n] = Leaks(n)]
  /\ before' = Undefined /\ allowed' = {}
  /\ UNCHANGED <<passed, files, base, flagged, depth, scopes, history>>

\* ... and files are put back.
RollBackIn(n, p) ==
  /\ stage[n] = "rolling" /\ p \in snap[n]
  /\ Go(n, IF snap'[n] = {} THEN "out" ELSE "rolling")
  /\ changed' = Rollback(p)
  /\ snap' = [snap EXCEPT ![n] = @ \ {p}]
  /\ UNCHANGED <<passed, wrote, loose, base, flagged, group, scopes, history>>

\* These are all the steps of such a run.
LEMMA GroupSteps ==
  ASSUME Grouped, stage \in [Node -> Stages], [Next]_vars
  PROVE  \/ UNCHANGED vars
         \/ \E n \in Node :
              \/ Enter(n) \/ Sees(n, "opening", "opened") \/ OpenIn(n) \/ Begin(n) \/ Return(n)
              \/ RejectIn(n) \/ PassIn(n) \/ HumanIn(n) \/ EndIn(n)
              \/ Sees(n, "closing", "checking") \/ CheckIn(n)
              \/ \E p \in Path : Write(n, p) \/ RollBackIn(n, p)
<1>1. ASSUME NEW n \in Node, Open(n) PROVE OpenIn(n)
  BY <1>1 DEF Open, OpenIn, OneMore
<1>2. ASSUME NEW n \in Node, Reject(n) PROVE RejectIn(n)
  BY <1>2 DEF Reject, RejectIn, CallEnds
<1>3. ASSUME NEW n \in Node, Pass(n) PROVE PassIn(n) \/ HumanIn(n)
  <2>1. CASE CallEnds(n)
    BY <1>3, <2>1 DEF Pass, PassIn, CallEnds
  <2>2. CASE HumanRound(n) /\ UNCHANGED <<before, allowed>>
    BY <1>3, <2>2 DEF Pass, HumanIn, HumanRound, group
  <2> QED
    BY <1>3, <2>1, <2>2 DEF Pass
<1>4. ASSUME NEW n \in Node, End(n) PROVE EndIn(n)
  BY <1>4 DEF End, EndIn, CallEnds
<1>5. ASSUME NEW n \in Node, EndLoose(n) PROVE EndIn(n)
  BY <1>5 DEF EndLoose, EndIn
<1>6. ASSUME NEW n \in Node, Check(n) PROVE CheckIn(n)
  BY <1>6 DEF Check, CheckIn, JudgedOut
<1>7. ASSUME NEW n \in Node, NEW p \in Path, RollBack(n, p) PROVE RollBackIn(n, p)
  <2>1. CASE snap'[n] = {}
    BY <1>7, <2>1 DEF RollBack, RollBackIn, JudgedOut
  <2>2. CASE snap'[n] # {}
    <3>1. stage' = stage /\ stage[n] = "rolling" /\ UNCHANGED scopes
      BY <1>7, <2>2 DEF RollBack
    <3>2. Go(n, "rolling")
      BY <3>1 DEF Go
    <3> QED
      BY <1>7, <2>2, <3>1, <3>2 DEF RollBack, RollBackIn
  <2> QED
    BY <2>1, <2>2
<1>8. \A n \in Node : ~ EnterAlone(n) /\ ~ Throw(n)
  BY DEF EnterAlone, Throw
<1> QED
  BY <1>1, <1>2, <1>3, <1>4, <1>5, <1>6, <1>7, <1>8 DEF Next

-----------------------------------------------------------------------------
(* Opening and closing the bracket.                                        *)

\* Who opens, who closes and who is inside, when one node has moved on.
LEMMA Moving ==
  ASSUME stage \in [Node -> Stages], NEW n \in Node, NEW s \in Stages, Go(n, s)
  PROVE  /\ Opening' \subseteq Opening \cup {n} /\ Opening \subseteq Opening' \cup {n}
         /\ n \in Opening' <=> s \in {"opening", "opened"}
         /\ Closing' \subseteq Closing \cup {n} /\ Closing \subseteq Closing' \cup {n}
         /\ n \in Closing' <=> s \in {"closing", "checking", "rolling"}
         /\ Within' \subseteq Within \cup {n} /\ Within \subseteq Within' \cup {n}
         /\ n \in Within' <=> s \in {"entered", "inside", "reviewing", "loose"}
         /\ Judging' \subseteq Judging \cup {n} /\ Judging \subseteq Judging' \cup {n}
         /\ n \in Judging' <=> s \in {"closing", "checking"}
  BY Going DEF Opening, Closing, Within, Judging

\* Within and at the door at once: nobody.
LEMMA Apart ==
  /\ Opening \subseteq Node /\ Closing \subseteq Node /\ Within \subseteq Node
  /\ Judging \subseteq Closing
  /\ \A n \in Opening : n \notin Closing /\ n \notin Within
  /\ \A n \in Closing : n \notin Within
  BY DEF Opening, Closing, Within, Judging

\* No bracket has been crossed at the beginning ...
LEMMA CrossInit == Init => CrossInv
<1> SUFFICES ASSUME Init PROVE CrossInv
  OBVIOUS
<1>1. Opening = {} /\ Closing = {} /\ Within = {} /\ Judging = {}
  BY DEF Init, Opening, Closing, Within, Judging
<1> QED
  BY <1>1 DEF Init, CrossInv

\* The step that opens the bracket, and the one that judges it.
LEMMA DirtyIsKnown ==
  ASSUME Types, CrossInv, ~ crossed, NEW n \in Node, stage[n] = "checking"
  PROVE  Leaks(n) \cap Dirty = {}
<1>1. before # Undefined
  BY DEF CrossInv, Judging
<1>2. Dirty \subseteq KnownBefore
  BY <1>1 DEF CrossInv, KnownBefore
<1> QED
  BY <1>2 DEF Leaks

\* ... and a step that crosses none leaves whoever closes it alone.
LEMMA CrossStep ==
  ASSUME Grouped, Types, CrossInv, [Next]_vars
  PROVE  CrossInv'
<1> SUFFICES ASSUME ~ crossed'
             PROVE  CrossInv'
  BY DEF CrossInv
<1> USE DEF Types
<1>t. /\ stage \in [Node -> Stages] /\ snap \in [Node -> SUBSET Path]
      /\ running = Within /\ (depth > 0 => Within # {}) /\ cap' = cap
  BY WithinIsFinite, SameMode DEF TypeOK, AtWork
\* A node moves on without touching the bracket.
<1>a. ASSUME NEW n \in Node, NEW s \in Stages, Go(n, s), UNCHANGED before,
             changed \subseteq changed', ~ crossed,
             s \in {"opening", "opened"} => Closing = {},
             s \in {"entered", "inside", "reviewing", "loose"} => Within # {},
             s \in {"closing", "checking", "rolling"} =>
               n \in Closing \/ (n \in Within /\ Within \subseteq {n} /\ Opening = {}),
             s \in {"closing", "checking"} => n \in Within \cup Judging,
             \A m \in Node \ {n} : snap'[m] = snap[m],
             s = "opened" => Dirty \subseteq snap'[n],
             s = "rolling" => snap'[n] \cap Dirty = {}
      PROVE  CrossInv'
  <2>1. stage'[n] = s /\ \A m \in Node \ {n} : stage'[m] = stage[m]
    BY <1>a, <1>t, Going
  <2>2. Closing' # {} => Opening' = {} /\ Within' = {}
    BY <1>a, <1>t, Moving, Apart DEF CrossInv
  <2>3. \A k, m \in Closing' : k = m
    BY <1>a, <1>t, Moving, Apart DEF CrossInv
  <2>4. Within' \cup Judging' # {} => before' # Undefined
    BY <1>a, <1>t, Moving, Apart DEF CrossInv
  <2>5. (before' # Undefined => Dirty \subseteq before') /\ Dirty \subseteq changed'
    BY <1>a DEF CrossInv
  <2>6. \A m \in Node : stage'[m] = "opened" => Dirty \subseteq snap'[m]
    BY <1>a, <2>1 DEF CrossInv
  <2>7. \A m \in Node : stage'[m] = "rolling" => snap'[m] \cap Dirty = {}
    BY <1>a, <2>1 DEF CrossInv
  <2> QED
    BY <2>2, <2>3, <2>4, <2>5, <2>6, <2>7 DEF CrossInv
<1>b. ASSUME NEW n \in Node, n \in Within, Leave(n), UNCHANGED <<changed, snap>>
      PROVE  CrossInv'
  <2>0. ~ crossed /\ Opening = {} /\ before' = before
    BY <1>b DEF Leave
  <2>1. /\ stage'[n] \in {"closing", "out"} /\ Go(n, stage'[n])
        /\ stage'[n] = "closing" => Within \subseteq {n}
    BY <1>b, <1>t, Departs
  <2>2. stage'[n] \in Stages
    BY <2>1 DEF Stages
  <2> QED
    BY <1>a, <1>b, <2>0, <2>1, <2>2
<1>0. CASE UNCHANGED vars
  BY <1>0 DEF vars, CrossInv, Opening, Closing, Within, Judging
<1>1. ASSUME NEW n \in Node, Enter(n) PROVE CrossInv'
  <2>0. ~ crossed /\ Closing = {} /\ UNCHANGED <<changed, snap>>
    BY <1>1 DEF Enter, files
  <2>1. CASE depth > 0
    BY <1>1, <1>a, <1>t, <2>0, <2>1 DEF Enter, Stages
  <2>2. CASE ~ depth > 0
    BY <1>1, <1>a, <2>0, <2>2 DEF Enter, group, Stages
  <2> QED
    BY <2>1, <2>2
<1>2. ASSUME NEW n \in Node, Sees(n, "opening", "opened") PROVE CrossInv'
  <2>1. ~ crossed /\ n \in Opening /\ Go(n, "opened") /\ UNCHANGED <<changed, before>>
    BY <1>2 DEF Sees, files, group, history, Opening
  <2>2. Closing = {}
    BY <2>1 DEF CrossInv
  <2>3. snap'[n] = changed \cap Outside /\ \A m \in Node \ {n} : snap'[m] = snap[m]
    BY <1>2, <1>t DEF Sees
  <2>4. Dirty \subseteq snap'[n]
    BY <2>1, <2>3, PathsAssumption DEF CrossInv
  <2> QED
    BY <1>a, <2>1, <2>2, <2>3, <2>4 DEF Stages
<1>3. ASSUME NEW n \in Node, OpenIn(n) PROVE CrossInv'
  <2>1. /\ ~ crossed /\ n \in Opening /\ Go(n, "entered") /\ stage[n] = "opened"
        /\ UNCHANGED <<changed, snap>> /\ before' = snap[n]
    BY <1>3 DEF OpenIn, files, history, Opening, SnapshotOf
  <2>2. Closing = {}
    BY <2>1 DEF CrossInv
  <2>3. before' # Undefined /\ Dirty \subseteq before'
    BY <2>1, PathsAssumption DEF CrossInv, SnapInv
  <2>4. stage'[n] = "entered" /\ \A m \in Node \ {n} : stage'[m] = stage[m]
    BY <2>1, <1>t, Going DEF Stages
  <2>5. Closing' = {}
    BY <2>1, <2>2, <1>t, Moving DEF Stages
  <2> QED
    BY <2>1, <2>3, <2>4, <2>5 DEF CrossInv
<1>4. ASSUME NEW n \in Node, Begin(n) PROVE CrossInv'
  <2>1. n \in Within
    BY <1>4 DEF Begin, Within
  <2> QED
    BY <1>4, <1>a, <2>1 DEF Begin, files, group, history, Stages
<1>5. ASSUME NEW n \in Node, NEW p \in Path, Write(n, p) PROVE CrossInv'
  BY <1>5 DEF Write, group, history, CrossInv, Opening, Closing, Within, Judging
<1>6. ASSUME NEW n \in Node, Return(n) PROVE CrossInv'
  <2>1. n \in Within
    BY <1>6 DEF Return, Within
  <2>2. \A m \in Node \ {n} : snap'[m] = snap[m]
    BY <1>6, <1>t DEF Return
  <2> QED
    BY <1>6, <1>a, <2>1, <2>2 DEF Return, files, group, history, Stages
<1>7. ASSUME NEW n \in Node, RejectIn(n) PROVE CrossInv'
  <2>1. n \in Within
    BY <1>7 DEF RejectIn, Within
  <2>2. CASE Go(n, "inside") /\ UNCHANGED <<group, scopes, history>>
    BY <1>7, <1>a, <2>1, <2>2 DEF RejectIn, files, group, history, Stages
  <2>3. CASE Leave(n)
    BY <1>7, <1>b, <2>1, <2>3 DEF RejectIn, files
  <2> QED
    BY <1>7, <2>2, <2>3 DEF RejectIn
<1>8. ASSUME NEW n \in Node, PassIn(n) PROVE CrossInv'
  BY <1>8, <1>b DEF PassIn, files, Within
<1>9. ASSUME NEW n \in Node, EndIn(n) PROVE CrossInv'
  BY <1>9, <1>b DEF EndIn, files, Within
<1>10. ASSUME NEW n \in Node, Sees(n, "closing", "checking") PROVE CrossInv'
  <2>1. ~ crossed /\ n \in Judging /\ n \in Closing /\ Go(n, "checking")
        /\ UNCHANGED <<changed, before>>
    BY <1>10 DEF Sees, files, group, history, Judging, Closing
  <2>2. \A m \in Node \ {n} : snap'[m] = snap[m]
    BY <1>10, <1>t DEF Sees
  <2> QED
    BY <1>a, <2>1, <2>2 DEF Stages
<1>11. ASSUME NEW n \in Node, CheckIn(n) PROVE CrossInv'
  <2>1. /\ ~ crossed /\ n \in Closing /\ changed' = changed /\ stage[n] = "checking"
        /\ before' = Undefined
        /\ snap'[n] = Leaks(n) /\ \A m \in Node \ {n} : snap'[m] = snap[m]
    BY <1>11, <1>t DEF CheckIn, files, history, Closing
  <2>2. Opening = {} /\ Within = {} /\ Closing \subseteq {n}
    BY <2>1 DEF CrossInv
  <2>3. \E s \in Stages : Go(n, s) /\ s \in {"out", "rolling"}
    BY <1>11 DEF CheckIn, Stages
  <2>4. stage'[n] \in {"out", "rolling"} /\ \A m \in Node \ {n} : stage'[m] = stage[m]
    BY <1>t, <2>3, Going
  <2>5. Opening' = {} /\ Within' = {} /\ Closing' \subseteq {n} /\ Judging' = {}
    BY <1>t, <2>2, <2>3, Moving, Apart
  <2>6. snap'[n] \cap Dirty = {}
    BY <2>1, DirtyIsKnown
  <2>7. \A m \in Node : stage'[m] = "opened" => Dirty \subseteq snap'[m]
    BY <2>1, <2>4 DEF CrossInv
  <2>8. \A m \in Node : stage'[m] = "rolling" => snap'[m] \cap Dirty = {}
    BY <2>1, <2>4, <2>6 DEF CrossInv
  <2> QED
    BY <2>1, <2>5, <2>7, <2>8 DEF CrossInv
<1>12. ASSUME NEW n \in Node, NEW p \in Path, RollBackIn(n, p) PROVE CrossInv'
  <2>1. /\ ~ crossed /\ n \in Closing /\ stage[n] = "rolling" /\ p \in snap[n]
        /\ changed' = changed \ {p} /\ before' = before
        /\ snap'[n] = snap[n] \ {p} /\ \A m \in Node \ {n} : snap'[m] = snap[m]
    BY <1>12, <1>t DEF RollBackIn, Rollback, history, group, Closing
  <2>2. Opening = {} /\ Within = {} /\ Closing \subseteq {n} /\ p \notin Dirty
    BY <2>1 DEF CrossInv
  <2>3. \E s \in Stages : Go(n, s) /\ s \in {"out", "rolling"}
    BY <1>12 DEF RollBackIn, Stages
  <2>4. stage'[n] \in {"out", "rolling"} /\ \A m \in Node \ {n} : stage'[m] = stage[m]
    BY <1>t, <2>3, Going
  <2>5. Opening' = {} /\ Within' = {} /\ Closing' \subseteq {n} /\ Judging' = {}
    BY <1>t, <2>2, <2>3, Moving, Apart
  <2>6. snap'[n] \cap Dirty = {} /\ Dirty \subseteq changed'
    BY <2>1, <2>2 DEF CrossInv
  <2>7. \A m \in Node : stage'[m] = "opened" => Dirty \subseteq snap'[m]
    BY <2>1, <2>4 DEF CrossInv
  <2>8. \A m \in Node : stage'[m] = "rolling" => snap'[m] \cap Dirty = {}
    BY <2>1, <2>4, <2>6 DEF CrossInv
  <2>9. before' # Undefined => Dirty \subseteq before'
    BY <2>1 DEF CrossInv
  <2> QED
    BY <2>1, <2>5, <2>6, <2>7, <2>8, <2>9 DEF CrossInv
<1>13. ASSUME NEW n \in Node, HumanIn(n) PROVE CrossInv'
  <2>1. n \in Within
    BY <1>13 DEF HumanIn, Within
  <2> QED
    BY <1>13, <1>a, <2>1 DEF HumanIn, files, group, history, Stages
<1> QED
  BY <1>0, <1>1, <1>2, <1>3, <1>4, <1>5, <1>6, <1>7, <1>8, <1>9, <1>10, <1>11, <1>12, <1>13,
     GroupSteps
  DEF Types, TypeOK

-----------------------------------------------------------------------------
(* One at a time.                                                          *)

\* Nobody overlaps at the beginning ...
LEMMA SoloInit == Init => SoloInv
<1> SUFFICES ASSUME Init PROVE SoloInv
  OBVIOUS
<1>1. Opening = {} /\ Closing = {}
  BY DEF Init, Opening, Closing
<1> QED
  BY <1>1 DEF Init, SoloInv

\* ... and a step that starts no overlap leaves one alone in the bracket.
LEMMA SoloStep ==
  ASSUME Grouped, Types, SoloInv, [Next]_vars
  PROVE  SoloInv'
<1> SUFFICES ASSUME ~ overlapped'
             PROVE  SoloInv'
  BY DEF SoloInv
<1> USE DEF Types
<1>t. /\ stage \in [Node -> Stages]
      /\ (depth > 0 <=> Within # {}) /\ cap' = cap
  BY WithinIsFinite, SameMode DEF TypeOK
\* A node moves on; it is at the door only if it was, or if nobody is about.
<1>a. ASSUME NEW n \in Node, NEW s \in Stages, Go(n, s), ~ overlapped, ~ crossed',
             s \in {"opening", "opened", "closing", "checking", "rolling"} =>
               n \in Opening \cup Closing \/ (Opening \cup Closing = {} /\ Within \subseteq {n}),
             s \in {"entered", "inside", "reviewing", "loose"} =>
               n \in Opening \cup Closing \/ Opening \cup Closing = {}
      PROVE  SoloInv'
  <2>1. \A k, m \in Opening' \cup Closing' : k = m
    BY <1>a, <1>t, Moving, Apart DEF SoloInv
  <2>2. Opening' \cup Closing' # {} => Within' = {}
    <3>1. CASE s \in {"opening", "opened", "closing", "checking", "rolling"}
      BY <1>a, <1>t, <3>1, Moving, Apart DEF SoloInv
    <3>2. CASE s \in {"entered", "inside", "reviewing", "loose"}
      BY <1>a, <1>t, <3>2, Moving, Apart DEF SoloInv
    <3>3. CASE s \in {"idle", "out"}
      BY <1>a, <1>t, <3>3, Moving, Apart DEF SoloInv
    <3> QED
      BY <3>1, <3>2, <3>3 DEF Stages
  <2> QED
    BY <1>a, <2>1, <2>2 DEF SoloInv
<1>b. ASSUME NEW n \in Node, n \in Within, Leave(n)
      PROVE  SoloInv'
  <2>0. ~ overlapped /\ ~ crossed /\ Opening \cup Closing = {}
    BY <1>b DEF Leave, SoloInv
  <2>1. /\ stage'[n] \in {"closing", "out"} /\ Go(n, stage'[n])
        /\ stage'[n] = "closing" => Within \subseteq {n}
    BY <1>b, <1>t, Departs
  <2>2. stage'[n] \in Stages /\ ~ crossed'
    BY <1>b, <2>0, <2>1 DEF Stages, Leave
  <2> QED
    BY <1>a, <1>b, <2>0, <2>1, <2>2
<1>c. ASSUME NEW n \in Node, NEW s \in Stages, Go(n, s), UNCHANGED history,
             n \in Opening \cup Closing, s # "idle"
      PROVE  SoloInv'
  <2>1. ~ overlapped /\ ~ crossed'
    BY <1>c DEF history, SoloInv
  <2> QED
    BY <1>a, <1>c, <2>1
<1>d. ASSUME NEW n \in Node, NEW s \in Stages, Go(n, s), UNCHANGED history,
             n \in Within, s \in {"entered", "inside", "reviewing", "loose"}
      PROVE  SoloInv'
  <2>1. ~ overlapped /\ ~ crossed' /\ Opening \cup Closing = {}
    BY <1>d DEF history, SoloInv
  <2> QED
    BY <1>a, <1>d, <2>1
<1>0. CASE UNCHANGED vars
  BY <1>0 DEF vars, SoloInv, Opening, Closing, Within
<1>1. ASSUME NEW n \in Node, Enter(n) PROVE SoloInv'
  <2>0. ~ overlapped /\ Opening \cup Closing = {}
    BY <1>1 DEF Enter
  <2>1. ~ crossed'
    BY <1>1, <2>0 DEF Enter, SoloInv
  <2>2. CASE depth > 0
    BY <1>1, <1>a, <2>0, <2>1, <2>2 DEF Enter, Stages
  <2>3. CASE ~ depth > 0
    BY <1>1, <1>a, <1>t, <2>0, <2>1, <2>3 DEF Enter, Stages
  <2> QED
    BY <2>2, <2>3
<1>2. ASSUME NEW n \in Node, Sees(n, "opening", "opened") PROVE SoloInv'
  BY <1>2, <1>c DEF Sees, Opening, Stages
<1>3. ASSUME NEW n \in Node, OpenIn(n) PROVE SoloInv'
  BY <1>3, <1>c DEF OpenIn, Opening, Stages
<1>4. ASSUME NEW n \in Node, Begin(n) PROVE SoloInv'
  BY <1>4, <1>d DEF Begin, Within, Stages
<1>5. ASSUME NEW n \in Node, NEW p \in Path, Write(n, p) PROVE SoloInv'
  BY <1>5 DEF Write, history, SoloInv, Opening, Closing, Within
<1>6. ASSUME NEW n \in Node, Return(n) PROVE SoloInv'
  BY <1>6, <1>d DEF Return, Within, Stages
<1>7. ASSUME NEW n \in Node, RejectIn(n) PROVE SoloInv'
  <2>1. n \in Within
    BY <1>7 DEF RejectIn, Within
  <2>2. CASE Go(n, "inside") /\ UNCHANGED <<group, scopes, history>>
    BY <1>d, <2>1, <2>2 DEF Stages
  <2>3. CASE Leave(n)
    BY <1>b, <2>1, <2>3
  <2> QED
    BY <1>7, <2>2, <2>3 DEF RejectIn
<1>8. ASSUME NEW n \in Node, PassIn(n) PROVE SoloInv'
  BY <1>8, <1>b DEF PassIn, Within
<1>9. ASSUME NEW n \in Node, EndIn(n) PROVE SoloInv'
  BY <1>9, <1>b DEF EndIn, Within
<1>10. ASSUME NEW n \in Node, Sees(n, "closing", "checking") PROVE SoloInv'
  BY <1>10, <1>c DEF Sees, Closing, Stages
<1>11. ASSUME NEW n \in Node, CheckIn(n) PROVE SoloInv'
  BY <1>11, <1>c DEF CheckIn, Closing, Stages
<1>12. ASSUME NEW n \in Node, NEW p \in Path, RollBackIn(n, p) PROVE SoloInv'
  BY <1>12, <1>c DEF RollBackIn, Closing, Stages
<1>13. ASSUME NEW n \in Node, HumanIn(n) PROVE SoloInv'
  BY <1>13, <1>d DEF HumanIn, Within, Stages
<1> QED
  BY <1>0, <1>1, <1>2, <1>3, <1>4, <1>5, <1>6, <1>7, <1>8, <1>9, <1>10, <1>11, <1>12, <1>13,
     GroupSteps
  DEF Types, TypeOK

-----------------------------------------------------------------------------
(* What is rolled back.                                                    *)

\* Nothing has leaked at the beginning ...
LEMMA LeakInit == Init => LeakInv
<1> SUFFICES ASSUME Init PROVE LeakInv
  OBVIOUS
<1>1. Opening = {} /\ Closing = {} /\ Within = {} /\ Judging = {} /\ Kept = {}
  BY DEF Init, Opening, Closing, Within, Judging, Kept
<1> QED
  BY <1>1 DEF Init, LeakInv, Fine

\* The judgement takes what nobody may keep, and leaves what somebody may.
LEMMA LeaksAreNobodys ==
  ASSUME Types, LeakInv, ~ overlapped, NEW n \in Node, stage[n] = "checking"
  PROVE  /\ Leaks(n) \cap Kept = {} /\ Leaks(n) \subseteq Outside
         /\ changed \cap Outside \subseteq Fine \cup Leaks(n)
<1>1. snap[n] = changed \cap Outside
  BY DEF LeakInv
<1>2. Kept \subseteq KnownBefore \cup allowed
  BY DEF LeakInv, Judging
<1>3. KnownBefore \subseteq Fine /\ allowed \subseteq Fine
  BY DEF LeakInv, KnownBefore, Fine
<1> QED
  BY <1>1, <1>2, <1>3 DEF Leaks

\* ... and a step leaves it known what is a leak and what may be kept.
LEMMA LeakStep ==
  ASSUME Grouped, Types, SoloInv, LeakInv, [Next]_vars
  PROVE  LeakInv'
<1> SUFFICES ASSUME ~ overlapped'
             PROVE  LeakInv'
  BY DEF LeakInv
<1> USE DEF Types
<1>t. /\ stage \in [Node -> Stages] /\ snap \in [Node -> SUBSET Path]
      /\ wrote \in [Node -> SUBSET Path]
      /\ running = Within /\ (depth > 0 <=> Within # {}) /\ cap' = cap
  BY WithinIsFinite, SameMode DEF TypeOK, AtWork
<1>k. ASSUME wrote' = wrote PROVE Kept' = Kept
  BY <1>k DEF Kept
<1>f. Fine' = Fine
  BY DEF Fine
<1> DEFINE Any == UNION {Allowed[m] : m \in Node}
\* A node moves on and no file changes.
<1>a. ASSUME NEW n \in Node, NEW s \in Stages, Go(n, s), ~ overlapped, s # "rolling",
             UNCHANGED <<before, files>>, allowed \subseteq allowed', allowed' \subseteq Any,
             s \in {"entered", "inside", "reviewing", "loose"} =>
               Within # {} /\ Allowed[n] \subseteq allowed',
             s \in {"closing", "checking"} => n \in Within \cup Judging,
             Within' = {} /\ Closing' = {} => Within = {} /\ Closing = {},
             \A m \in Node \ {n} : snap'[m] = snap[m],
             s = "opened" => Kept \subseteq snap'[n] /\ snap'[n] \subseteq Fine,
             s = "checking" => snap'[n] = changed \cap Outside
      PROVE  LeakInv'
  <2>0. stage'[n] = s /\ \A m \in Node \ {n} : stage'[m] = stage[m]
    BY <1>a, <1>t, Going
  <2>1. KnownBefore' = KnownBefore /\ Kept' = Kept /\ changed' = changed
    BY <1>a, <1>k DEF KnownBefore, files
  <2>2. \A m \in Within' : Allowed[m] \subseteq allowed'
    BY <1>a, <2>0 DEF LeakInv, Within
  <2>3. Within' \cup Judging' # {} => Within \cup Judging # {}
    BY <1>a, <1>t, Moving, Apart
  <2>4. Within' \cup Judging' # {} => Kept' \subseteq (KnownBefore \cup allowed)'
    BY <1>a, <2>1, <2>3 DEF LeakInv
  <2>5. \A m \in Node : stage'[m] = "opened" => Kept' \subseteq snap'[m] /\ snap'[m] \subseteq Fine
    BY <1>a, <2>0, <2>1 DEF LeakInv
  <2>6. \A m \in Node : stage'[m] = "checking" => snap'[m] = changed' \cap Outside
    BY <1>a, <2>0, <2>1 DEF LeakInv
  <2>7. \A m \in Node : stage'[m] = "rolling" =>
          snap'[m] \cap Kept' = {} /\ changed' \cap Outside \subseteq Fine \cup snap'[m]
    BY <1>a, <2>0, <2>1 DEF LeakInv
  <2>8. Within' = {} /\ Closing' = {} => changed' \cap Outside \subseteq Fine
    BY <1>a, <2>1 DEF LeakInv
  <2>9. (before' # Undefined => before' \subseteq Fine) /\ Kept' \subseteq changed'
    BY <1>a, <2>1 DEF LeakInv
  <2> QED
    BY <1>a, <1>f, <2>2, <2>4, <2>5, <2>6, <2>7, <2>8, <2>9 DEF LeakInv
<1>b. ASSUME NEW n \in Node, n \in Within, Leave(n), UNCHANGED <<files, snap>>
      PROVE  LeakInv'
  <2>1. /\ stage'[n] \in {"closing", "out"} /\ Go(n, stage'[n])
        /\ stage'[n] = "out" => Within' # {}
    BY <1>b, <1>t, Departs
  <2>2. stage'[n] \in Stages
    BY <2>1 DEF Stages
  <2>3. stage'[n] = "closing" => Closing' # {}
    BY <1>t, <2>1, <2>2, Moving
  <2>4. ~ overlapped /\ UNCHANGED <<before, allowed>> /\ allowed \subseteq Any
    BY <1>b DEF Leave, LeakInv
  <2> QED
    BY <1>a, <1>b, <2>1, <2>2, <2>3, <2>4
<1>i. ASSUME NEW n \in Node, n \in Within, NEW s \in {"inside", "reviewing", "loose"}, Go(n, s),
             UNCHANGED <<group, files, history>>, \A m \in Node \ {n} : snap'[m] = snap[m]
      PROVE  LeakInv'
  <2>1. s \in Stages /\ Within' # {}
    BY <1>i, <1>t, Moving DEF Stages
  <2>2. ~ overlapped /\ UNCHANGED <<before, allowed>>
    BY <1>i DEF group, history
  <2>3. allowed \subseteq Any /\ Allowed[n] \subseteq allowed
    BY <1>i, <2>2 DEF LeakInv
  <2> QED
    BY <1>a, <1>i, <2>1, <2>2, <2>3
<1>0. CASE UNCHANGED vars
  BY <1>0 DEF vars, LeakInv, Within, Closing, Judging, Kept, KnownBefore, Fine
<1>1. ASSUME NEW n \in Node, Enter(n) PROVE LeakInv'
  <2>0. ~ overlapped /\ UNCHANGED <<files, snap>>
    BY <1>1 DEF Enter
  <2>1. allowed \subseteq Any /\ Allowed[n] \subseteq Any
    BY <2>0 DEF LeakInv
  <2>2. CASE depth > 0
    <3>1. Go(n, "entered") /\ allowed' = allowed \cup Allowed[n] /\ before' = before
      BY <1>1, <2>2 DEF Enter
    <3>2. Within # {} /\ Within' # {}
      BY <2>2, <1>t, <3>1, Moving DEF Stages
    <3> QED
      BY <1>a, <2>0, <2>1, <3>1, <3>2 DEF Stages
  <2>3. CASE ~ depth > 0
    <3>1. Go(n, "opening") /\ UNCHANGED <<before, allowed>>
      BY <1>1, <2>3 DEF Enter, group
    <3>2. Within = {} /\ Closing = {}
      BY <1>1, <2>0, <2>3, <1>t DEF Enter
    <3> QED
      BY <1>a, <2>0, <2>1, <3>1, <3>2 DEF Stages
  <2> QED
    BY <2>2, <2>3
<1>2. ASSUME NEW n \in Node, Sees(n, "opening", "opened") PROVE LeakInv'
  <2>1. n \in Opening /\ Go(n, "opened") /\ ~ overlapped /\ UNCHANGED <<before, allowed, files>>
    BY <1>2 DEF Sees, Opening, group, history
  <2>2. Within = {} /\ Closing = {}
    BY <2>1, Apart DEF SoloInv
  <2>3. snap'[n] = changed \cap Outside /\ \A m \in Node \ {n} : snap'[m] = snap[m]
    BY <1>2, <1>t DEF Sees
  <2>4. Kept \subseteq Outside
    BY DEF Kept
  <2>5. Kept \subseteq snap'[n] /\ snap'[n] \subseteq Fine /\ allowed \subseteq Any
    BY <2>1, <2>2, <2>3, <2>4 DEF LeakInv
  <2> QED
    BY <1>a, <2>1, <2>2, <2>3, <2>5 DEF Stages
<1>3. ASSUME NEW n \in Node, OpenIn(n) PROVE LeakInv'
  <2>1. /\ n \in Opening /\ Go(n, "entered") /\ ~ overlapped /\ stage[n] = "opened"
        /\ UNCHANGED <<changed, wrote, snap>>
        /\ before' = snap[n] /\ allowed' = Allowed[n]
    BY <1>3 DEF OpenIn, Opening, SnapshotOf, files, history
  <2>2. Within = {} /\ Closing = {} /\ Opening \subseteq {n}
    BY <2>1, Apart DEF SoloInv
  <2>3. before' \subseteq Outside /\ Kept \subseteq before' /\ before' \subseteq Fine
    BY <2>1 DEF LeakInv, SnapInv
  <2>4. KnownBefore' = before'
    BY <2>3, PathsAssumption DEF KnownBefore
  <2>5. Within' = {n} /\ Closing' = {} /\ Opening' = {}
    BY <1>t, <2>1, <2>2, Moving, Apart DEF Stages
  <2>6. \A m \in Node : stage'[m] \notin {"opened", "checking", "rolling"}
    BY <2>5 DEF Closing, Opening
  <2>7. Kept' = Kept /\ Kept \subseteq changed'
    BY <1>k, <2>1 DEF LeakInv
  <2>8. allowed' \subseteq Any
    BY <2>1
  <2> QED
    BY <1>f, <2>1, <2>3, <2>4, <2>5, <2>6, <2>7, <2>8 DEF LeakInv
<1>4. ASSUME NEW n \in Node, Begin(n) PROVE LeakInv'
  BY <1>4, <1>i DEF Begin, Within
<1>5. ASSUME NEW n \in Node, NEW p \in Path, Write(n, p) PROVE LeakInv'
  <2>1. /\ n \in Within /\ changed' = changed \cup {p}
        /\ UNCHANGED <<stage, before, allowed, snap>> /\ ~ overlapped
    BY <1>5 DEF Write, Within, group, history
  <2>2. Opening \cup Closing = {}
    BY <2>1 DEF SoloInv
  <2>3. wrote'[n] = wrote[n] \cup {p} /\ \A m \in Node \ {n} : wrote'[m] = wrote[m]
    BY <1>5, <1>t DEF Write
  <2>4. Kept' \subseteq Kept \cup ({p} \cap Allowed[n])
    BY <2>3 DEF Kept
  <2>5. Within' = Within /\ Closing' = {} /\ Opening' = {} /\ KnownBefore' = KnownBefore
    BY <2>1, <2>2 DEF Within, Closing, Opening, KnownBefore
  <2>6. \A m \in Node : stage'[m] \notin {"opened", "checking", "rolling"}
    BY <2>5 DEF Closing, Opening
  <2>7. Kept \subseteq KnownBefore \cup allowed /\ Allowed[n] \subseteq allowed
    BY <2>1 DEF LeakInv
  <2>8. Kept' \subseteq KnownBefore' \cup allowed' /\ Kept' \subseteq changed'
    BY <2>1, <2>4, <2>5, <2>7 DEF LeakInv
  <2> QED
    BY <1>f, <2>1, <2>5, <2>6, <2>8 DEF LeakInv
<1>6. ASSUME NEW n \in Node, Return(n) PROVE LeakInv'
  <2>1. n \in Within /\ \A m \in Node \ {n} : snap'[m] = snap[m]
    BY <1>6, <1>t DEF Return, Within
  <2> QED
    BY <1>6, <1>i, <2>1 DEF Return
<1>7. ASSUME NEW n \in Node, RejectIn(n) PROVE LeakInv'
  <2>1. n \in Within
    BY <1>7 DEF RejectIn, Within
  <2>2. CASE Go(n, "inside") /\ UNCHANGED <<group, scopes, history>>
    BY <1>7, <1>i, <2>1, <2>2 DEF RejectIn
  <2>3. CASE Leave(n)
    BY <1>7, <1>b, <2>1, <2>3 DEF RejectIn
  <2> QED
    BY <1>7, <2>2, <2>3 DEF RejectIn
<1>8. ASSUME NEW n \in Node, PassIn(n) PROVE LeakInv'
  BY <1>8, <1>b DEF PassIn, Within
<1>9. ASSUME NEW n \in Node, EndIn(n) PROVE LeakInv'
  BY <1>9, <1>b DEF EndIn, Within
<1>10. ASSUME NEW n \in Node, Sees(n, "closing", "checking") PROVE LeakInv'
  <2>1. /\ n \in Judging /\ Go(n, "checking") /\ ~ overlapped
        /\ UNCHANGED <<before, allowed, files>>
    BY <1>10 DEF Sees, Judging, group, history
  <2>2. Closing' # {}
    BY <1>t, <2>1, Moving DEF Stages
  <2>3. snap'[n] = changed \cap Outside /\ \A m \in Node \ {n} : snap'[m] = snap[m]
    BY <1>10, <1>t DEF Sees
  <2>4. allowed \subseteq Any
    BY <2>1 DEF LeakInv
  <2> QED
    BY <1>a, <2>1, <2>2, <2>3, <2>4 DEF Stages
<1>11. ASSUME NEW n \in Node, CheckIn(n) PROVE LeakInv'
  <2>1. /\ ~ overlapped /\ n \in Closing /\ UNCHANGED <<changed, wrote>>
        /\ stage[n] = "checking" /\ before' = Undefined /\ allowed' = {}
        /\ snap'[n] = Leaks(n) /\ \A m \in Node \ {n} : snap'[m] = snap[m]
        /\ Go(n, IF Leaks(n) = {} THEN "out" ELSE "rolling")
    BY <1>11, <1>t DEF CheckIn, files, history, Closing
  <2>2. Opening \subseteq {} /\ Within = {} /\ Closing \subseteq {n}
    BY <2>1, Apart DEF SoloInv
  <2>3. \E s \in {"out", "rolling"} : Go(n, s) /\ s = IF Leaks(n) = {} THEN "out" ELSE "rolling"
    BY <2>1
  <2>4. /\ (stage'[n] = "out" /\ Leaks(n) = {}) \/ stage'[n] = "rolling"
        /\ \A m \in Node \ {n} : stage'[m] = stage[m]
    BY <1>t, <2>3, Going DEF Stages
  <2>5. Opening' = {} /\ Within' = {} /\ Closing' \subseteq {n} /\ Judging' = {}
    BY <1>t, <2>2, <2>3, Moving, Apart DEF Stages
  <2>6. \A m \in Node : stage'[m] \notin {"opened", "checking"}
    BY <2>5 DEF Opening, Judging
  <2>7. \A m \in Node : stage'[m] = "rolling" => m = n
    BY <2>5 DEF Closing
  <2>8. Kept' = Kept /\ Kept \subseteq changed'
    BY <1>k, <2>1 DEF LeakInv
  <2>9. Leaks(n) \cap Kept = {} /\ changed' \cap Outside \subseteq Fine \cup Leaks(n)
    BY <2>1, LeaksAreNobodys
  <2>10. Closing' = {} => Leaks(n) = {}
    BY <2>4 DEF Closing
  <2> QED
    BY <1>f, <2>1, <2>5, <2>6, <2>7, <2>8, <2>9, <2>10 DEF LeakInv
<1>12. ASSUME NEW n \in Node, NEW p \in Path, RollBackIn(n, p) PROVE LeakInv'
  <2>1. /\ ~ overlapped /\ n \in Closing /\ stage[n] = "rolling" /\ p \in snap[n]
        /\ changed' = changed \ {p} /\ UNCHANGED <<wrote, before, allowed>>
        /\ snap'[n] = snap[n] \ {p} /\ \A m \in Node \ {n} : snap'[m] = snap[m]
        /\ Go(n, IF snap'[n] = {} THEN "out" ELSE "rolling")
    BY <1>12, <1>t DEF RollBackIn, Rollback, history, group, Closing
  <2>2. Opening \subseteq {} /\ Within = {} /\ Closing \subseteq {n}
    BY <2>1, Apart DEF SoloInv
  <2>3. \E s \in {"out", "rolling"} : Go(n, s) /\ s = IF snap'[n] = {} THEN "out" ELSE "rolling"
    BY <2>1
  <2>4. /\ (stage'[n] = "out" /\ snap'[n] = {}) \/ stage'[n] = "rolling"
        /\ \A m \in Node \ {n} : stage'[m] = stage[m]
    BY <1>t, <2>3, Going DEF Stages
  <2>5. Opening' = {} /\ Within' = {} /\ Closing' \subseteq {n} /\ Judging' = {}
    BY <1>t, <2>2, <2>3, Moving, Apart DEF Stages
  <2>6. \A m \in Node : stage'[m] \notin {"opened", "checking"}
    BY <2>5 DEF Opening, Judging
  <2>7. \A m \in Node : stage'[m] = "rolling" => m = n
    BY <2>5 DEF Closing
  <2>8. Kept' = Kept /\ Kept \subseteq changed'
    BY <1>k, <2>1 DEF LeakInv
  <2>9. snap'[n] \cap Kept = {} /\ changed' \cap Outside \subseteq Fine \cup snap'[n]
    BY <2>1 DEF LeakInv
  <2>10. Closing' = {} => snap'[n] = {}
    BY <2>4 DEF Closing
  <2>11. (before' # Undefined => before' \subseteq Fine) /\ allowed' \subseteq Any
    BY <2>1 DEF LeakInv
  <2> QED
    BY <1>f, <2>1, <2>5, <2>6, <2>7, <2>8, <2>9, <2>10, <2>11 DEF LeakInv
<1>13. ASSUME NEW n \in Node, HumanIn(n) PROVE LeakInv'
  BY <1>13, <1>i DEF HumanIn, Within
<1> QED
  BY <1>0, <1>1, <1>2, <1>3, <1>4, <1>5, <1>6, <1>7, <1>8, <1>9, <1>10, <1>11, <1>12, <1>13,
     GroupSteps
  DEF Types, TypeOK

-----------------------------------------------------------------------------
(* A run without a group: one node at a time.                              *)

\* What may be there: also what no bracket enclosed.
FineAlone == Fine \cup UNION {loose[m] : m \in Node}

\* What is known while n is the node at work.
AloneAt(n) ==
  /\ stage[n] \in {"opening", "opened", "loose"} => changed \cap Outside \subseteq FineAlone
  /\ stage[n] = "opened" => Dirty \cup Kept \subseteq snap[n]
  /\ stage[n] \in {"entered", "inside", "reviewing", "closing", "checking"} =>
       /\ before # Undefined /\ Dirty \subseteq before /\ before \subseteq FineAlone
       /\ Kept \subseteq before \cup Allowed[n]
       /\ allowed = Allowed[n]
       /\ changed \cap Outside \subseteq FineAlone \cup wrote[n]
  /\ stage[n] \in {"opened", "checking"} => snap[n] = changed \cap Outside
  /\ stage[n] = "rolling" => /\ snap[n] \cap (Dirty \cup Kept) = {}
                             /\ changed \cap Outside \subseteq FineAlone \cup snap[n]

\* One node is at work; nothing is lost that may stay, and what should not be
\* there is what the node at work wrote, or is about to put back.
AloneInv ==
  /\ \A m, n \in Started : m = n
  /\ ~ overlapped /\ ~ crossed
  /\ Dirty \cup Kept \subseteq changed
  /\ \A n \in Node : AloneAt(n)
  /\ Started = {} => changed \cap Outside \subseteq FineAlone

\* Nobody is at work at the beginning ...
LEMMA AloneInit == Init => AloneInv
<1> SUFFICES ASSUME Init PROVE AloneInv
  OBVIOUS
<1>1. Started = {} /\ Kept = {} /\ \A n \in Node : stage[n] = "idle"
  BY DEF Init, Started, Kept
<1>2. \A n \in Node : AloneAt(n)
  BY <1>1 DEF AloneAt
<1> QED
  BY <1>1, <1>2 DEF Init, AloneInv, FineAlone, Fine

\* With max_parallel 1 a node starts when no other is at work.
LEMMA StartsAlone ==
  ASSUME Types, ~ Grouped, NEW n \in Node, MayStart(n)
  PROVE  Started = {}
<1>1. Started \subseteq Node /\ IsFiniteSet(Node)
  BY NodesAssumption DEF Started
<1>2. IsFiniteSet(Started)
  BY <1>1, FS_Subset
<1>3. cap = 1 /\ Cardinality(Started) \in Nat
  BY <1>2, FS_CardinalityType DEF Grouped
<1>4. Cardinality(Started) = 0
  BY <1>3 DEF MayStart
<1> QED
  BY <1>2, <1>4, FS_EmptySet

\* ... and a step leaves one at work, who knows what to put back.
LEMMA AloneStep ==
  ASSUME ~ Grouped, Types, AloneInv, [Next]_vars
  PROVE  AloneInv'
<1> USE DEF Types
<1>t. /\ stage \in [Node -> Stages] /\ snap \in [Node -> SUBSET Path]
      /\ wrote \in [Node -> SUBSET Path] /\ loose \in [Node -> SUBSET Path]
  BY DEF TypeOK
<1>k. ASSUME wrote' = wrote PROVE Kept' = Kept
  BY <1>k DEF Kept
<1>f. ASSUME loose' = loose PROVE FineAlone' = FineAlone
  BY <1>f DEF FineAlone, Fine
<1>d. Dirty \subseteq Outside /\ Kept \subseteq Outside
  BY PathsAssumption DEF Kept
\* One node moves on, and the invariant holds of it.
<1>z. ASSUME NEW n \in Node, NEW s \in Stages, Go(n, s), Started \subseteq {n},
             UNCHANGED history, Dirty \cup Kept' \subseteq changed', AloneAt(n)',
             s = "out" => changed' \cap Outside \subseteq FineAlone', s # "idle"
      PROVE  AloneInv'
  <2>1. stage'[n] = s /\ \A m \in Node \ {n} : stage'[m] = stage[m]
    BY <1>t, <1>z, Going
  <2>2. \A m \in Node \ {n} : stage'[m] \in {"idle", "out"}
    BY <1>z, <2>1 DEF Started
  <2>3. Started' \subseteq {n} /\ (Started' = {} => s = "out")
    BY <1>z, <2>1, <2>2 DEF Started
  <2>4. \A m \in Node \ {n} : AloneAt(m)'
    BY <2>2 DEF AloneAt
  <2>5. \A m \in Node : AloneAt(m)'
    BY <1>z, <2>4
  <2>6. ~ overlapped' /\ ~ crossed'
    BY <1>z DEF AloneInv, history
  <2> QED
    BY <1>z, <2>3, <2>5, <2>6 DEF AloneInv
\* Only the stage changes, of the node at work.
<1>s. ASSUME NEW n \in Node, stage[n] \notin {"idle", "out"} PROVE Started \subseteq {n} /\ AloneAt(n)
  BY <1>s DEF AloneInv, Started
\* The call goes on, or ends.
<1>e. ASSUME NEW n \in Node, stage[n] \in {"entered", "inside", "reviewing"},
             NEW s \in {"inside", "reviewing", "closing"}, Go(n, s),
             UNCHANGED <<group, files, history>>
      PROVE  AloneInv'
  <2>1. s \in Stages
    BY DEF Stages
  <2>2. stage'[n] = s /\ Started \subseteq {n} /\ AloneAt(n) /\ Dirty \cup Kept \subseteq changed
    BY <1>e, <1>s, <1>t, <2>1, Going DEF AloneInv
  <2>3. Kept' = Kept /\ FineAlone' = FineAlone /\ UNCHANGED <<changed, wrote, before, allowed>>
    BY <1>e, <1>k, <1>f DEF files, group
  <2>4. AloneAt(n)'
    BY <1>e, <2>2, <2>3 DEF AloneAt
  <2> QED
    BY <1>e, <1>z, <2>1, <2>2, <2>3, <2>4
<1>c. ASSUME NEW n \in Node, CallEnds(n)
      PROVE  Go(n, "closing") /\ UNCHANGED <<group, scopes, history>>
  BY <1>c DEF CallEnds
<1>0. CASE UNCHANGED vars
  <2>1. UNCHANGED <<Started, Kept, FineAlone>>
    BY <1>0 DEF vars, Started, Kept, FineAlone, Fine
  <2>2. \A n \in Node : AloneAt(n)'
    BY <1>0, <2>1 DEF vars, AloneInv, AloneAt
  <2> QED
    BY <1>0, <2>1, <2>2 DEF vars, AloneInv
<1>1. ASSUME NEW n \in Node, EnterAlone(n) PROVE AloneInv'
  <2>1. PICK s \in {"opening", "loose"} : Go(n, s)
    BY <1>1 DEF EnterAlone
  <2>2. s \in Stages /\ Started = {}
    BY <1>1, StartsAlone DEF EnterAlone, Stages
  <2>3. stage'[n] = s /\ changed \cap Outside \subseteq FineAlone /\ Dirty \cup Kept \subseteq changed
    BY <1>t, <2>1, <2>2, Going DEF AloneInv
  <2>4. /\ Kept' = Kept /\ FineAlone' = FineAlone /\ changed' = changed /\ UNCHANGED history
    BY <1>1, <1>k, <1>f DEF EnterAlone, files
  <2>5. AloneAt(n)'
    BY <2>3, <2>4 DEF AloneAt
  <2> QED
    BY <1>z, <2>1, <2>2, <2>3, <2>4, <2>5
<1>2. ASSUME NEW n \in Node, Sees(n, "opening", "opened") PROVE AloneInv'
  <2>1. /\ Go(n, "opened") /\ stage'[n] = "opened" /\ "opened" \in Stages
        /\ snap'[n] = changed \cap Outside
    BY <1>2, <1>t, Going DEF Sees, Stages
  <2>2. Started \subseteq {n} /\ AloneAt(n) /\ Dirty \cup Kept \subseteq changed
    BY <1>2, <1>s DEF Sees, AloneInv
  <2>3. Kept' = Kept /\ FineAlone' = FineAlone /\ changed' = changed /\ UNCHANGED history
    BY <1>2, <1>k, <1>f DEF Sees, files
  <2>4. AloneAt(n)'
    BY <1>2, <1>d, <2>1, <2>2, <2>3 DEF Sees, AloneAt
  <2> QED
    BY <1>z, <2>1, <2>2, <2>3, <2>4
<1>3. ASSUME NEW n \in Node, Open(n) PROVE AloneInv'
  <2>1. /\ Go(n, "entered") /\ stage'[n] = "entered" /\ "entered" \in Stages
        /\ before' = snap[n] /\ allowed' = Allowed[n] /\ stage[n] = "opened"
    BY <1>3, <1>t, Going DEF Open, SnapshotOf, Stages
  <2>2. Started \subseteq {n} /\ AloneAt(n) /\ Dirty \cup Kept \subseteq changed
    BY <1>3, <1>s DEF Open, AloneInv
  <2>3. /\ Kept' = Kept /\ FineAlone' = FineAlone /\ UNCHANGED <<changed, wrote, history>>
    BY <1>3, <1>k, <1>f DEF Open, files
  <2>4. before' # Undefined
    BY <2>1, PathsAssumption DEF SnapInv
  <2>5. AloneAt(n)'
    BY <2>1, <2>2, <2>3, <2>4 DEF AloneAt
  <2> QED
    BY <1>z, <2>1, <2>2, <2>3, <2>5
<1>4. ASSUME NEW n \in Node, Begin(n) PROVE AloneInv'
  BY <1>4, <1>e DEF Begin
<1>5. ASSUME NEW n \in Node, NEW p \in Path, Write(n, p) PROVE AloneInv'
  <2>1. /\ stage[n] \in {"inside", "loose"} /\ changed' = changed \cup {p}
        /\ UNCHANGED <<stage, before, allowed, snap, history>>
    BY <1>5 DEF Write, group
  <2>2. Started \subseteq {n} /\ AloneAt(n) /\ Dirty \cup Kept \subseteq changed
    BY <2>1, <1>s DEF AloneInv
  <2>3. wrote'[n] = wrote[n] \cup {p} /\ \A m \in Node \ {n} : wrote'[m] = wrote[m]
    BY <1>5, <1>t DEF Write
  <2>4. Kept \subseteq Kept' /\ Kept' \subseteq Kept \cup ({p} \cap Allowed[n])
    BY <2>3 DEF Kept
  <2>5. \A m \in Node : loose[m] \subseteq loose'[m]
    BY <1>5, <1>t DEF Write
  <2>6. FineAlone \subseteq FineAlone' /\ (stage[n] = "loose" => p \in FineAlone')
    <3>1. stage[n] = "loose" => p \in loose'[n]
      BY <1>5, <1>t DEF Write
    <3> QED
      BY <2>5, <3>1 DEF FineAlone, Fine
  <2>7. AloneAt(n)'
    <3>1. CASE stage[n] = "inside"
      BY <2>1, <2>2, <2>3, <2>4, <2>6, <3>1 DEF AloneAt
    <3>2. CASE stage[n] = "loose"
      BY <2>1, <2>2, <2>6, <3>2 DEF AloneAt
    <3> QED
      BY <2>1, <3>1, <3>2
  <2>8. stage' = [stage EXCEPT ![n] = stage[n]] /\ stage[n] \in Stages
    BY <1>t, <2>1
  <2> QED
    BY <1>z, <2>1, <2>2, <2>4, <2>7, <2>8 DEF Go
<1>6. ASSUME NEW n \in Node, Return(n) PROVE AloneInv'
  BY <1>6, <1>e DEF Return
<1>7. ASSUME NEW n \in Node, Reject(n) PROVE AloneInv'
  BY <1>7, <1>c, <1>e DEF Reject
<1>8. ASSUME NEW n \in Node, Pass(n) PROVE AloneInv'
  BY <1>8, <1>c, <1>e DEF Pass
<1>9. ASSUME NEW n \in Node, End(n) PROVE AloneInv'
  BY <1>9, <1>c, <1>e DEF End
<1>10. ASSUME NEW n \in Node, Throw(n) PROVE AloneInv'
  <2>1. /\ Go(n, "out") /\ stage'[n] = "out" /\ "out" \in Stages
        /\ stage[n] \in {"entered", "inside", "reviewing"} /\ UNCHANGED <<changed, wrote, history>>
    BY <1>10, <1>t, Going DEF Throw, Out, Stages
  <2>2. Started \subseteq {n} /\ AloneAt(n) /\ Dirty \cup Kept \subseteq changed
    BY <2>1, <1>s DEF AloneInv
  <2>3. \A m \in Node : loose[m] \subseteq loose'[m] /\ wrote[n] \subseteq loose'[n]
    BY <1>10, <1>t DEF Throw
  <2>4. FineAlone \cup wrote[n] \subseteq FineAlone'
    BY <2>3 DEF FineAlone, Fine
  <2>5. changed' \cap Outside \subseteq FineAlone' /\ Kept' = Kept /\ AloneAt(n)'
    BY <1>k, <2>1, <2>2, <2>4 DEF AloneAt
  <2> QED
    BY <1>z, <2>1, <2>2, <2>5
<1>11. ASSUME NEW n \in Node, EndLoose(n) PROVE AloneInv'
  <2>1. /\ Go(n, "out") /\ stage'[n] = "out" /\ "out" \in Stages
        /\ stage[n] = "loose" /\ UNCHANGED <<files, history>>
    BY <1>11, <1>t, Going DEF EndLoose, Out, Stages
  <2>2. Started \subseteq {n} /\ AloneAt(n) /\ Dirty \cup Kept \subseteq changed
    BY <2>1, <1>s DEF AloneInv
  <2>3. Kept' = Kept /\ FineAlone' = FineAlone /\ changed' = changed
    BY <1>k, <1>f, <2>1 DEF files
  <2>4. changed' \cap Outside \subseteq FineAlone' /\ AloneAt(n)'
    BY <2>1, <2>2, <2>3 DEF AloneAt
  <2> QED
    BY <1>z, <2>1, <2>2, <2>3, <2>4
<1>12. ASSUME NEW n \in Node, Sees(n, "closing", "checking") PROVE AloneInv'
  <2>1. /\ Go(n, "checking") /\ stage'[n] = "checking" /\ "checking" \in Stages
        /\ snap'[n] = changed \cap Outside /\ stage[n] = "closing"
        /\ UNCHANGED <<group, files, history>>
    BY <1>12, <1>t, Going DEF Sees, Stages
  <2>2. Started \subseteq {n} /\ AloneAt(n) /\ Dirty \cup Kept \subseteq changed
    BY <2>1, <1>s DEF AloneInv
  <2>3. /\ Kept' = Kept /\ FineAlone' = FineAlone
        /\ UNCHANGED <<changed, wrote, before, allowed>>
    BY <1>k, <1>f, <2>1 DEF files, group
  <2>4. AloneAt(n)'
    BY <2>1, <2>2, <2>3 DEF AloneAt
  <2> QED
    BY <1>z, <2>1, <2>2, <2>3, <2>4
<1>13. ASSUME NEW n \in Node, Check(n) PROVE AloneInv'
  <2>1. /\ stage[n] = "checking" /\ UNCHANGED <<files, history>> /\ snap'[n] = Leaks(n)
    BY <1>13, <1>t DEF Check, HumanRound
  <2>2. Started \subseteq {n} /\ AloneAt(n) /\ Dirty \cup Kept \subseteq changed
    BY <2>1, <1>s DEF AloneInv
  <2>3. Kept' = Kept /\ FineAlone' = FineAlone /\ changed' = changed
    BY <1>k, <1>f, <2>1 DEF files
  <2>4. Leaks(n) \cap (Dirty \cup Kept) = {}
    BY <2>1, <2>2 DEF AloneAt, Leaks, KnownBefore
  <2>5. changed \cap Outside \subseteq FineAlone \cup Leaks(n)
    <3>1. before \subseteq FineAlone /\ KnownBefore = before /\ allowed \subseteq FineAlone
          /\ snap[n] = changed \cap Outside
      BY <2>1, <2>2 DEF AloneAt, KnownBefore, FineAlone, Fine
    <3> QED
      BY <3>1 DEF Leaks
  <2>6. PICK s \in {"out", "rolling", "loose"} : Go(n, s) /\ (s # "rolling" => Leaks(n) = {})
    BY <1>13 DEF Check, JudgedOut, Out, HumanRound
  <2>7. s \in Stages /\ stage'[n] = s
    BY <1>t, <2>6, Going DEF Stages
  <2>8. AloneAt(n)'
    BY <2>1, <2>3, <2>4, <2>5, <2>6, <2>7 DEF AloneAt
  <2> QED
    BY <1>z, <2>1, <2>2, <2>3, <2>5, <2>6, <2>7, <2>8
<1>14. ASSUME NEW n \in Node, NEW p \in Path, RollBack(n, p) PROVE AloneInv'
  <2>1. /\ stage[n] = "rolling" /\ p \in snap[n] /\ changed' = changed \ {p}
        /\ snap'[n] = snap[n] \ {p} /\ UNCHANGED <<wrote, loose, history>>
    BY <1>14, <1>t DEF RollBack, Rollback
  <2>2. Started \subseteq {n} /\ AloneAt(n) /\ Dirty \cup Kept \subseteq changed
    BY <2>1, <1>s DEF AloneInv
  <2>3. Kept' = Kept /\ FineAlone' = FineAlone
    BY <1>k, <1>f, <2>1
  <2>4. /\ snap'[n] \cap (Dirty \cup Kept) = {} /\ Dirty \cup Kept \subseteq changed'
        /\ changed' \cap Outside \subseteq FineAlone \cup snap'[n]
    BY <2>1, <2>2 DEF AloneAt
  <2>5. PICK s \in {"out", "rolling"} : Go(n, s) /\ (s = "out" => snap'[n] = {})
    <3>1. CASE snap'[n] = {}
      BY <1>14, <3>1 DEF RollBack, JudgedOut, Out
    <3>2. CASE snap'[n] # {}
      <4>1. stage' = [stage EXCEPT ![n] = "rolling"]
        BY <1>14, <1>t, <2>1, <3>2 DEF RollBack
      <4> QED
        BY <4>1 DEF Go
    <3> QED
      BY <3>1, <3>2
  <2>6. s \in Stages /\ stage'[n] = s
    BY <1>t, <2>5, Going DEF Stages
  <2>7. AloneAt(n)'
    BY <2>3, <2>4, <2>5, <2>6 DEF AloneAt
  <2> QED
    BY <1>z, <2>1, <2>2, <2>3, <2>4, <2>5, <2>6, <2>7
<1>15. \A n \in Node : ~ Enter(n)
  BY DEF Enter
<1> QED
  BY <1>0, <1>1, <1>2, <1>3, <1>4, <1>5, <1>6, <1>7, <1>8, <1>9, <1>10, <1>11, <1>12,
     <1>13, <1>14, <1>15
  DEF Next

-----------------------------------------------------------------------------
(* The theorems.                                                           *)

\* The inductive invariant.
Guarded == /\ Types /\ EpochInv /\ ScopeInv /\ ScopeVerdictIsRight
           /\ Grouped => CrossInv /\ SoloInv /\ LeakInv
           /\ ~ Grouped => AloneInv

\* All of it at the beginning ...
LEMMA GuardedInit == Init => Guarded
  BY TypesInit, EpochInit, ScopeInit, VerdictInit, CrossInit, SoloInit, LeakInit, AloneInit
  DEF Guarded

\* ... and after a step.
LEMMA GuardedStep == Guarded /\ [Next]_vars => Guarded'
<1> SUFFICES ASSUME Guarded, [Next]_vars PROVE Guarded'
  OBVIOUS
<1>1. (Types /\ EpochInv /\ ScopeInv /\ ScopeVerdictIsRight)'
  BY TypesStep, EpochStep, ScopeStep, VerdictStep DEF Guarded
<1>2. CASE Grouped
  BY <1>1, <1>2, SameMode, CrossStep, SoloStep, LeakStep DEF Guarded
<1>3. CASE ~ Grouped
  BY <1>1, <1>3, SameMode, AloneStep DEF Guarded
<1> QED
  BY <1>2, <1>3

\* The scope check fails whom it should and nobody else, however many nodes
\* work in the tree and in whatever order git answers them (FR-E37).
THEOREM ScopeVerdictStaysRight == Spec => []ScopeVerdictIsRight
<1>1. Guarded => ScopeVerdictIsRight
  BY DEF Guarded
<1> QED
  BY GuardedInit, GuardedStep, <1>1, PTL DEF Spec

\* What the invariant says of the files outside the worktree.
LEMMA LeaksOnly == Guarded => RollbackTakesTheLeaks
<1> SUFFICES ASSUME Guarded PROVE RollbackTakesTheLeaks
  OBVIOUS
<1>1. UserWorkIsKept
  BY DEF Guarded, CrossInv, AloneInv, UserWorkIsKept
<1>2. ASSUME ~ overlapped, NEW n \in Node PROVE wrote[n] \cap Allowed[n] \subseteq changed
  <2>1. wrote[n] \cap Allowed[n] \cap Outside \subseteq Kept
    BY DEF Kept
  <2>2. Kept \subseteq changed
    BY <1>2 DEF Guarded, LeakInv, AloneInv
  <2>3. wrote[n] \cap Inside \subseteq changed
    BY DEF Guarded, ScopeInv
  <2>4. wrote[n] \subseteq Outside \cup Inside
    BY DEF Guarded, Types, TypeOK, Path
  <2> QED
    BY <2>1, <2>2, <2>3, <2>4
<1>3. LeaksAreUndone
  <2>1. CASE Grouped
    <3>1. Started = {} => Within = {} /\ Closing = {}
      BY DEF Started, Within, Closing
    <3> QED
      BY <2>1, <3>1 DEF Guarded, LeakInv, Fine, LeaksAreUndone
  <2>2. CASE ~ Grouped
    BY <2>2 DEF Guarded, AloneInv, FineAlone, Fine, LeaksAreUndone
  <2> QED
    BY <2>1, <2>2
<1> QED
  BY <1>1, <1>2, <1>3 DEF RollbackTakesTheLeaks, AllowedWritesAreKept

\* The rollback takes what no node may write, all of it that a bracket encloses,
\* and leaves the user's own changes and what a node may write (FR-E50), with a
\* group and with max_parallel 1.
THEOREM RollbackTakesOnlyLeaks == Spec => []RollbackTakesTheLeaks
  BY GuardedInit, GuardedStep, LeaksOnly, PTL DEF Spec

=============================================================================
