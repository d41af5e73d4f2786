------------------------------ MODULE Branches ------------------------------
(***************************************************************************)
(* One fork group of a run, up to its join: a static branch whose member   *)
(* nodes share a worktree, a fork node that runs one item per element of a *)
(* list, each item in a worktree of its own, and the join that reads the   *)
(* manifest of the group (engine.ts, branch.ts, worktree.ts).  The members *)
(* and the items interleave at every await.                                *)
(*                                                                         *)
(* A unit is a member or an item.  Its work is one commit; the uncommitted *)
(* edits in a tree are given up with it.  The engine may die and be        *)
(* resumed.  A change of a node's status and its record are one step here  *)
(* (Journal shows what that takes).                                        *)
(***************************************************************************)
EXTENDS Integers, Sequences, FiniteSetsExt, SequencesExt

CONSTANTS
  Member,        \* the nodes of the static branch
  Shapes,        \* the Inputs the branch may have
  Gated,         \* the members with a `when` predicate
  Silent,        \* the units that may succeed without leaving an answer
  Lists,         \* the lists of items the branch source may hold
  MaxConcurrent, \* fork.max_concurrent
  Modes,         \* the failure modes the join may declare
  MaxResumes     \* bound on the resumptions of the run

Item == UNION {Range(l) : l \in Lists}
Unit == Member \cup Item
Fork == "fork"
Join == "join"
Node == Member \cup {Fork, Join}

\* worktreeKey: the members share the tree of their branch.
Static == "static"
Key(u) == IF u \in Member THEN Static ELSE u

\* The units of a branch.
Part(k) == {u \in Unit : Key(u) = k}

NoList == <<"none">>

ASSUME BranchesAssumption ==
  /\ Shapes \subseteq [Member -> SUBSET Member] /\ Gated \subseteq Member /\ Silent \subseteq Unit
  /\ Modes \subseteq {"fail_fast", "collect", "all_or_nothing"}
  /\ MaxConcurrent \in Nat \ {0} /\ MaxResumes \in Nat
  /\ \A l \in Lists : l \in Seq(Item) /\ IsInjective(l)
  /\ Member \cap Item = {} /\ {Fork, Join, Static} \cap Unit = {}
  /\ NoList \notin Seq(Item)

VARIABLES
  shape, mode,
  status,    \* state.nodes
  at,        \* where the task of a unit stands
  trees,     \* the worktrees on disk, by key
  holds,     \* the work that is committed in each
  known,     \* branchTrees has the static branch
  kept,      \* the tree of the branch was reported as preserved
  pinned,    \* the work that a rescue branch reaches
  listed,    \* the branches_expanded record: the journal, and journalledBranches
  todo,      \* the items the fork has still to start
  chunk,     \* the items it is waiting for
  failures,  \* the items that have failed in this call
  result,    \* history: how each item of the fork's last call ended
  answers,   \* the units whose .answer is on disk
  manifest,  \* branches.json
  resumes

treeVars == <<trees, holds, known, kept, pinned>>
forkVars == <<listed, todo, chunk, failures, result>>
vars == <<shape, mode, status, at, treeVars, forkVars, answers, manifest, resumes>>

Inputs(m) == shape[m]
Over      == {"completed", "failed", "skipped"}

-----------------------------------------------------------------------------
(* When a node of the group may start (runNodes, absorbBranchFailure).     *)

Stopped == mode = "fail_fast" /\ \E n \in Node : status[n] = "failed"

Finished(n) == status[n] \in Over
Idle(u)     == at[u] = "idle"
Taken(n)    == status[n] = "completed"

Ready(m) == /\ ~Stopped /\ status[m] = "pending" /\ Idle(m)
            /\ \A i \in Inputs(m) : Finished(i)

Mark(n, s) == status' = [status EXCEPT ![n] = s]
Goto(u, w) == at' = [at EXCEPT ![u] = w]

\* A node with an untaken input, or whose predicate says no.
SkipMember(m) ==
  /\ Ready(m)
  /\ m \in Gated \/ \E i \in Inputs(m) : ~Taken(i)
  /\ Mark(m, "skipped")
  /\ UNCHANGED <<shape, mode, at, treeVars, forkVars, answers, manifest, resumes>>

\* inBranchTree: the tree the branch has, or a new one.
StartMember(m) ==
  /\ Ready(m)
  /\ \A i \in Inputs(m) : Taken(i)
  /\ Mark(m, "running")
  /\ Goto(m, IF known THEN "work" ELSE "adding")
  /\ UNCHANGED <<shape, mode, treeVars, forkVars, answers, manifest, resumes>>

-----------------------------------------------------------------------------
(* A tree, from git worktree add to git worktree remove.                   *)

\* Mutant: the tree of an earlier attempt is taken over as it stands, empty.
AddTreeAnew(u) ==
  /\ at[u] = "adding"
  /\ trees' = trees \cup {Key(u)}
  /\ holds' = [holds EXCEPT ![Key(u)] = {}]
  /\ Goto(u, IF u \in Member THEN "copying" ELSE "work")
  /\ UNCHANGED <<shape, mode, status, known, kept, pinned, forkVars, answers, manifest,
                 resumes>>

\* createNodeWorktree at the run's HEAD: git refuses a path that exists.  An
\* item has the copying of ignored files as part of its work.
AddTree(u) ==
  /\ at[u] = "adding" /\ Key(u) \notin trees
  /\ trees' = trees \cup {Key(u)}
  /\ holds' = [holds EXCEPT ![Key(u)] = {}]
  /\ Goto(u, IF u \in Member THEN "copying" ELSE "work")
  /\ UNCHANGED <<shape, mode, status, known, kept, pinned, forkVars, answers, manifest,
                 resumes>>

\* copyIgnoredIntoWorktree is through; only now is the tree the branch's.
Copied(m) ==
  /\ at[m] = "copying"
  /\ known' = TRUE
  /\ Goto(m, "work")
  /\ UNCHANGED <<shape, mode, status, trees, holds, kept, pinned, forkVars, answers,
                 manifest, resumes>>

\* Mutant: the tree is closed when a node without dependants has succeeded.
BranchDoneAtTheEnd(m) == \A n \in Member : m \notin Inputs(n)

\* branchDone: no other member is still to run, as the statuses stand now.
BranchDone(m) == \A n \in Member \ {m} : status[n] \in Over

\* The unit has done its work.  A command leaves an answer, and an agent that
\* asked no human; a round with a human, a merge, a human and a hitl node leave
\* none.  The tree is closed behind an item, and behind the last member.
WorkSucceeds(u) ==
  /\ at[u] = "work"
  /\ holds' = [holds EXCEPT ![Key(u)] = @ \cup {u}]
  /\ \/ answers' = answers \cup {u}
     \/ u \in Silent /\ UNCHANGED answers
  /\ IF u \in Member /\ ~BranchDone(u)
     THEN Goto(u, "verdict") /\ UNCHANGED known
     ELSE Goto(u, "pinning") /\ known' = (known /\ u \in Item)
  /\ UNCHANGED <<shape, mode, status, trees, kept, pinned, forkVars, manifest, resumes>>

\* pinDetachedHead.
Pin(u) ==
  /\ at[u] = "pinning"
  /\ pinned' = pinned \cup holds[Key(u)]
  /\ Goto(u, "removing")
  /\ UNCHANGED <<shape, mode, status, trees, holds, known, kept, forkVars, answers,
                 manifest, resumes>>

\* removeWorktree; a tree that is gone already is no error.
RemoveTree(u) == /\ at[u] = "removing"
                 /\ trees' = trees \ {Key(u)}
                 /\ holds' = [holds EXCEPT ![Key(u)] = {}]

CloseBranch(m) ==
  /\ RemoveTree(m)
  /\ Goto(m, "verdict")
  /\ UNCHANGED <<shape, mode, status, known, kept, pinned, forkVars, answers, manifest,
                 resumes>>

-----------------------------------------------------------------------------
(* The verdict of a member.                                                *)

RecordMember(m) ==
  /\ at[m] = "verdict"
  /\ Mark(m, "completed") /\ Goto(m, "idle")
  /\ UNCHANGED <<shape, mode, treeVars, forkVars, answers, manifest, resumes>>

\* The work fails or throws: the branch forgets the tree and leaves it.
\* Anything else that throws before or after the work fails the node alone.
MemberFails(m) ==
  /\ at[m] \in {"adding", "copying", "work", "pinning", "removing"}
  /\ Mark(m, "failed") /\ Goto(m, "idle")
  /\ IF at[m] = "work" THEN known' = FALSE /\ kept' = TRUE
     ELSE UNCHANGED <<known, kept>>
  /\ UNCHANGED <<shape, mode, trees, holds, pinned, forkVars, answers, manifest, resumes>>

-----------------------------------------------------------------------------
(* executeFork.                                                            *)

ForkRuns == status[Fork] = "running"

StartFork ==
  /\ ~Stopped /\ status[Fork] = "pending"
  /\ Mark(Fork, "running")
  /\ UNCHANGED <<shape, mode, at, treeVars, forkVars, answers, manifest, resumes>>

\* Mutant: a resumed fork reads its source again.
ExpandAgain ==
  /\ ForkRuns /\ todo = NoList
  /\ \E l \in Lists :
       /\ todo' = l
       /\ listed' = IF l = <<>> THEN listed ELSE l
  /\ UNCHANGED <<shape, mode, status, at, treeVars, chunk, failures, result, answers,
                 manifest, resumes>>

\* resolveBranchItems, or the list an earlier attempt has recorded.  An empty
\* list completes the node and leaves no record.
Expand ==
  /\ ForkRuns /\ todo = NoList
  /\ IF listed # NoList THEN todo' = listed /\ UNCHANGED listed
     ELSE \E l \in Lists : /\ todo' = l
                           /\ listed' = IF l = <<>> THEN NoList ELSE l
  /\ UNCHANGED <<shape, mode, status, at, treeVars, chunk, failures, result, answers,
                 manifest, resumes>>

\* The source cannot be read or its keys collide.
ExpandFails ==
  /\ ForkRuns /\ todo = NoList /\ listed = NoList
  /\ Mark(Fork, "failed")
  /\ UNCHANGED <<shape, mode, at, treeVars, forkVars, answers, manifest, resumes>>

\* The next items in the list's order, as many as may run at once.
StartChunk ==
  /\ ForkRuns /\ todo \notin {NoList, <<>>} /\ chunk = {}
  /\ ~(failures # {} /\ mode = "fail_fast")
  /\ LET n == Min({MaxConcurrent, Len(todo)})
     IN /\ chunk' = Range(SubSeq(todo, 1, n))
        /\ todo' = SubSeq(todo, n + 1, Len(todo))
  /\ at' = [u \in Unit |-> IF u \in chunk' THEN "adding" ELSE at[u]]
  /\ UNCHANGED <<shape, mode, status, treeVars, listed, failures, result, answers,
                 manifest, resumes>>

\* runItem has returned; Promise.all waits for the whole chunk.
ItemSettles(i, r) ==
  /\ result' = [result EXCEPT ![i] = r]
  /\ chunk' = chunk \ {i}
  /\ Goto(i, "idle")

ItemSucceeds(i) ==
  /\ RemoveTree(i)
  /\ ItemSettles(i, "completed")
  /\ UNCHANGED <<shape, mode, status, known, kept, pinned, listed, todo, failures, answers,
                 manifest, resumes>>

\* Mutant: the failure of an item is not collected.
ItemFailsQuietly(i) ==
  /\ at[i] = "work"
  /\ ItemSettles(i, "failed")
  /\ UNCHANGED <<shape, mode, status, treeVars, listed, todo, failures, answers, manifest,
                 resumes>>

ItemFails(i) ==
  /\ at[i] = "work"
  /\ ItemSettles(i, "failed")
  /\ failures' = failures \cup {i}
  /\ UNCHANGED <<shape, mode, status, treeVars, listed, todo, answers, manifest, resumes>>

\* Mutant: the rejection goes unseen and the chunk is waited for forever.
ItemThrowsUnseen(i) ==
  /\ at[i] \in {"adding", "work", "pinning", "removing"}
  /\ result' = [result EXCEPT ![i] = "failed"]
  /\ Goto(i, "idle")
  /\ UNCHANGED <<shape, mode, status, treeVars, listed, todo, chunk, failures, answers,
                 manifest, resumes>>

\* An exception out of runItem rejects the Promise.all: the fork node fails
\* at once and its other items run on unwatched.
ItemThrows(i) ==
  /\ at[i] \in {"adding", "work", "pinning", "removing"}
  /\ result' = [result EXCEPT ![i] = "failed"]
  /\ Goto(i, "idle")
  /\ IF ForkRuns THEN Mark(Fork, "failed") /\ chunk' = {}
     ELSE UNCHANGED <<status, chunk>>
  /\ UNCHANGED <<shape, mode, treeVars, listed, todo, failures, answers, manifest, resumes>>

ForkSettles ==
  /\ ForkRuns /\ todo # NoList /\ chunk = {}
  /\ todo = <<>> \/ (failures # {} /\ mode = "fail_fast")
  /\ Mark(Fork, IF failures = {} THEN "completed" ELSE "failed")
  /\ UNCHANGED <<shape, mode, at, treeVars, forkVars, answers, manifest, resumes>>

-----------------------------------------------------------------------------
(* The join.                                                               *)

JoinReady == /\ ~Stopped /\ status[Join] = "pending"
             /\ \A n \in Node \ {Join} : Finished(n)

BranchStatus(statuses) == IF "failed" \in statuses THEN "failed"
                          ELSE IF statuses = {"completed"} THEN "completed" ELSE "skipped"

\* Mutant: only the branches of this attempt.
ManifestOfThisAttempt ==
  [k \in {Static} \cup {i \in Item : result[i] # "none"} |->
     [status  |-> IF k = Static THEN BranchStatus({status[m] : m \in Member}) ELSE status[Fork],
      answers |-> Part(k) \cap answers]]

\* writeBranchManifest: a runtime branch has the status of its fork node; the
\* answers that are on disk are copied, with a null for each that is not.
Manifest ==
  [k \in {Static} \cup (IF listed = NoList THEN {} ELSE Range(listed)) |->
     [status  |-> IF k = Static THEN BranchStatus({status[m] : m \in Member}) ELSE status[Fork],
      answers |-> Part(k) \cap answers]]

StartJoin ==
  /\ JoinReady
  /\ ~(mode = "all_or_nothing" /\ \E n \in Node : status[n] = "failed")
  /\ manifest' = Manifest
  /\ Mark(Join, "running")
  /\ UNCHANGED <<shape, mode, at, treeVars, forkVars, answers, resumes>>

SkipJoin ==
  /\ JoinReady
  /\ mode = "all_or_nothing" /\ \E n \in Node : status[n] = "failed"
  /\ Mark(Join, "skipped")
  /\ UNCHANGED <<shape, mode, at, treeVars, forkVars, answers, manifest, resumes>>

JoinEnds(s) ==
  /\ status[Join] = "running"
  /\ Mark(Join, s)
  /\ UNCHANGED <<shape, mode, at, treeVars, forkVars, answers, manifest, resumes>>

-----------------------------------------------------------------------------
(* Death and resumption.                                                   *)

\* A resumed run takes up every node that is not completed; the trees, the
\* answers and the list are as they were left, branchTrees is empty.
Resume ==
  /\ resumes < MaxResumes /\ status[Join] # "completed"
  /\ resumes' = resumes + 1
  /\ status' = [n \in Node |-> IF Taken(n) THEN "completed" ELSE "pending"]
  /\ at' = [u \in Unit |-> "idle"]
  /\ known' = FALSE
  /\ todo' = NoList /\ chunk' = {} /\ failures' = {}
  /\ result' = IF Taken(Fork) THEN result ELSE [i \in Item |-> "none"]
  /\ UNCHANGED <<shape, mode, trees, holds, kept, pinned, listed, answers, manifest>>

Init ==
  /\ shape \in Shapes /\ mode \in Modes
  /\ status = [n \in Node |-> "pending"]
  /\ at = [u \in Unit |-> "idle"]
  /\ trees = {} /\ holds = [k \in {Static} \cup Item |-> {}]
  /\ known = FALSE /\ kept = FALSE /\ pinned = {}
  /\ listed = NoList /\ todo = NoList /\ chunk = {} /\ failures = {}
  /\ result = [i \in Item |-> "none"]
  /\ answers = {} /\ manifest = <<>> /\ resumes = 0

GroupStep ==
  \/ \E m \in Member : \/ SkipMember(m) \/ StartMember(m) \/ Copied(m)
                       \/ CloseBranch(m) \/ RecordMember(m) \/ MemberFails(m)
  \/ \E u \in Unit : AddTree(u) \/ WorkSucceeds(u) \/ Pin(u)
  \/ \E i \in Item : ItemSucceeds(i) \/ ItemFails(i) \/ ItemThrows(i)
  \/ StartFork \/ Expand \/ ExpandFails \/ StartChunk \/ ForkSettles
  \/ StartJoin \/ SkipJoin \/ \E s \in {"completed", "failed"} : JoinEnds(s)

Next == GroupStep \/ Resume

\* git commands and the work of the nodes end.
Spec == Init /\ [][Next]_vars /\ WF_vars(GroupStep)

-----------------------------------------------------------------------------
(* Properties.                                                             *)

(* Every variable holds a value of its type.                               *)
TypeOK ==
  /\ shape \in Shapes /\ mode \in Modes
  /\ status \in [Node -> {"pending", "running"} \cup Over]
  /\ at \in [Unit -> {"idle", "adding", "copying", "work", "pinning", "removing", "verdict"}]
  /\ trees \subseteq DOMAIN holds /\ kept \in BOOLEAN
  /\ holds \in [{Static} \cup Item -> SUBSET Unit]
  /\ known \in BOOLEAN /\ pinned \subseteq Unit
  /\ listed \in Lists \cup {NoList} /\ todo \in Seq(Item) \cup {NoList}
  /\ chunk \in SUBSET {i \in Item : at[i] # "idle"} /\ failures \subseteq Item
  /\ result \in [Item -> {"none", "completed", "failed"}]
  /\ answers \subseteq Unit /\ resumes \in 0 .. MaxResumes

(* FR-E91: a unit that works, or whose work is being pinned, does so in a  *)
(* tree that is there: no other unit has closed it.                        *)
NoTreeTakenAway ==
  \A u \in Unit : at[u] \in {"work", "pinning"} => Key(u) \in trees

(* FR-E91/FR-E95: a member works in a tree that holds the work of the      *)
(* members it depends on.  A resumed run may build that tree anew, once it *)
(* was closed and the node that closed it has to run again: then the work  *)
(* is at least pinned.                                                     *)
SeesItsBranch ==
  \A m \in Member : at[m] = "work" =>
    /\ resumes = 0 => Inputs(m) \subseteq holds[Static]
    /\ Inputs(m) \subseteq holds[Static] \cup pinned

(* FR-E51: work that a completed node, or an item that succeeded, has      *)
(* committed is reachable: a tree or a rescue branch has it.               *)
Succeeded(u) == (IF u \in Member THEN status[u] ELSE result[u]) = "completed"
NoCommitIsLost ==
  \A u \in Unit :
    Succeeded(u) =>
      u \in pinned \/ (Key(u) \in trees /\ u \in holds[Key(u)])

(* Together: what the branch has done is there for the rest of the branch, *)
(* and for the user (inBranchTree, branchDone, pinDetachedHead).           *)
BranchWorkIsKept == SeesItsBranch /\ NoCommitIsLost

(* FR-E95: the fork node is completed only over a list all of whose items  *)
(* have succeeded.                                                         *)
ForkVerdictIsEarned ==
  status[Fork] = "completed" /\ listed # NoList =>
    \A i \in Range(listed) : result[i] = "completed"

(* FR-E97: the list of branches, once recorded, is the list of the run.    *)
BranchSetIsDurable == [][listed # NoList => listed' = listed]_vars

(* FR-E96: while the join reads the manifest, it names every branch of the *)
(* group, also those an earlier attempt of the run has expanded; a branch  *)
(* it calls completed is one whose nodes, or whose item, have succeeded;   *)
(* and it points to exactly those answers that such a branch has left.     *)
ManifestCoversGroup ==
  status[Join] = "running" =>
    /\ DOMAIN manifest = {Static} \cup (IF listed = NoList THEN {} ELSE Range(listed))
    /\ \A k \in DOMAIN manifest : manifest[k].status = "completed" =>
         /\ \A u \in Part(k) : Succeeded(u)
         /\ manifest[k].answers = Part(k) \cap answers

(* FR-E95: the group comes to its join, or stops, whatever fails.          *)
GroupSettles == <>[](Stopped \/ Finished(Join))

(* FR-E95: the join reads each branch's outcome from the manifest.         *)
ManifestTellsOutcomes ==
  status[Join] = "running" /\ listed # NoList =>
    \A i \in Range(listed) :
      result[i] = "completed" <=> manifest[i].status = "completed"

(* FR-E91: the tree of a branch is kept when any node of the branch fails. *)
KeptForDiagnosis ==
  \A m \in Member : status[m] = "failed" /\ kept => Static \in trees

=============================================================================
