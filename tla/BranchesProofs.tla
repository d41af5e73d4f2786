--------------------------- MODULE BranchesProofs ---------------------------
(***************************************************************************)
(* Proofs about a fork group (Branches), for any branches, lists of items, *)
(* chunk size, failure modes and number of resumptions: nobody's worktree  *)
(* is taken away, the work of a branch is there for the rest of it and is  *)
(* never lost, the verdict of a fork node is earned, and the manifest that *)
(* the join reads covers the group and tells the truth about what it calls *)
(* completed.                                                              *)
(***************************************************************************)
EXTENDS Branches, SequenceTheorems, TLAPS

Places == {"idle", "adding", "copying", "work", "pinning", "removing", "verdict"}

-----------------------------------------------------------------------------
(* What the helpers do.                                                    *)

\* Members and items are different things with trees of their own.
LEMMA Units ==
  /\ Member \subseteq Unit /\ Item \subseteq Unit /\ Unit = Member \cup Item
  /\ Member \cap Item = {} /\ Static \notin Item
  /\ Fork \notin Unit /\ Join \notin Unit /\ Fork # Join
  /\ Member \subseteq Node /\ Fork \in Node /\ Join \in Node
  /\ \A u \in Unit : Key(u) \in {Static} \cup Item
  /\ \A m \in Member : Key(m) = Static
  /\ \A i \in Item : Key(i) = i /\ i \notin Member
BY BranchesAssumption DEF Unit, Node, Key, Static, Fork, Join

\* Mark changes the status of one node.
LEMMA MarkOne ==
  ASSUME TypeOK, NEW n \in Node, NEW s \in {"pending", "running"} \cup Over, Mark(n, s)
  PROVE  /\ status' \in [Node -> {"pending", "running"} \cup Over]
         /\ status'[n] = s /\ \A k \in Node : k # n => status'[k] = status[k]
BY DEF TypeOK, Mark

\* Goto moves one task.
LEMMA GoOne ==
  ASSUME TypeOK, NEW u \in Unit, NEW w \in Places, Goto(u, w)
  PROVE  /\ at' \in [Unit -> Places]
         /\ at'[u] = w /\ \A v \in Unit : v # u => at'[v] = at[v]
BY DEF TypeOK, Goto, Places

\* RemoveTree takes one tree, and everything in it.
LEMMA RemoveOne ==
  ASSUME TypeOK, NEW u \in Unit, RemoveTree(u)
  PROVE  /\ at[u] = "removing" /\ trees' = trees \ {Key(u)}
         /\ holds' \in [{Static} \cup Item -> SUBSET Unit]
         /\ holds'[Key(u)] = {}
         /\ \A k \in {Static} \cup Item : k # Key(u) => holds'[k] = holds[k]
BY Units DEF TypeOK, RemoveTree

\* ItemSettles decides one item and takes it out of the chunk.
LEMMA SettleOne ==
  ASSUME TypeOK, NEW i \in Item, NEW r \in {"none", "completed", "failed"}, ItemSettles(i, r)
  PROVE  /\ result' \in [Item -> {"none", "completed", "failed"}]
         /\ result'[i] = r /\ \A j \in Item : j # i => result'[j] = result[j]
         /\ chunk' = chunk \ {i} /\ Goto(i, "idle")
BY DEF TypeOK, ItemSettles

\* A list is a sequence of items.
LEMMA ListsAreSequences ==
  /\ \A l \in Lists : l \in Seq(Item) /\ Range(l) \subseteq Item
  /\ Range(<<>>) = {}
<1>1. \A l \in Lists : Range(l) \subseteq Item
      BY DEF Item
<1>2. Range(<<>>) = {}
      BY DEF Range
<1> QED
    BY <1>1, <1>2, BranchesAssumption

\* The first n elements of a list, and the others, are its elements.
LEMMA Cut ==
  ASSUME NEW S, NEW s \in Seq(S), NEW n \in 0 .. Len(s)
  PROVE  /\ SubSeq(s, n + 1, Len(s)) \in Seq(S)
         /\ Range(SubSeq(s, 1, n)) \subseteq Range(s)
         /\ Range(s) = Range(SubSeq(s, 1, n)) \cup Range(SubSeq(s, n + 1, Len(s)))
         /\ Range(s) \subseteq S
<1> DEFINE a == SubSeq(s, 1, n)
           b == SubSeq(s, n + 1, Len(s))
<1>1. Len(s) \in Nat /\ DOMAIN s = 1 .. Len(s) /\ \A k \in 1 .. Len(s) : s[k] \in S
      OBVIOUS
<1>2. /\ a \in Seq(S) /\ DOMAIN a = 1 .. n
      /\ \A k \in 1 .. n : a[k] = s[k]
      BY <1>1
<1>3. /\ b \in Seq(S) /\ DOMAIN b = 1 .. (Len(s) - n)
      /\ \A k \in 1 .. (Len(s) - n) : b[k] = s[n + k]
  <2>1. /\ n + 1 \in Int /\ Len(s) \in Int /\ Len(s) - (n + 1) + 1 = Len(s) - n
        /\ \A k \in (n + 1) .. Len(s) : s[k] \in S
        BY <1>1
  <2>2. /\ b \in Seq(S)
        /\ Len(b) = IF n + 1 <= Len(s) THEN Len(s) - (n + 1) + 1 ELSE 0
        /\ \A k \in 1 .. (Len(s) - (n + 1) + 1) : b[k] = s[(n + 1) + k - 1]
        BY <2>1, SubSeqProperties
  <2>3. Len(b) = Len(s) - n
    <3> HIDE DEF b
    <3>1. n \in Int /\ Len(s) \in Int /\ n <= Len(s)
          BY <1>1
    <3>2. CASE n + 1 <= Len(s)
          BY <2>2, <3>1, <3>2
    <3>3. CASE ~(n + 1 <= Len(s))
          BY <2>2, <3>1, <3>3
    <3> QED
        BY <3>2, <3>3
  <2>4. ASSUME NEW k \in 1 .. (Len(s) - n)
        PROVE  (n + 1) + k - 1 = n + k /\ k \in 1 .. (Len(s) - (n + 1) + 1)
    <3>1. k \in Int /\ n \in Int /\ Len(s) \in Int
          BY <1>1
    <3> HIDE DEF b
    <3> QED
        BY <3>1
  <2>5. \A k \in 1 .. (Len(s) - n) : b[k] = s[n + k]
        BY <2>2, <2>4
  <2>6. DOMAIN b = 1 .. (Len(s) - n)
        BY <2>2, <2>3
  <2> QED
      BY <2>2, <2>5, <2>6
<1> HIDE DEF a, b
<1>4. Range(a) \subseteq Range(s)
      BY <1>1, <1>2 DEF Range
<1>5. Range(b) \subseteq Range(s)
      BY <1>1, <1>3 DEF Range
<1>6. ASSUME NEW k \in 1 .. Len(s) PROVE s[k] \in Range(a) \cup Range(b)
  <2>1. CASE k <= n
        BY <1>2, <2>1 DEF Range
  <2>2. CASE k > n
    <3>1. k - n \in 1 .. (Len(s) - n) /\ n + (k - n) = k
          BY <1>1, <2>2
    <3> QED
        BY <1>3, <3>1 DEF Range
  <2> QED
      BY <2>1, <2>2, <1>1
<1>7. Range(s) \subseteq Range(a) \cup Range(b)
      BY <1>1, <1>6 DEF Range
<1>8. Range(s) \subseteq S
      BY <1>1 DEF Range
<1> QED
    BY <1>3, <1>4, <1>5, <1>7, <1>8 DEF a, b

\* What the length of a chunk needs of Min.
LEMMA Smaller ==
  ASSUME NEW a \in Nat \ {0}, NEW b \in Nat \ {0}
  PROVE  Min({a, b}) \in 1 .. b
<1>1. \E x \in {a, b} : \A y \in {a, b} : x <= y
      OBVIOUS
<1>2. Min({a, b}) \in {a, b} /\ \A y \in {a, b} : Min({a, b}) <= y
      BY <1>1 DEF Min
<1> QED
    BY <1>2

-----------------------------------------------------------------------------
(* The invariants.                                                         *)

\* The chunk of the fork is what its items are at while it runs.
ChunkInv ==
  /\ chunk # {} => ForkRuns /\ todo # NoList
  /\ status[Fork] \in {"pending", "running", "completed"} =>
       \A i \in Item : at[i] # "idle" => i \in chunk
  /\ \A i \in Item : at[i] \notin {"copying", "verdict"}

\* A tree that somebody needs is there, and who closes the tree of the branch
\* is the last to need it.
TreeInv ==
  /\ \A m \in Member : at[m] # "idle" => status[m] = "running"
  /\ \A m \in Member : at[m] \in {"copying", "work", "pinning"} => Static \in trees
  /\ known => Static \in trees
  /\ \A m \in Member : at[m] \in {"pinning", "removing"} =>
       ~known /\ \A n \in Member \ {m} : status[n] \in Over
  /\ \A i \in Item : at[i] \in {"work", "pinning"} => i \in trees

\* The unit has committed its work.
Done(u) ==
  IF u \in Member THEN status[u] = "completed" \/ at[u] \in {"pinning", "removing", "verdict"}
                  ELSE result[u] = "completed" \/ at[u] \in {"pinning", "removing"}

\* No member is still to run.
Closed == \A n \in Member : status[n] \in Over \/ at[n] = "verdict"

\* Where committed work is.
WorkInv ==
  /\ \A k \in {Static} \cup Item : k \notin trees => holds[k] = {}
  /\ \A u \in Unit : at[u] = "removing" => holds[Key(u)] \subseteq pinned
  /\ \A u \in Unit : Done(u) => u \in pinned \cup holds[Key(u)]
  /\ \A m \in Member : status[m] = "running" => \A n \in Inputs(m) : status[n] = "completed"
  /\ resumes = 0 => \A m \in Member : Done(m) => m \in holds[Static] \/ Closed

\* An item of the list is still to do, at work, failed, or has succeeded.
ForkInv ==
  /\ status[Fork] = "pending" => todo = NoList
  /\ ForkRuns /\ todo # NoList /\ listed # NoList =>
       \A i \in Range(listed) :
         i \in Range(todo) \/ i \in chunk \/ i \in failures \/ result[i] = "completed"
  /\ ForkVerdictIsEarned

\* The group is over when the join runs, and the manifest is what it was; a
\* runtime branch has the status of its fork node.
ManifestInv ==
  /\ status[Join] = "running" => \A n \in Node \ {Join} : status[n] \in Over
  /\ status[Join] = "running" =>
       \A k \in DOMAIN manifest : k # Static => manifest[k].status = status[Fork]
  /\ ManifestCoversGroup

-----------------------------------------------------------------------------
(* Types.                                                                  *)

Types == TypeOK /\ ChunkInv

\* A run begins with values of the types.
LEMMA InitTypes == Init => Types
<1> SUFFICES ASSUME Init PROVE Types
    OBVIOUS
<1>1. TypeOK
  <2>1. /\ status \in [Node -> {"pending", "running"} \cup Over]
        /\ at \in [Unit -> {"idle", "adding", "copying", "work", "pinning", "removing", "verdict"}]
        /\ holds \in [{Static} \cup Item -> SUBSET Unit]
        /\ result \in [Item -> {"none", "completed", "failed"}]
        BY DEF Init, Over
  <2>2. resumes \in 0 .. MaxResumes
        BY BranchesAssumption DEF Init
  <2> QED
      BY <2>1, <2>2 DEF Init, TypeOK
<1>2. ChunkInv
      BY Units DEF Init, ChunkInv, ForkRuns
<1> QED
    BY <1>1, <1>2 DEF Types

\* What TypeOK does not say twice.
LEMMA SameTypes ==
  ASSUME TypeOK,
         status' \in [Node -> {"pending", "running"} \cup Over], at' \in [Unit -> Places],
         trees' \subseteq {Static} \cup Item, holds' \in [{Static} \cup Item -> SUBSET Unit],
         known' \in BOOLEAN, kept' \in BOOLEAN, pinned' \subseteq Unit,
         todo' \in Seq(Item) \cup {NoList}, listed' \in Lists \cup {NoList},
         chunk' \subseteq Item, \A i \in chunk' : at'[i] # "idle",
         failures' \subseteq Item, result' \in [Item -> {"none", "completed", "failed"}],
         answers' \subseteq Unit, resumes' \in 0 .. MaxResumes,
         UNCHANGED <<shape, mode>>
  PROVE  TypeOK'
BY DEF TypeOK, Places

\* A step keeps them, and the chunk within the list.
LEMMA StepTypes == Types /\ [Next]_vars => Types'
<1> SUFFICES ASSUME Types, [Next]_vars PROVE TypeOK' /\ ChunkInv'
    BY DEF Types
<1>t. /\ TypeOK
      /\ status \in [Node -> {"pending", "running"} \cup Over] /\ at \in [Unit -> Places]
      /\ trees \subseteq {Static} \cup Item /\ holds \in [{Static} \cup Item -> SUBSET Unit]
      /\ known \in BOOLEAN /\ kept \in BOOLEAN /\ pinned \subseteq Unit
      /\ todo \in Seq(Item) \cup {NoList} /\ listed \in Lists \cup {NoList}
      /\ chunk \subseteq Item /\ (\A i \in chunk : at[i] # "idle")
      /\ failures \subseteq Item /\ result \in [Item -> {"none", "completed", "failed"}]
      /\ answers \subseteq Unit /\ resumes \in 0 .. MaxResumes
      BY DEF Types, TypeOK, Places
<1>c. ChunkInv
      BY DEF Types
<1>s. {"pending", "running", "completed", "failed", "skipped"} = {"pending", "running"} \cup Over
      BY DEF Over
<1>1. CASE UNCHANGED vars
  <2>1. UNCHANGED <<shape, mode, status, at, trees, holds, known, kept, pinned, listed, todo,
                    chunk, failures, result, answers, manifest, resumes>>
        BY <1>1 DEF vars, treeVars, forkVars
  <2>2. TypeOK'
        BY <1>t, <2>1, SameTypes
  <2> QED
      BY <1>c, <2>1, <2>2 DEF ChunkInv, ForkRuns
\* Steps that only mark a node: a member, the join, or the fork at its ends.
<1>m. ASSUME NEW n \in Node, NEW r \in {"pending", "running"} \cup Over, Mark(n, r),
             UNCHANGED <<shape, mode, at, trees, holds, known, kept, pinned, listed, todo,
                         chunk, failures, result, answers, resumes>>,
             n = Fork => chunk = {} /\ status[Fork] \in {"pending", "running"}
      PROVE  TypeOK' /\ ChunkInv'
  <2>1. /\ status' \in [Node -> {"pending", "running"} \cup Over]
        /\ status'[n] = r /\ \A k \in Node : k # n => status'[k] = status[k]
        BY <1>m, <1>t, MarkOne
  <2>2. TypeOK'
        BY <1>m, <1>t, <2>1, SameTypes
  <2>u. at' = at /\ chunk' = chunk /\ todo' = todo
        BY <1>m
  <2>3. CASE n = Fork
    <3>1. chunk = {} /\ status[Fork] \in {"pending", "running"}
          BY <1>m, <2>3
    <3> QED
        BY <1>c, <2>2, <2>u, <3>1 DEF ChunkInv
  <2>4. CASE n # Fork
    <3>1. status'[Fork] = status[Fork]
          BY <2>1, <2>4, Units
    <3> QED
        BY <1>c, <2>2, <2>u, <3>1 DEF ChunkInv, ForkRuns
  <2> QED
      BY <2>2, <2>3, <2>4
\* Steps of a member that leave the fork alone.
<1>n. ASSUME NEW m \in Member, NEW w \in Places, Goto(m, w),
             \/ UNCHANGED status
             \/ \E r \in {"pending", "running"} \cup Over : Mark(m, r),
             trees' \subseteq {Static} \cup Item, holds' \in [{Static} \cup Item -> SUBSET Unit],
             known' \in BOOLEAN, kept' \in BOOLEAN, pinned' \subseteq Unit, answers' \subseteq Unit,
             UNCHANGED <<shape, mode, listed, todo, chunk, failures, result, resumes>>
      PROVE  TypeOK' /\ ChunkInv'
  <2>1. /\ at' \in [Unit -> Places]
        /\ \A v \in Unit : v # m => at'[v] = at[v]
        BY <1>n, <1>t, GoOne, Units
  <2>2. \A i \in Item : at'[i] = at[i]
        BY <2>1, Units
  <2>3. /\ status' \in [Node -> {"pending", "running"} \cup Over] /\ status'[Fork] = status[Fork]
    <3>1. CASE UNCHANGED status
          BY <1>t, <3>1
    <3>2. CASE \E r \in {"pending", "running"} \cup Over : Mark(m, r)
      <4>1. PICK r \in {"pending", "running"} \cup Over : Mark(m, r)
            BY <3>2
      <4> QED
          BY <1>t, <4>1, MarkOne, Units
    <3> QED
        BY <1>n, <3>1, <3>2
  <2>4. \A i \in chunk' : at'[i] # "idle"
        BY <1>n, <1>t, <2>2
  <2>5. TypeOK'
        BY <1>n, <1>t, <2>1, <2>3, <2>4, SameTypes
  <2> QED
      BY <1>c, <1>n, <2>2, <2>3, <2>5 DEF ChunkInv, ForkRuns
\* Steps of an item that the fork has still to see.
<1>i. ASSUME NEW i \in Item, NEW w \in Places \ {"idle", "copying", "verdict"}, Goto(i, w),
             at[i] # "idle",
             trees' \subseteq {Static} \cup Item, holds' \in [{Static} \cup Item -> SUBSET Unit],
             known' \in BOOLEAN, kept' \in BOOLEAN, pinned' \subseteq Unit, answers' \subseteq Unit,
             UNCHANGED <<shape, mode, status, listed, todo, chunk, failures, result, resumes>>
      PROVE  TypeOK' /\ ChunkInv'
  <2>1. /\ at' \in [Unit -> Places] /\ at'[i] = w
        /\ \A v \in Unit : v # i => at'[v] = at[v]
        BY <1>i, <1>t, GoOne, Units
  <2>2. \A j \in Item : j # i => at'[j] = at[j]
        BY <2>1, Units
  <2>3. \A j \in chunk' : at'[j] # "idle"
        BY <1>i, <1>t, <2>1, <2>2
  <2>4. TypeOK'
        BY <1>i, <1>t, <2>1, <2>3, SameTypes
  <2> QED
      BY <1>c, <1>i, <2>1, <2>2, <2>4 DEF ChunkInv, ForkRuns
<1>2. ASSUME NEW m \in Member, SkipMember(m) PROVE TypeOK' /\ ChunkInv'
      BY <1>2, <1>m, <1>s, Units DEF SkipMember, treeVars, forkVars
<1>3. ASSUME NEW m \in Member, StartMember(m) PROVE TypeOK' /\ ChunkInv'
  <2>1. Mark(m, "running")
        /\ UNCHANGED <<shape, mode, trees, holds, known, kept, pinned, listed, todo, chunk,
                       failures, result, answers, resumes>>
        BY <1>3 DEF StartMember, treeVars, forkVars
  <2>2. Goto(m, "work") \/ Goto(m, "adding")
        BY <1>3 DEF StartMember
  <2> QED
      BY <1>n, <1>s, <1>t, <2>1, <2>2 DEF Places
<1>4. ASSUME NEW u \in Unit, AddTree(u) PROVE TypeOK' /\ ChunkInv'
  <2>1. /\ at[u] = "adding" /\ trees' = trees \cup {Key(u)}
        /\ holds' = [holds EXCEPT ![Key(u)] = {}]
        /\ UNCHANGED <<shape, mode, status, known, kept, pinned, listed, todo, chunk,
                       failures, result, answers, resumes>>
        BY <1>4 DEF AddTree, forkVars
  <2>2. trees' \subseteq {Static} \cup Item /\ holds' \in [{Static} \cup Item -> SUBSET Unit]
        BY <1>t, <2>1, Units
  <2>3. CASE u \in Member
    <3>1. Goto(u, "copying")
          BY <1>4, <2>3 DEF AddTree
    <3> QED
        BY <1>n, <1>t, <2>1, <2>2, <2>3, <3>1 DEF Places
  <2>4. CASE u \in Item
    <3>1. Goto(u, "work")
          BY <1>4, <2>4, Units DEF AddTree
    <3> QED
        BY <1>i, <1>t, <2>1, <2>2, <2>4, <3>1 DEF Places
  <2> QED
      BY <2>3, <2>4, Units
<1>5. ASSUME NEW m \in Member, Copied(m) PROVE TypeOK' /\ ChunkInv'
  <2>1. /\ known' = TRUE /\ Goto(m, "work")
        /\ UNCHANGED <<shape, mode, status, trees, holds, kept, pinned, listed, todo, chunk,
                       failures, result, answers, resumes>>
        BY <1>5 DEF Copied, forkVars
  <2> QED
      BY <1>n, <1>t, <2>1 DEF Places
<1>6. ASSUME NEW u \in Unit, WorkSucceeds(u) PROVE TypeOK' /\ ChunkInv'
  <2>1. /\ at[u] = "work" /\ holds' = [holds EXCEPT ![Key(u)] = @ \cup {u}]
        /\ answers' \in {answers, answers \cup {u}}
        /\ UNCHANGED <<shape, mode, status, trees, kept, pinned, listed, todo, chunk,
                       failures, result, resumes>>
        BY <1>6 DEF WorkSucceeds, forkVars
  <2>2. known' \in BOOLEAN
        BY <1>6, <1>t DEF WorkSucceeds
  <2>3. answers' \subseteq Unit /\ holds' \in [{Static} \cup Item -> SUBSET Unit]
        BY <1>t, <2>1, Units
  <2>4. CASE u \in Member
    <3>1. Goto(u, "verdict") \/ Goto(u, "pinning")
          BY <1>6 DEF WorkSucceeds
    <3> QED
        BY <1>n, <1>t, <2>1, <2>2, <2>3, <2>4, <3>1 DEF Places
  <2>5. CASE u \in Item
    <3>1. Goto(u, "pinning")
          BY <1>6, <2>5, Units DEF WorkSucceeds
    <3> QED
        BY <1>i, <1>t, <2>1, <2>2, <2>3, <2>5, <3>1 DEF Places
  <2> QED
      BY <2>4, <2>5, Units
<1>7. ASSUME NEW u \in Unit, Pin(u) PROVE TypeOK' /\ ChunkInv'
  <2>1. /\ at[u] = "pinning" /\ pinned' = pinned \cup holds[Key(u)] /\ Goto(u, "removing")
        /\ UNCHANGED <<shape, mode, status, trees, holds, known, kept, listed, todo, chunk,
                       failures, result, answers, resumes>>
        BY <1>7 DEF Pin, forkVars
  <2>2. pinned' \subseteq Unit
    <3>1. holds[Key(u)] \subseteq Unit
          BY <1>t, Units
    <3> QED
        BY <1>t, <2>1, <3>1
  <2>3. CASE u \in Member
        BY <1>n, <1>t, <2>1, <2>2, <2>3 DEF Places
  <2>4. CASE u \in Item
        BY <1>i, <1>t, <2>1, <2>2, <2>4 DEF Places
  <2> QED
      BY <2>3, <2>4, Units
<1>8. ASSUME NEW m \in Member, CloseBranch(m) PROVE TypeOK' /\ ChunkInv'
  <2>1. /\ RemoveTree(m) /\ Goto(m, "verdict")
        /\ UNCHANGED <<shape, mode, status, known, kept, pinned, listed, todo, chunk,
                       failures, result, answers, resumes>>
        BY <1>8 DEF CloseBranch, forkVars
  <2>2. trees' \subseteq {Static} \cup Item /\ holds' \in [{Static} \cup Item -> SUBSET Unit]
        BY <1>t, <2>1, RemoveOne, Units
  <2> QED
      BY <1>n, <1>t, <2>1, <2>2 DEF Places
<1>9. ASSUME NEW m \in Member, RecordMember(m) PROVE TypeOK' /\ ChunkInv'
  <2>1. /\ Mark(m, "completed") /\ Goto(m, "idle")
        /\ UNCHANGED <<shape, mode, trees, holds, known, kept, pinned, listed, todo, chunk,
                       failures, result, answers, resumes>>
        BY <1>9 DEF RecordMember, forkVars, treeVars
  <2> QED
      BY <1>n, <1>s, <1>t, <2>1 DEF Places
<1>10. ASSUME NEW m \in Member, MemberFails(m) PROVE TypeOK' /\ ChunkInv'
  <2>1. /\ Mark(m, "failed") /\ Goto(m, "idle")
        /\ UNCHANGED <<shape, mode, trees, holds, pinned, listed, todo, chunk,
                       failures, result, answers, resumes>>
        BY <1>10 DEF MemberFails, forkVars
  <2>2. known' \in BOOLEAN /\ kept' \in BOOLEAN
        BY <1>10, <1>t DEF MemberFails
  <2> QED
      BY <1>n, <1>s, <1>t, <2>1, <2>2 DEF Places
\* An item that settles while the fork waits for it.
<1>e. ASSUME NEW i \in Item, NEW r \in {"completed", "failed"}, ItemSettles(i, r),
             trees' \subseteq {Static} \cup Item, holds' \in [{Static} \cup Item -> SUBSET Unit],
             failures' \subseteq Item,
             UNCHANGED <<shape, mode, status, known, kept, pinned, listed, todo, answers, resumes>>
      PROVE  TypeOK' /\ ChunkInv'
  <2>1. /\ result' \in [Item -> {"none", "completed", "failed"}]
        /\ chunk' = chunk \ {i} /\ Goto(i, "idle")
        BY <1>e, <1>t, SettleOne
  <2>2. /\ at' \in [Unit -> Places] /\ at'[i] = "idle"
        /\ \A v \in Unit : v # i => at'[v] = at[v]
        BY <1>t, <2>1, GoOne, Units DEF Places
  <2>3. \A j \in Item : j # i => at'[j] = at[j]
        BY <2>2, Units
  <2>4. chunk' \subseteq Item /\ \A j \in chunk' : at'[j] # "idle"
        BY <1>t, <2>1, <2>3
  <2>5. TypeOK'
        BY <1>e, <1>t, <2>1, <2>2, <2>4, SameTypes
  <2> QED
      BY <1>c, <1>e, <2>1, <2>2, <2>3, <2>5 DEF ChunkInv, ForkRuns
<1>11. ASSUME NEW i \in Item, ItemSucceeds(i) PROVE TypeOK' /\ ChunkInv'
  <2>1. /\ RemoveTree(i) /\ ItemSettles(i, "completed")
        /\ UNCHANGED <<shape, mode, status, known, kept, pinned, listed, todo, failures,
                       answers, resumes>>
        BY <1>11 DEF ItemSucceeds
  <2>2. trees' \subseteq {Static} \cup Item /\ holds' \in [{Static} \cup Item -> SUBSET Unit]
        BY <1>t, <2>1, RemoveOne, Units
  <2> QED
      BY <1>e, <1>t, <2>1, <2>2
<1>12. ASSUME NEW i \in Item, ItemFails(i) PROVE TypeOK' /\ ChunkInv'
  <2>1. /\ ItemSettles(i, "failed") /\ failures' = failures \cup {i}
        /\ UNCHANGED <<shape, mode, status, trees, holds, known, kept, pinned, listed, todo,
                       answers, resumes>>
        BY <1>12 DEF ItemFails, treeVars
  <2> QED
      BY <1>e, <1>t, <2>1
<1>13. ASSUME NEW i \in Item, ItemThrows(i) PROVE TypeOK' /\ ChunkInv'
  <2>1. /\ Goto(i, "idle") /\ result' = [result EXCEPT ![i] = "failed"]
        /\ UNCHANGED <<shape, mode, trees, holds, known, kept, pinned, listed, todo, failures,
                       answers, resumes>>
        BY <1>13 DEF ItemThrows, treeVars
  <2>2. /\ at' \in [Unit -> Places] /\ at'[i] = "idle"
        /\ \A v \in Unit : v # i => at'[v] = at[v]
        BY <1>t, <2>1, GoOne, Units DEF Places
  <2>3. result' \in [Item -> {"none", "completed", "failed"}]
        BY <1>t, <2>1
  <2>4. /\ status' \in [Node -> {"pending", "running"} \cup Over]
        /\ chunk' = {} /\ (status'[Fork] = "failed" \/ (UNCHANGED status /\ ~ForkRuns))
    <3>1. CASE ForkRuns
      <4>1. Mark(Fork, "failed") /\ chunk' = {}
            BY <1>13, <3>1 DEF ItemThrows
      <4> QED
          BY <1>s, <1>t, <4>1, MarkOne, Units
    <3>2. CASE ~ForkRuns
          BY <1>13, <1>t, <1>c, <3>2 DEF ItemThrows, ChunkInv
    <3> QED
        BY <3>1, <3>2
  <2>5. TypeOK'
    <3>1. chunk' \subseteq Item /\ \A j \in chunk' : at'[j] # "idle"
          BY <2>4
    <3> QED
        BY <1>t, <2>1, <2>2, <2>3, <2>4, <3>1, SameTypes
  <2>6. \A j \in Item : at'[j] = at[j] \/ at'[j] = "idle"
        BY <2>2, Units
  <2> QED
      BY <1>c, <2>4, <2>5, <2>6 DEF ChunkInv, ForkRuns
<1>14. CASE StartFork
  <2>1. chunk = {}
        BY <1>14, <1>c DEF StartFork, ChunkInv, ForkRuns
  <2> QED
      BY <1>14, <1>m, <1>s, <2>1, Units DEF StartFork, treeVars, forkVars
<1>15. CASE Expand
  <2>1. UNCHANGED <<shape, mode, status, at, trees, holds, known, kept, pinned, chunk, failures,
                    result, answers, resumes>>
        BY <1>15 DEF Expand, treeVars
  <2>2. /\ listed' \in Lists \cup {NoList} /\ todo' \in Lists \cup {NoList}
        BY <1>15, <1>t DEF Expand
  <2>3. todo' \in Seq(Item) \cup {NoList}
        BY <2>2, ListsAreSequences
  <2>4. TypeOK'
        BY <1>t, <2>1, <2>2, <2>3, SameTypes
  <2>5. chunk = {}
        BY <1>15, <1>c DEF Expand, ChunkInv
  <2> QED
      BY <1>c, <2>1, <2>4, <2>5 DEF ChunkInv, ForkRuns
<1>16. CASE ExpandFails
  <2>1. chunk = {} /\ status[Fork] = "running"
        BY <1>16, <1>c DEF ExpandFails, ChunkInv, ForkRuns
  <2>2. /\ Mark(Fork, "failed")
        /\ UNCHANGED <<shape, mode, at, trees, holds, known, kept, pinned, listed, todo, chunk,
                       failures, result, answers, resumes>>
        BY <1>16 DEF ExpandFails, treeVars, forkVars
  <2> QED
      BY <1>m, <1>s, <2>1, <2>2, Units
<1>17. CASE StartChunk
  <2> DEFINE n == Min({MaxConcurrent, Len(todo)})
  <2>1. /\ ForkRuns /\ todo \notin {NoList, <<>>} /\ chunk = {}
        /\ chunk' = Range(SubSeq(todo, 1, n)) /\ todo' = SubSeq(todo, n + 1, Len(todo))
        /\ at' = [u \in Unit |-> IF u \in chunk' THEN "adding" ELSE at[u]]
        /\ UNCHANGED <<shape, mode, status, trees, holds, known, kept, pinned, listed, failures,
                       result, answers, resumes>>
        BY <1>17 DEF StartChunk, treeVars
  <2>2. todo \in Seq(Item) /\ todo # <<>>
        BY <1>t, <2>1
  <2>3. Len(todo) \in Nat \ {0} /\ MaxConcurrent \in Nat \ {0}
        BY <2>2, BranchesAssumption
  <2>4. n \in 0 .. Len(todo)
        BY <2>3, Smaller
  <2> HIDE DEF n
  <2>5. todo' \in Seq(Item) /\ chunk' \subseteq Item
        BY <2>1, <2>2, <2>4, Cut
  <2>6. at' \in [Unit -> Places]
        BY <1>t, <2>1 DEF Places
  <2>7. \A i \in Item : at'[i] = IF i \in chunk' THEN "adding" ELSE at[i]
        BY <2>1, Units
  <2>8. TypeOK'
    <3>1. \A j \in chunk' : at'[j] # "idle"
          BY <2>5, <2>7
    <3> QED
        BY <1>t, <2>1, <2>5, <2>6, <3>1, SameTypes
  <2>9. todo' # NoList
        BY <2>5, BranchesAssumption
  <2> QED
      BY <1>c, <2>1, <2>7, <2>8, <2>9 DEF ChunkInv, ForkRuns
<1>18. CASE ForkSettles
  <2>1. \E r \in {"completed", "failed"} : Mark(Fork, r)
        BY <1>18 DEF ForkSettles
  <2>2. /\ chunk = {} /\ status[Fork] = "running"
        /\ UNCHANGED <<shape, mode, at, trees, holds, known, kept, pinned, listed, todo, chunk,
                       failures, result, answers, resumes>>
        BY <1>18 DEF ForkSettles, ForkRuns, treeVars, forkVars
  <2> QED
      BY <1>m, <1>s, <2>1, <2>2, Units
<1>19. CASE StartJoin \/ SkipJoin \/ \E r \in {"completed", "failed"} : JoinEnds(r)
  <2>1. /\ \E r \in {"running", "skipped", "completed", "failed"} : Mark(Join, r)
        /\ UNCHANGED <<shape, mode, at, trees, holds, known, kept, pinned, listed, todo, chunk,
                       failures, result, answers, resumes>>
        BY <1>19 DEF StartJoin, SkipJoin, JoinEnds, treeVars, forkVars
  <2> QED
      BY <1>m, <1>s, <2>1, Units
<1>20. CASE Resume
  <2>1. /\ status' = [k \in Node |-> IF Taken(k) THEN "completed" ELSE "pending"]
        /\ at' = [u \in Unit |-> "idle"] /\ known' = FALSE
        /\ todo' = NoList /\ chunk' = {} /\ failures' = {}
        /\ resumes' = resumes + 1 /\ resumes < MaxResumes
        /\ UNCHANGED <<shape, mode, trees, holds, kept, pinned, listed, answers>>
        BY <1>20 DEF Resume
  <2>2. result' \in [Item -> {"none", "completed", "failed"}]
        BY <1>20, <1>t DEF Resume
  <2>3. status' \in [Node -> {"pending", "running"} \cup Over] /\ at' \in [Unit -> Places]
        BY <2>1 DEF Over, Places
  <2>4. resumes' \in 0 .. MaxResumes
        BY <1>t, <2>1, BranchesAssumption
  <2>5. TypeOK'
        BY <1>t, <2>1, <2>2, <2>3, <2>4, SameTypes
  <2>6. \A i \in Item : at'[i] = "idle"
        BY <2>1, Units
  <2> QED
      BY <2>1, <2>5, <2>6 DEF ChunkInv
<1> QED
    BY <1>1, <1>2, <1>3, <1>4, <1>5, <1>6, <1>7, <1>8, <1>9, <1>10, <1>11, <1>12, <1>13, <1>14,
       <1>15, <1>16, <1>17, <1>18, <1>19, <1>20 DEF Next, GroupStep

-----------------------------------------------------------------------------
(* The trees.                                                              *)

\* The types that the proofs below need, each by itself.
LEMMA Typed ==
  ASSUME Types
  PROVE  /\ TypeOK
         /\ status \in [Node -> {"pending", "running"} \cup Over] /\ at \in [Unit -> Places]
         /\ holds \in [{Static} \cup Item -> SUBSET Unit]
         /\ pinned \subseteq Unit /\ known \in BOOLEAN /\ chunk \subseteq Item
         /\ shape \in [Member -> SUBSET Member]
         /\ result \in [Item -> {"none", "completed", "failed"}]
         /\ todo \in Seq(Item) \cup {NoList} /\ listed \in Lists \cup {NoList}
         /\ resumes \in Nat
BY BranchesAssumption DEF Types, TypeOK, Places

\* The steps of the fork and the join, which leave the members and the trees alone.
GroupStepOfNode == \/ StartFork \/ Expand \/ ExpandFails \/ StartChunk \/ ForkSettles
                   \/ StartJoin \/ SkipJoin \/ \E s \in {"completed", "failed"} : JoinEnds(s)

\* What those steps do leave alone.
LEMMA NodeSteps ==
  ASSUME Types, GroupStepOfNode
  PROVE  /\ UNCHANGED <<shape, mode, trees, holds, known, kept, pinned, result, answers, resumes>>
         /\ \A m \in Member : status'[m] = status[m] /\ at'[m] = at[m]
         /\ \A i \in Item : at'[i] = at[i] \/ at'[i] = "adding"
<1>1. TypeOK /\ at \in [Unit -> Places]
      BY Typed
<1>2. UNCHANGED <<shape, mode, trees, holds, known, kept, pinned, result, answers, resumes>>
      BY DEF GroupStepOfNode, StartFork, Expand, ExpandFails, StartChunk, ForkSettles, StartJoin,
         SkipJoin, JoinEnds, treeVars, forkVars
<1>3. ASSUME NEW n \in {Fork, Join},
             NEW s \in {"pending", "running", "completed", "failed", "skipped"}, Mark(n, s)
      PROVE  \A m \in Member : status'[m] = status[m]
  <2>1. n \in Node /\ s \in {"pending", "running"} \cup Over
        BY Units DEF Over
  <2>2. \A k \in Node : k # n => status'[k] = status[k]
        BY <1>1, <1>3, <2>1, MarkOne
  <2> QED
      BY <2>2, Units
<1>4. CASE StartChunk
  <2>1. UNCHANGED status /\ at' = [u \in Unit |-> IF u \in chunk' THEN "adding" ELSE at[u]]
        BY <1>4 DEF StartChunk
  <2>2. chunk' \subseteq Item
    <3>1. TypeOK'
          BY <1>4, StepTypes DEF Next, GroupStep, Types
    <3> QED
        BY <3>1 DEF TypeOK
  <2> QED
      BY <1>2, <2>1, <2>2, Units
<1>5. CASE Expand
      BY <1>2, <1>5 DEF Expand
<1>6. CASE StartFork \/ ExpandFails \/ ForkSettles \/ StartJoin \/ SkipJoin
           \/ \E s \in {"completed", "failed"} : JoinEnds(s)
  <2>1. UNCHANGED at
        BY <1>6 DEF StartFork, ExpandFails, ForkSettles, StartJoin, SkipJoin, JoinEnds
  <2>2. \E n \in {Fork, Join}, s \in {"pending", "running", "completed", "failed", "skipped"} :
          Mark(n, s)
        BY <1>6 DEF StartFork, ExpandFails, ForkSettles, StartJoin, SkipJoin, JoinEnds
  <2> QED
      BY <1>2, <1>3, <2>1, <2>2
<1> QED
    BY <1>4, <1>5, <1>6 DEF GroupStepOfNode

\* No step takes a tree that somebody needs.
LEMMA TreeStep == Types /\ TreeInv /\ [Next]_vars => TreeInv'
<1> SUFFICES ASSUME Types, TreeInv, [Next]_vars PROVE TreeInv'
    OBVIOUS
<1>t. /\ TypeOK /\ ChunkInv
      /\ status \in [Node -> {"pending", "running"} \cup Over] /\ at \in [Unit -> Places]
      /\ holds \in [{Static} \cup Item -> SUBSET Unit] /\ known \in BOOLEAN
      BY Typed DEF Types
<1>s. /\ {"pending", "running", "completed", "failed", "skipped"} = {"pending", "running"} \cup Over
      /\ {"idle", "adding", "copying", "work", "pinning", "removing", "verdict"} = Places
      /\ "running" \notin Over /\ "pending" \notin Over
      BY DEF Over, Places
\* Steps that leave the members alone.
<1>a. ASSUME \A m \in Member : at'[m] = at[m] /\ status'[m] = status[m],
             known' = known, Static \in trees => Static \in trees',
             \A i \in Item : at'[i] \in {"work", "pinning"} => i \in trees'
      PROVE  TreeInv'
      BY <1>a DEF TreeInv
<1>1. CASE UNCHANGED vars
  <2>1. UNCHANGED <<status, at, trees, known>>
        BY <1>1 DEF vars, treeVars
  <2> QED
      BY <2>1 DEF TreeInv
\* A step of one member m.
<1>g. ASSUME NEW m \in Member, NEW w \in Places, Goto(m, w)
      PROVE  /\ at'[m] = w /\ \A n \in Member : n # m => at'[n] = at[n]
             /\ \A i \in Item : at'[i] = at[i]
      BY <1>g, <1>t, GoOne, Units
<1>h. ASSUME NEW m \in Member, NEW s \in {"pending", "running"} \cup Over, Mark(m, s)
      PROVE  status'[m] = s /\ \A n \in Member : n # m => status'[n] = status[n]
      BY <1>h, <1>t, MarkOne, Units
<1>2. ASSUME NEW m \in Member, SkipMember(m) PROVE TreeInv'
  <2>1. /\ status[m] = "pending" /\ Mark(m, "skipped") /\ UNCHANGED <<at, trees, known>>
        BY <1>2 DEF SkipMember, Ready, treeVars
  <2>2. status'[m] = "skipped" /\ \A n \in Member : n # m => status'[n] = status[n]
        BY <1>h, <1>s, <2>1
  <2>3. at[m] = "idle"
        BY <2>1 DEF TreeInv
  <2>4. \A n \in Member : status[n] \in Over => status'[n] \in Over
        BY <2>1, <2>2 DEF Over
  <2> QED
      BY <2>1, <2>2, <2>3, <2>4 DEF TreeInv
<1>3. ASSUME NEW m \in Member, StartMember(m) PROVE TreeInv'
  <2>1. /\ status[m] = "pending" /\ Mark(m, "running") /\ UNCHANGED <<trees, known>>
        /\ Goto(m, IF known THEN "work" ELSE "adding")
        BY <1>3 DEF StartMember, Ready, treeVars
  <2>2. status'[m] = "running" /\ \A n \in Member : n # m => status'[n] = status[n]
        BY <1>h, <1>s, <2>1
  <2>3. /\ at'[m] = (IF known THEN "work" ELSE "adding")
        /\ \A n \in Member : n # m => at'[n] = at[n]
        /\ \A i \in Item : at'[i] = at[i]
        BY <1>g, <1>s, <2>1
  <2>4. ASSUME NEW n \in Member, at[n] \in {"pinning", "removing"} PROVE FALSE
    <3>1. n # m
          BY <2>1, <2>4 DEF TreeInv
    <3> QED
        BY <1>s, <2>1, <2>4, <3>1 DEF TreeInv
  <2> QED
      BY <2>1, <2>2, <2>3, <2>4 DEF TreeInv
<1>4. ASSUME NEW m \in Member, AddTree(m) PROVE TreeInv'
  <2>1. /\ at[m] = "adding" /\ Goto(m, "copying") /\ trees' = trees \cup {Static}
        /\ UNCHANGED <<status, known>>
        BY <1>4, Units DEF AddTree
  <2>2. /\ at'[m] = "copying" /\ \A n \in Member : n # m => at'[n] = at[n]
        /\ \A i \in Item : at'[i] = at[i]
        BY <1>g, <1>s, <2>1
  <2> QED
      BY <2>1, <2>2 DEF TreeInv
<1>5. ASSUME NEW m \in Member, Copied(m) PROVE TreeInv'
  <2>1. /\ at[m] = "copying" /\ Goto(m, "work") /\ known' = TRUE /\ UNCHANGED <<status, trees>>
        BY <1>5 DEF Copied
  <2>2. /\ at'[m] = "work" /\ \A n \in Member : n # m => at'[n] = at[n]
        /\ \A i \in Item : at'[i] = at[i]
        BY <1>g, <1>s, <2>1
  <2>3. status[m] = "running" /\ Static \in trees
        BY <2>1 DEF TreeInv
  <2>4. \A n \in Member : n # m => at[n] \notin {"pinning", "removing"}
        BY <1>s, <2>3 DEF TreeInv
  <2> QED
      BY <2>1, <2>2, <2>3, <2>4 DEF TreeInv
<1>6. ASSUME NEW m \in Member, WorkSucceeds(m) PROVE TreeInv'
  <2>1. at[m] = "work" /\ UNCHANGED <<status, trees>>
        BY <1>6 DEF WorkSucceeds
  <2>2. status[m] = "running" /\ Static \in trees
        BY <2>1 DEF TreeInv
  <2>3. \A n \in Member : n # m => at[n] \notin {"pinning", "removing"}
        BY <1>s, <2>2 DEF TreeInv
  <2>4. CASE ~BranchDone(m)
    <3>1. Goto(m, "verdict") /\ UNCHANGED known
          BY <1>6, <2>4 DEF WorkSucceeds
    <3>2. /\ at'[m] = "verdict" /\ \A n \in Member : n # m => at'[n] = at[n]
          /\ \A i \in Item : at'[i] = at[i]
          BY <1>g, <1>s, <3>1
    <3> QED
        BY <2>1, <2>2, <3>1, <3>2 DEF TreeInv
  <2>5. CASE BranchDone(m)
    <3>1. Goto(m, "pinning") /\ ~known'
          BY <1>6, <2>5, Units DEF WorkSucceeds
    <3>2. /\ at'[m] = "pinning" /\ \A n \in Member : n # m => at'[n] = at[n]
          /\ \A i \in Item : at'[i] = at[i]
          BY <1>g, <1>s, <3>1
    <3>3. \A n \in Member \ {m} : status[n] \in Over
          BY <2>5 DEF BranchDone
    <3> QED
        BY <2>1, <2>2, <2>3, <3>1, <3>2, <3>3 DEF TreeInv
  <2> QED
      BY <2>4, <2>5
<1>7. ASSUME NEW m \in Member, Pin(m) PROVE TreeInv'
  <2>1. at[m] = "pinning" /\ Goto(m, "removing") /\ UNCHANGED <<status, trees, known>>
        BY <1>7 DEF Pin
  <2>2. /\ at'[m] = "removing" /\ \A n \in Member : n # m => at'[n] = at[n]
        /\ \A i \in Item : at'[i] = at[i]
        BY <1>g, <1>s, <2>1
  <2> QED
      BY <2>1, <2>2 DEF TreeInv
<1>8. ASSUME NEW m \in Member, CloseBranch(m) PROVE TreeInv'
  <2>1. /\ RemoveTree(m) /\ Goto(m, "verdict") /\ UNCHANGED <<status, known>>
        BY <1>8 DEF CloseBranch
  <2>2. at[m] = "removing" /\ trees' = trees \ {Static}
        BY <1>t, <2>1, RemoveOne, Units
  <2>3. /\ at'[m] = "verdict" /\ \A n \in Member : n # m => at'[n] = at[n]
        /\ \A i \in Item : at'[i] = at[i]
        BY <1>g, <1>s, <2>1
  <2>4. ~known /\ status[m] = "running" /\ \A n \in Member \ {m} : status[n] \in Over
        BY <2>2 DEF TreeInv
  <2>5. \A n \in Member : n # m => at[n] = "idle"
        BY <1>s, <2>4 DEF TreeInv
  <2>6. \A i \in Item : i # Static
        BY Units
  <2> QED
      BY <2>1, <2>2, <2>3, <2>4, <2>5, <2>6 DEF TreeInv
<1>9. ASSUME NEW m \in Member, RecordMember(m) \/ MemberFails(m) PROVE TreeInv'
  <2>1. /\ \E r \in {"completed", "failed"} : Mark(m, r)
        /\ Goto(m, "idle") /\ UNCHANGED trees /\ (known' => known)
        BY <1>9 DEF RecordMember, MemberFails, treeVars
  <2>2. /\ at'[m] = "idle" /\ \A n \in Member : n # m => at'[n] = at[n]
        /\ \A i \in Item : at'[i] = at[i]
        BY <1>g, <1>s, <2>1
  <2>3. status'[m] \in Over /\ \A n \in Member : n # m => status'[n] = status[n]
        BY <1>h, <1>s, <2>1 DEF Over
  <2> QED
      BY <2>1, <2>2, <2>3 DEF TreeInv
<1>10. ASSUME NEW i \in Item, AddTree(i) \/ WorkSucceeds(i) \/ Pin(i) \/ ItemSucceeds(i)
                              \/ ItemFails(i) \/ ItemThrows(i)
       PROVE  TreeInv'
  <2>1. \A m \in Member : status'[m] = status[m]
    <3>1. CASE ItemThrows(i) /\ ForkRuns
      <4>1. Mark(Fork, "failed")
            BY <3>1 DEF ItemThrows
      <4> QED
          BY <1>s, <1>t, <4>1, MarkOne, Units
    <3>2. CASE ~(ItemThrows(i) /\ ForkRuns)
      <4>1. UNCHANGED status
            BY <1>10, <3>2 DEF AddTree, WorkSucceeds, Pin, ItemSucceeds, ItemFails, ItemThrows
      <4> QED
          BY <4>1
    <3> QED
        BY <3>1, <3>2
  <2>2. PICK w \in Places : Goto(i, w)
        BY <1>10, <1>s, Units DEF AddTree, WorkSucceeds, Pin, ItemSucceeds, ItemFails, ItemThrows,
           ItemSettles
  <2>3. at'[i] = w /\ \A v \in Unit : v # i => at'[v] = at[v]
        BY <1>t, <2>2, GoOne, Units
  <2>4. \A m \in Member : at'[m] = at[m]
        BY <2>3, Units
  <2>5. Key(i) = i /\ i # Static /\ i \notin Member
        BY Units
  <2>6. known' = known
        BY <1>10, <1>t, <2>5, Units DEF AddTree, WorkSucceeds, Pin, ItemSucceeds, ItemFails,
           ItemThrows, treeVars
  <2>7. /\ trees \ {i} \subseteq trees'
        /\ w \in {"work", "pinning"} => i \in trees'
    <3>1. CASE AddTree(i)
          BY <2>5, <3>1 DEF AddTree
    <3>2. CASE WorkSucceeds(i)
      <4>1. at[i] = "work" /\ UNCHANGED trees
            BY <3>2 DEF WorkSucceeds
      <4> QED
          BY <4>1 DEF TreeInv
    <3>3. CASE Pin(i)
      <4>1. at[i] = "pinning" /\ UNCHANGED trees
            BY <3>3 DEF Pin
      <4> QED
          BY <4>1 DEF TreeInv
    <3>4. CASE ItemSucceeds(i)
      <4>1. Goto(i, "idle") /\ trees' = trees \ {i}
            BY <1>t, <2>5, <3>4, RemoveOne, Units DEF ItemSucceeds, ItemSettles
      <4>2. w = "idle"
            BY <1>s, <1>t, <2>3, <4>1, GoOne, Units
      <4> QED
          BY <4>1, <4>2
    <3>5. CASE ItemFails(i) \/ ItemThrows(i)
      <4>1. Goto(i, "idle") /\ UNCHANGED trees
            BY <3>5 DEF ItemFails, ItemThrows, ItemSettles, treeVars
      <4>2. w = "idle"
            BY <1>s, <1>t, <2>3, <4>1, GoOne, Units
      <4> QED
          BY <4>1, <4>2
    <3> QED
        BY <1>10, <3>1, <3>2, <3>3, <3>4, <3>5
  <2>8. \A j \in Item : at'[j] \in {"work", "pinning"} => j \in trees'
    <3> TAKE j \in Item
    <3>1. CASE j = i
          BY <2>3, <2>7, <3>1
    <3>2. CASE j # i
      <4>1. at'[j] = at[j]
            BY <2>3, <3>2, Units
      <4> QED
          BY <2>7, <3>2, <4>1 DEF TreeInv
    <3> QED
        BY <3>1, <3>2
  <2>9. Static \in trees => Static \in trees'
        BY <2>5, <2>7
  <2> QED
      BY <1>a, <2>1, <2>4, <2>6, <2>8, <2>9
<1>11. CASE GroupStepOfNode
  <2>1. /\ UNCHANGED <<trees, known>>
        /\ \A m \in Member : status'[m] = status[m] /\ at'[m] = at[m]
        /\ \A i \in Item : at'[i] = at[i] \/ at'[i] = "adding"
        BY <1>11, NodeSteps
  <2>2. \A i \in Item : at'[i] \in {"work", "pinning"} => i \in trees'
        BY <2>1 DEF TreeInv
  <2> QED
      BY <1>a, <2>1, <2>2
<1>12. CASE Resume
  <2>1. at' = [u \in Unit |-> "idle"] /\ known' = FALSE
        BY <1>12 DEF Resume
  <2>2. \A u \in Unit : at'[u] = "idle"
        BY <2>1
  <2> QED
      BY <2>1, <2>2, Units DEF TreeInv
<1> QED
    BY <1>1, <1>2, <1>3, <1>4, <1>5, <1>6, <1>7, <1>8, <1>9, <1>10, <1>11, <1>12, Units
       DEF Next, GroupStep, GroupStepOfNode

(* Nobody works in, or pins, a worktree that another has closed, whatever  *)
(* members and items overlap, fail or are run again.                       *)
THEOREM TreesStay == Spec => []NoTreeTakenAway
<1>1. Init => TreeInv
  <2> SUFFICES ASSUME Init PROVE TreeInv
      OBVIOUS
  <2>1. known = FALSE /\ \A u \in Unit : at[u] = "idle"
        BY DEF Init
  <2> QED
      BY <2>1, Units DEF TreeInv
<1>2. Types /\ TreeInv => NoTreeTakenAway
  <2> SUFFICES ASSUME Types, TreeInv, NEW u \in Unit, at[u] \in {"work", "pinning"}
               PROVE  Key(u) \in trees
      BY DEF NoTreeTakenAway
  <2>1. CASE u \in Member
        BY <2>1, Units DEF TreeInv
  <2>2. CASE u \in Item
        BY <2>2, Units DEF TreeInv
  <2> QED
      BY <2>1, <2>2, Units
<1> QED
    BY InitTypes, StepTypes, TreeStep, <1>1, <1>2, PTL DEF Spec

-----------------------------------------------------------------------------
(* The work.                                                               *)

\* No step loses a commit, in a tree or pinned.
LEMMA WorkStep == Types /\ TreeInv /\ WorkInv /\ [Next]_vars => WorkInv'
<1> SUFFICES ASSUME Types, TreeInv, WorkInv, [Next]_vars PROVE WorkInv'
    OBVIOUS
<1>t. /\ TypeOK
      /\ status \in [Node -> {"pending", "running"} \cup Over] /\ at \in [Unit -> Places]
      /\ holds \in [{Static} \cup Item -> SUBSET Unit] /\ pinned \subseteq Unit
      /\ shape \in [Member -> SUBSET Member]
      /\ result \in [Item -> {"none", "completed", "failed"}]
      BY Typed
<1>s. /\ {"pending", "running", "completed", "failed", "skipped"} = {"pending", "running"} \cup Over
      /\ {"idle", "adding", "copying", "work", "pinning", "removing", "verdict"} = Places
      /\ Over = {"completed", "failed", "skipped"}
      BY DEF Over, Places
<1>g. ASSUME NEW u \in Unit, NEW w \in Places, Goto(u, w)
      PROVE  at'[u] = w /\ \A v \in Unit : v # u => at'[v] = at[v]
      BY <1>g, <1>t, GoOne
<1>h. ASSUME NEW m \in Member, NEW s \in {"pending", "running"} \cup Over, Mark(m, s)
      PROVE  status'[m] = s /\ \A n \in Member : n # m => status'[n] = status[n]
      BY <1>h, <1>t, MarkOne, Units
\* Steps in which no work is committed, pinned or removed.
<1>a. ASSUME UNCHANGED <<holds, pinned, resumes, shape>>, trees \subseteq trees',
             \A u \in Unit : at'[u] = "removing" => at[u] = "removing",
             \A u \in Unit : Done(u)' => Done(u),
             \A m \in Member : status'[m] = "running" =>
               status[m] = "running" \/ \A n \in Inputs(m) : status[n] = "completed",
             \A m \in Member : status[m] = "completed" => status'[m] = "completed",
             Closed => Closed'
      PROVE  WorkInv'
  <2>1. \A k \in {Static} \cup Item : k \notin trees' => holds'[k] = {}
        BY <1>a DEF WorkInv
  <2>2. \A u \in Unit : at'[u] = "removing" => holds'[Key(u)] \subseteq pinned'
        BY <1>a DEF WorkInv
  <2>3. \A u \in Unit : Done(u)' => u \in pinned' \cup holds'[Key(u)]
        BY <1>a DEF WorkInv
  <2>4. \A m \in Member : status'[m] = "running" => \A n \in shape'[m] : status'[n] = "completed"
        BY <1>a, <1>t DEF WorkInv, Inputs
  <2>5. resumes' = 0 => \A m \in Member : Done(m)' => m \in holds'[Static] \/ Closed'
        BY <1>a, Units DEF WorkInv
  <2> QED
      BY <2>1, <2>2, <2>3, <2>4, <2>5 DEF WorkInv, Inputs
\* In such a step a member may do these.
<1>b. ASSUME NEW m \in Member, UNCHANGED <<holds, pinned, resumes, shape, result>>,
             trees \subseteq trees',
             \A v \in Unit : v # m => at'[v] = at[v],
             \A n \in Member : n # m => status'[n] = status[n],
             at'[m] \notin {"pinning", "removing", "verdict"},
             status'[m] = "completed" => at[m] = "verdict",
             status[m] # "completed",
             status'[m] = "running" =>
               status[m] = "running" \/ \A n \in Inputs(m) : status[n] = "completed",
             status[m] \in Over \/ at[m] = "verdict" => status'[m] \in Over
      PROVE  WorkInv'
  <2>1. \A u \in Unit : at'[u] = "removing" => at[u] = "removing"
        BY <1>b
  <2>2. \A u \in Unit : Done(u)' => Done(u)
    <3> TAKE u \in Unit
    <3>1. CASE u = m
          BY <1>b, <3>1 DEF Done
    <3>2. CASE u # m
          BY <1>b, <3>2 DEF Done
    <3> QED
        BY <3>1, <3>2
  <2>3. Closed => Closed'
    <3> SUFFICES ASSUME Closed, NEW n \in Member PROVE status'[n] \in Over \/ at'[n] = "verdict"
        BY DEF Closed
    <3>1. CASE n = m
          BY <1>b, <3>1 DEF Closed
    <3>2. CASE n # m
          BY <1>b, <3>2, Units DEF Closed
    <3> QED
        BY <3>1, <3>2
  <2> QED
      BY <1>a, <1>b, <2>1, <2>2, <2>3
<1>1. CASE UNCHANGED vars
  <2>1. UNCHANGED <<shape, status, at, trees, holds, pinned, result, answers, resumes>>
        BY <1>1 DEF vars, treeVars, forkVars
  <2> QED
      BY <1>a, <2>1 DEF Done, Closed
<1>2. ASSUME NEW m \in Member, SkipMember(m) PROVE WorkInv'
  <2>1. /\ status[m] = "pending" /\ Mark(m, "skipped")
        /\ UNCHANGED <<shape, at, trees, holds, pinned, result, answers, resumes>>
        BY <1>2 DEF SkipMember, Ready, treeVars, forkVars
  <2>2. status'[m] = "skipped" /\ \A n \in Member : n # m => status'[n] = status[n]
        BY <1>h, <1>s, <2>1
  <2>3. at[m] = "idle"
        BY <2>1 DEF TreeInv
  <2> QED
      BY <1>b, <1>s, <2>1, <2>2, <2>3
<1>3. ASSUME NEW m \in Member, StartMember(m) PROVE WorkInv'
  <2>1. /\ status[m] = "pending" /\ Mark(m, "running") /\ \A n \in Inputs(m) : Taken(n)
        /\ Goto(m, IF known THEN "work" ELSE "adding")
        /\ UNCHANGED <<shape, trees, holds, pinned, result, answers, resumes>>
        BY <1>3 DEF StartMember, Ready, treeVars, forkVars
  <2>2. status'[m] = "running" /\ \A n \in Member : n # m => status'[n] = status[n]
        BY <1>h, <1>s, <2>1
  <2>3. /\ at'[m] \in {"work", "adding"} /\ \A v \in Unit : v # m => at'[v] = at[v]
    <3>1. (IF known THEN "work" ELSE "adding") \in Places
          BY <1>s
    <3> QED
        BY <1>g, <2>1, <3>1, Units
  <2>4. at[m] = "idle"
        BY <2>1 DEF TreeInv
  <2> QED
      BY <1>b, <1>s, <2>1, <2>2, <2>3, <2>4 DEF Taken
<1>4. ASSUME NEW u \in Unit, AddTree(u) PROVE WorkInv'
  <2>1. /\ at[u] = "adding" /\ Key(u) \notin trees /\ trees' = trees \cup {Key(u)}
        /\ holds' = [holds EXCEPT ![Key(u)] = {}]
        /\ UNCHANGED <<shape, status, pinned, result, answers, resumes>>
        /\ \E w \in {"copying", "work"} : Goto(u, w)
        BY <1>4 DEF AddTree, forkVars
  <2>2. holds' = holds
    <3>1. Key(u) \in {Static} \cup Item /\ holds[Key(u)] = {}
          BY <2>1, Units DEF WorkInv
    <3> QED
        BY <1>t, <2>1, <3>1
  <2>3. at'[u] \in {"copying", "work"} /\ \A v \in Unit : v # u => at'[v] = at[v]
        BY <1>g, <1>s, <2>1
  <2>4. \A v \in Unit : Done(v)' => Done(v)
        BY <2>1, <2>3 DEF Done
  <2>5. Closed => Closed'
        BY <2>1, <2>3, Units DEF Closed
  <2>6. \A v \in Unit : at'[v] = "removing" => at[v] = "removing"
        BY <2>3
  <2> QED
      BY <1>a, <2>1, <2>2, <2>4, <2>5, <2>6
<1>5. ASSUME NEW m \in Member, Copied(m) PROVE WorkInv'
  <2>1. /\ at[m] = "copying" /\ Goto(m, "work")
        /\ UNCHANGED <<shape, status, trees, holds, pinned, result, answers, resumes>>
        BY <1>5 DEF Copied, forkVars
  <2>2. at'[m] = "work" /\ \A v \in Unit : v # m => at'[v] = at[v]
        BY <1>g, <1>s, <2>1, Units
  <2>3. status[m] = "running"
        BY <2>1 DEF TreeInv
  <2> QED
      BY <1>b, <1>s, <2>1, <2>2, <2>3
<1>6. ASSUME NEW u \in Unit, WorkSucceeds(u) PROVE WorkInv'
  <2>1. /\ at[u] = "work" /\ holds' = [holds EXCEPT ![Key(u)] = @ \cup {u}]
        /\ UNCHANGED <<shape, status, trees, pinned, result, resumes>>
        /\ \E w \in {"verdict", "pinning"} : Goto(u, w)
        BY <1>6 DEF WorkSucceeds, forkVars
  <2>2. at'[u] \in {"verdict", "pinning"} /\ \A v \in Unit : v # u => at'[v] = at[v]
        BY <1>g, <1>s, <2>1
  <2>3. Key(u) \in {Static} \cup Item
        BY Units
  <2>4. /\ holds'[Key(u)] = holds[Key(u)] \cup {u}
        /\ \A k \in {Static} \cup Item : k # Key(u) => holds'[k] = holds[k]
        BY <1>t, <2>1, <2>3
  <2>5. \A k \in {Static} \cup Item : holds[k] \subseteq holds'[k]
        BY <2>4
  <2>6. Key(u) \in trees
    <3>1. CASE u \in Member
          BY <2>1, <3>1, Units DEF TreeInv
    <3>2. CASE u \in Item
          BY <2>1, <3>2, Units DEF TreeInv
    <3> QED
        BY <3>1, <3>2, Units
  <2>7. \A v \in Unit : at'[v] = "removing" => holds'[Key(v)] \subseteq pinned'
    <3> SUFFICES ASSUME NEW v \in Unit, at'[v] = "removing"
                 PROVE  holds'[Key(v)] \subseteq pinned
        BY <2>1
    <3>1. v # u /\ at[v] = "removing"
          BY <2>2
    <3>2. Key(v) # Key(u)
      <4>1. CASE u \in Member /\ v \in Member
        <5>1. status[u] = "running" /\ status[u] \in Over
              BY <2>1, <3>1, <4>1 DEF TreeInv
        <5> QED
            BY <5>1 DEF Over
      <4>2. CASE u \in Item /\ v \in Item
            BY <3>1, <4>2, Units
      <4>3. CASE (u \in Member /\ v \in Item) \/ (u \in Item /\ v \in Member)
            BY <4>3, Units
      <4> QED
          BY <4>1, <4>2, <4>3, Units
    <3> QED
        BY <2>4, <3>1, <3>2, Units DEF WorkInv
  <2>8. \A v \in Unit : Done(v)' => v \in pinned' \cup holds'[Key(v)]
    <3> SUFFICES ASSUME NEW v \in Unit, Done(v)'
                 PROVE  v \in pinned' \cup holds'[Key(v)]
        OBVIOUS
    <3>1. CASE v = u
          BY <2>1, <2>4, <3>1
    <3>2. CASE v # u
      <4>1. Done(v)
            BY <2>1, <2>2, <3>2 DEF Done
      <4> QED
          BY <2>1, <2>5, <4>1, Units DEF WorkInv
    <3> QED
        BY <3>1, <3>2
  <2>9. \A k \in {Static} \cup Item : k \notin trees' => holds'[k] = {}
        BY <2>1, <2>4, <2>6 DEF WorkInv
  <2>10. \A m \in Member : status'[m] = "running" => \A n \in Inputs(m)' : status'[n] = "completed"
        BY <2>1 DEF WorkInv, Inputs
  <2>11. ASSUME resumes' = 0, NEW m \in Member, Done(m)' PROVE m \in holds'[Static] \/ Closed'
    <3>1. CASE m = u
          BY <2>4, <3>1, Units
    <3>2. CASE m # u
      <4>1. Done(m)
            BY <2>1, <2>2, <2>11, <3>2, Units DEF Done
      <4>2. m \in holds[Static] \/ Closed
            BY <2>1, <2>11, <4>1 DEF WorkInv
      <4>3. Closed => Closed'
            BY <2>1, <2>2, Units DEF Closed
      <4> QED
          BY <2>5, <4>2, <4>3
    <3> QED
        BY <3>1, <3>2
  <2> QED
      BY <2>7, <2>8, <2>9, <2>10, <2>11 DEF WorkInv
<1>7. ASSUME NEW u \in Unit, Pin(u) PROVE WorkInv'
  <2>1. /\ at[u] = "pinning" /\ pinned' = pinned \cup holds[Key(u)] /\ Goto(u, "removing")
        /\ UNCHANGED <<shape, status, trees, holds, result, answers, resumes>>
        BY <1>7 DEF Pin, forkVars
  <2>2. at'[u] = "removing" /\ \A v \in Unit : v # u => at'[v] = at[v]
        BY <1>g, <1>s, <2>1
  <2>3. \A v \in Unit : Done(v)' => Done(v)
        BY <2>1, <2>2 DEF Done
  <2>4. Closed => Closed'
        BY <2>1, <2>2, Units DEF Closed
  <2>5. \A v \in Unit : at'[v] = "removing" => holds'[Key(v)] \subseteq pinned'
    <3> TAKE v \in Unit
    <3>1. CASE v = u
          BY <2>1, <3>1
    <3>2. CASE v # u
          BY <2>1, <2>2, <3>2 DEF WorkInv
    <3> QED
        BY <3>1, <3>2
  <2>6. \A v \in Unit : Done(v)' => v \in pinned' \cup holds'[Key(v)]
        BY <2>1, <2>3 DEF WorkInv
  <2>7. \A k \in {Static} \cup Item : k \notin trees' => holds'[k] = {}
        BY <2>1 DEF WorkInv
  <2>8. \A m \in Member : status'[m] = "running" => \A n \in Inputs(m)' : status'[n] = "completed"
        BY <2>1 DEF WorkInv, Inputs
  <2>9. resumes' = 0 => \A m \in Member : Done(m)' => m \in holds'[Static] \/ Closed'
        BY <2>1, <2>3, <2>4, Units DEF WorkInv
  <2> QED
      BY <2>5, <2>6, <2>7, <2>8, <2>9 DEF WorkInv
\* The tree of a unit is removed: its work is pinned.
<1>r. ASSUME NEW u \in Unit, RemoveTree(u), NEW w \in {"idle", "verdict"}, Goto(u, w),
             UNCHANGED <<shape, status, pinned, answers, resumes>>,
             u \in Member => UNCHANGED result /\ w = "verdict",
             u \in Item => \A j \in Item : j # u => result'[j] = result[j]
      PROVE  WorkInv'
  <2>1. /\ at[u] = "removing" /\ trees' = trees \ {Key(u)} /\ holds'[Key(u)] = {}
        /\ \A k \in {Static} \cup Item : k # Key(u) => holds'[k] = holds[k]
        BY <1>r, <1>t, RemoveOne
  <2>2. at'[u] = w /\ \A v \in Unit : v # u => at'[v] = at[v]
        BY <1>g, <1>r, <1>s
  <2>3. holds[Key(u)] \subseteq pinned
        BY <2>1 DEF WorkInv
  <2>4. Done(u)
        BY <2>1 DEF Done
  <2>5. \A v \in Unit : Done(v)' => Done(v)
    <3> TAKE v \in Unit
    <3>1. CASE v = u
          BY <2>4, <3>1
    <3>2. CASE v # u
          BY <1>r, <2>2, <3>2, Units DEF Done
    <3> QED
        BY <3>1, <3>2
  <2>6. \A v \in Unit : Done(v)' => v \in pinned' \cup holds'[Key(v)]
    <3> SUFFICES ASSUME NEW v \in Unit, Done(v)'
                 PROVE  v \in pinned' \cup holds'[Key(v)]
        OBVIOUS
    <3>1. v \in pinned \cup holds[Key(v)]
          BY <2>5 DEF WorkInv
    <3>2. CASE Key(v) = Key(u)
          BY <1>r, <2>3, <3>1, <3>2
    <3>3. CASE Key(v) # Key(u)
          BY <1>r, <2>1, <3>1, <3>3, Units
    <3> QED
        BY <3>2, <3>3
  <2>7. \A v \in Unit : at'[v] = "removing" => holds'[Key(v)] \subseteq pinned'
    <3> SUFFICES ASSUME NEW v \in Unit, at'[v] = "removing"
                 PROVE  holds'[Key(v)] \subseteq pinned
        BY <1>r
    <3>1. at[v] = "removing"
          BY <2>1, <2>2
    <3>2. CASE Key(v) = Key(u)
          BY <2>1, <3>2
    <3>3. CASE Key(v) # Key(u)
          BY <2>1, <3>1, <3>3, Units DEF WorkInv
    <3> QED
        BY <3>2, <3>3
  <2>8. \A k \in {Static} \cup Item : k \notin trees' => holds'[k] = {}
        BY <2>1 DEF WorkInv
  <2>9. \A m \in Member : status'[m] = "running" => \A n \in Inputs(m)' : status'[n] = "completed"
        BY <1>r DEF WorkInv, Inputs
  <2>10. ASSUME resumes' = 0, NEW m \in Member, Done(m)' PROVE m \in holds'[Static] \/ Closed'
    <3>1. CASE u \in Member
      <4>1. \A n \in Member \ {u} : status[n] \in Over
            BY <2>1, <3>1 DEF TreeInv
      <4>2. Closed'
            BY <1>r, <2>2, <3>1, <4>1 DEF Closed
      <4> QED
          BY <4>2
    <3>2. CASE u \in Item
      <4>1. m \in holds[Static] \/ Closed
            BY <1>r, <2>5, <2>10, Units DEF WorkInv
      <4>2. Closed => Closed'
            BY <1>r, <2>2, <3>2, Units DEF Closed
      <4>3. holds'[Static] = holds[Static]
            BY <2>1, <3>2, Units
      <4> QED
          BY <4>1, <4>2, <4>3
    <3> QED
        BY <3>1, <3>2, Units
  <2> QED
      BY <2>6, <2>7, <2>8, <2>9, <2>10 DEF WorkInv
<1>8. ASSUME NEW m \in Member, CloseBranch(m) PROVE WorkInv'
  <2>1. /\ RemoveTree(m) /\ Goto(m, "verdict")
        /\ UNCHANGED <<shape, status, pinned, result, answers, resumes>>
        BY <1>8 DEF CloseBranch, forkVars
  <2> QED
      BY <1>r, <2>1, Units
<1>9. ASSUME NEW m \in Member, RecordMember(m) \/ MemberFails(m) PROVE WorkInv'
  <2>1. /\ \/ Mark(m, "completed") /\ at[m] = "verdict"
           \/ Mark(m, "failed") /\ at[m] # "idle"
        /\ Goto(m, "idle")
        /\ UNCHANGED <<shape, trees, holds, pinned, result, answers, resumes>>
        BY <1>9 DEF RecordMember, MemberFails, treeVars, forkVars
  <2>2. at'[m] = "idle" /\ \A v \in Unit : v # m => at'[v] = at[v]
        BY <1>g, <1>s, <2>1, Units
  <2>3. /\ (status'[m] = "completed" /\ at[m] = "verdict") \/ status'[m] = "failed"
        /\ \A n \in Member : n # m => status'[n] = status[n]
        BY <1>h, <1>s, <2>1
  <2>4. status[m] = "running"
        BY <2>1 DEF TreeInv
  <2> QED
      BY <1>b, <1>s, <2>1, <2>2, <2>3, <2>4
<1>10. ASSUME NEW i \in Item, ItemSucceeds(i) PROVE WorkInv'
  <2>1. /\ RemoveTree(i) /\ ItemSettles(i, "completed")
        /\ UNCHANGED <<shape, status, pinned, answers, resumes>>
        BY <1>10 DEF ItemSucceeds
  <2>2. Goto(i, "idle") /\ \A j \in Item : j # i => result'[j] = result[j]
        BY <1>t, <2>1, SettleOne
  <2> QED
      BY <1>r, <2>1, <2>2, Units
<1>11. ASSUME NEW i \in Item, ItemFails(i) \/ ItemThrows(i) PROVE WorkInv'
  <2>1. /\ Goto(i, "idle") /\ result' = [result EXCEPT ![i] = "failed"]
        /\ UNCHANGED <<shape, trees, holds, pinned, answers, resumes>>
        BY <1>11 DEF ItemFails, ItemThrows, ItemSettles, treeVars
  <2>2. at'[i] = "idle" /\ \A v \in Unit : v # i => at'[v] = at[v]
        BY <1>g, <1>s, <2>1, Units
  <2>3. result'[i] = "failed" /\ \A j \in Item : j # i => result'[j] = result[j]
        BY <1>t, <2>1
  <2>4. \A m \in Member : status'[m] = status[m]
    <3>1. CASE UNCHANGED status
          BY <3>1
    <3>2. CASE Mark(Fork, "failed")
          BY <1>s, <1>t, <3>2, MarkOne, Units
    <3> QED
        BY <1>11, <3>1, <3>2 DEF ItemFails, ItemThrows
  <2>5. \A v \in Unit : Done(v)' => Done(v)
    <3> TAKE v \in Unit
    <3>1. CASE v = i
          BY <2>2, <2>3, <3>1, Units DEF Done
    <3>2. CASE v # i
          BY <2>2, <2>3, <2>4, <3>2, Units DEF Done
    <3> QED
        BY <3>1, <3>2
  <2>6. Closed => Closed'
        BY <2>2, <2>4, Units DEF Closed
  <2>7. \A v \in Unit : at'[v] = "removing" => at[v] = "removing"
        BY <2>2
  <2> QED
      BY <1>a, <2>1, <2>4, <2>5, <2>6, <2>7
<1>12. CASE GroupStepOfNode
  <2>1. /\ UNCHANGED <<shape, trees, holds, pinned, result, answers, resumes>>
        /\ \A m \in Member : status'[m] = status[m] /\ at'[m] = at[m]
        /\ \A i \in Item : at'[i] = at[i] \/ at'[i] = "adding"
        BY <1>12, NodeSteps
  <2>2. \A v \in Unit : Done(v)' => Done(v)
        BY <2>1, Units DEF Done
  <2>3. Closed => Closed'
        BY <2>1 DEF Closed
  <2>4. \A v \in Unit : at'[v] = "removing" => at[v] = "removing"
        BY <2>1, Units
  <2> QED
      BY <1>a, <2>1, <2>2, <2>3, <2>4
<1>13. CASE Resume
  <2>1. /\ status' = [k \in Node |-> IF Taken(k) THEN "completed" ELSE "pending"]
        /\ at' = [u \in Unit |-> "idle"] /\ resumes' = resumes + 1
        /\ UNCHANGED <<shape, trees, holds, pinned, answers>>
        /\ UNCHANGED result \/ result' = [j \in Item |-> "none"]
        BY <1>13 DEF Resume
  <2>2. \A v \in Unit : at'[v] = "idle"
        BY <2>1
  <2>3. \A m \in Member : status'[m] = (IF status[m] = "completed" THEN "completed" ELSE "pending")
        BY <2>1, Units DEF Taken
  <2>4. \A v \in Unit : Done(v)' => Done(v)
    <3> SUFFICES ASSUME NEW v \in Unit, Done(v)' PROVE Done(v)
        OBVIOUS
    <3>1. CASE v \in Member
          BY <2>2, <2>3, <3>1 DEF Done
    <3>2. CASE v \in Item
          BY <2>1, <2>2, <3>2, Units DEF Done
    <3> QED
        BY <3>1, <3>2, Units
  <2>5. resumes' # 0
        BY <2>1, Typed
  <2>6. \A v \in Unit : Done(v)' => v \in pinned' \cup holds'[Key(v)]
        BY <2>1, <2>4 DEF WorkInv
  <2>7. \A k \in {Static} \cup Item : k \notin trees' => holds'[k] = {}
        BY <2>1 DEF WorkInv
  <2> QED
      BY <2>2, <2>3, <2>5, <2>6, <2>7 DEF WorkInv
<1> QED
    BY <1>1, <1>2, <1>3, <1>4, <1>5, <1>6, <1>7, <1>8, <1>9, <1>10, <1>11, <1>12, <1>13, Units
       DEF Next, GroupStep, GroupStepOfNode

\* A run begins with no trees.
LEMMA InitTrees == Init => TreeInv /\ WorkInv
<1> SUFFICES ASSUME Init PROVE TreeInv /\ WorkInv
    OBVIOUS
<1>1. /\ known = FALSE /\ \A u \in Unit : at[u] = "idle"
      /\ \A n \in Node : status[n] = "pending"
      /\ \A i \in Item : result[i] = "none"
      /\ \A k \in {Static} \cup Item : holds[k] = {}
      BY DEF Init
<1>2. TreeInv
      BY <1>1, Units DEF TreeInv
<1>3. \A u \in Unit : ~Done(u)
      BY <1>1, Units DEF Done
<1>4. WorkInv
      BY <1>1, <1>3, Units DEF WorkInv
<1> QED
    BY <1>2, <1>4

(* A member finds the work of the members it depends on in its tree, or    *)
(* after a resumption at least pinned, and no work that was taken for done *)
(* is unreachable.                                                         *)
THEOREM BranchWorkStays == Spec => []BranchWorkIsKept
<1>1. Types /\ TreeInv /\ WorkInv => SeesItsBranch
  <2> SUFFICES ASSUME Types, TreeInv, WorkInv, NEW m \in Member, at[m] = "work",
                      NEW n \in Inputs(m)
               PROVE  /\ resumes = 0 => n \in holds[Static]
                      /\ n \in holds[Static] \cup pinned
      BY DEF SeesItsBranch
  <2>1. n \in Member /\ status[m] = "running"
        BY Typed DEF TreeInv, Inputs
  <2>2. Done(n)
        BY <2>1 DEF Done, WorkInv
  <2>3. ~Closed
        BY <2>1 DEF Closed, Over
  <2> QED
      BY <2>1, <2>2, <2>3, Units DEF WorkInv
<1>2. WorkInv => NoCommitIsLost
  <2> SUFFICES ASSUME WorkInv, NEW u \in Unit, Succeeded(u)
               PROVE  u \in pinned \/ (Key(u) \in trees /\ u \in holds[Key(u)])
      BY DEF NoCommitIsLost
  <2>1. Done(u)
        BY DEF Done, Succeeded
  <2>2. u \in pinned \cup holds[Key(u)] /\ Key(u) \in {Static} \cup Item
        BY <2>1, Units DEF WorkInv
  <2> QED
      BY <2>2 DEF WorkInv
<1>3. Types /\ TreeInv /\ WorkInv => BranchWorkIsKept
      BY <1>1, <1>2 DEF BranchWorkIsKept
<1> QED
    BY InitTypes, InitTrees, StepTypes, TreeStep, WorkStep, <1>3, PTL DEF Spec

-----------------------------------------------------------------------------
(* The fork node.                                                          *)

\* A fork settles over what its items have come to.
LEMMA ForkStep == Types /\ ForkInv /\ [Next]_vars => ForkInv'
<1> SUFFICES ASSUME Types, ForkInv, [Next]_vars PROVE ForkInv'
    OBVIOUS
<1>t. /\ TypeOK /\ ChunkInv
      /\ status \in [Node -> {"pending", "running"} \cup Over] /\ at \in [Unit -> Places]
      /\ result \in [Item -> {"none", "completed", "failed"}]
      /\ todo \in Seq(Item) \cup {NoList} /\ listed \in Lists \cup {NoList}
      BY Typed DEF Types
<1>s. {"pending", "running", "completed", "failed", "skipped"} = {"pending", "running"} \cup Over
      BY DEF Over
<1>h. ASSUME NEW n \in Node, NEW s \in {"pending", "running"} \cup Over, Mark(n, s)
      PROVE  status'[n] = s /\ (n # Fork => status'[Fork] = status[Fork])
      BY <1>h, <1>t, MarkOne, Units
\* Steps that the fork does not see.
<1>a. ASSUME status'[Fork] = status[Fork], UNCHANGED <<todo, listed, chunk, failures, result>>
      PROVE  ForkInv'
      BY <1>a DEF ForkInv, ForkRuns, ForkVerdictIsEarned
<1>b. ASSUME status'[Fork] \in {"failed", "skipped"}
      PROVE  ForkInv'
      BY <1>b DEF ForkInv, ForkRuns, ForkVerdictIsEarned
<1>1. CASE UNCHANGED vars
      BY <1>1, <1>a DEF vars, forkVars
<1>2. ASSUME NEW m \in Member, SkipMember(m) \/ StartMember(m) \/ RecordMember(m) \/ MemberFails(m)
      PROVE  ForkInv'
  <2>1. /\ \E s \in {"skipped", "running", "completed", "failed"} : Mark(m, s)
        /\ UNCHANGED <<todo, listed, chunk, failures, result>>
        BY <1>2 DEF SkipMember, StartMember, RecordMember, MemberFails, forkVars
  <2>2. status'[Fork] = status[Fork]
        BY <1>h, <1>s, <2>1, Units
  <2> QED
      BY <1>a, <2>1, <2>2
<1>3. CASE \/ \E m \in Member : Copied(m) \/ CloseBranch(m)
           \/ \E u \in Unit : AddTree(u) \/ WorkSucceeds(u) \/ Pin(u)
  <2>1. UNCHANGED <<status, todo, listed, chunk, failures, result>>
        BY <1>3 DEF Copied, CloseBranch, AddTree, WorkSucceeds, Pin, forkVars
  <2> QED
      BY <1>a, <2>1
\* Only an item of the chunk that the fork waits for can settle, unless the
\* fork has failed.
<1>i. ASSUME NEW i \in Item, at[i] # "idle"
      PROVE  status[Fork] # "completed"
      BY <1>i, <1>t DEF ChunkInv, ForkRuns
<1>4. ASSUME NEW i \in Item, ItemSucceeds(i) \/ ItemFails(i) PROVE ForkInv'
  <2>1. PICK r \in {"completed", "failed"} :
          /\ ItemSettles(i, r)
          /\ r = "completed" \/ i \in failures'
        BY <1>4 DEF ItemSucceeds, ItemFails
  <2>2. /\ at[i] # "idle" /\ failures \subseteq failures'
        /\ UNCHANGED <<status, todo, listed>>
        BY <1>4 DEF ItemSucceeds, ItemFails, RemoveTree
  <2>3. /\ result'[i] = r /\ \A j \in Item : j # i => result'[j] = result[j]
        /\ chunk' = chunk \ {i}
        BY <1>t, <2>1, SettleOne
  <2>4. status[Fork] # "completed"
        BY <1>i, <2>2
  <2>5. listed # NoList => Range(listed) \subseteq Item
        BY <1>t, ListsAreSequences
  <2>6. ASSUME ForkRuns, todo # NoList, listed # NoList, NEW j \in Range(listed)
        PROVE  j \in Range(todo) \/ j \in chunk' \/ j \in failures' \/ result'[j] = "completed"
    <3>1. j \in Item
          BY <2>5, <2>6
    <3>2. j \in Range(todo) \/ j \in chunk \/ j \in failures \/ result[j] = "completed"
          BY <2>6 DEF ForkInv
    <3>3. CASE j = i
          BY <2>1, <2>3, <3>3
    <3>4. CASE j # i
          BY <2>2, <2>3, <3>1, <3>2, <3>4
    <3> QED
        BY <3>3, <3>4
  <2> QED
      BY <2>2, <2>4, <2>6 DEF ForkInv, ForkRuns, ForkVerdictIsEarned
<1>5. ASSUME NEW i \in Item, ItemThrows(i) PROVE ForkInv'
  <2>1. at[i] # "idle" /\ UNCHANGED <<todo, listed, failures>>
        BY <1>5 DEF ItemThrows
  <2>2. status[Fork] # "completed"
        BY <1>i, <2>1
  <2>3. CASE ForkRuns
    <3>1. Mark(Fork, "failed")
          BY <1>5, <2>3 DEF ItemThrows
    <3>2. status'[Fork] = "failed"
          BY <1>h, <1>s, <3>1, Units
    <3> QED
        BY <1>b, <3>2
  <2>4. CASE ~ForkRuns
    <3>1. UNCHANGED status
          BY <1>5, <2>4 DEF ItemThrows
    <3> QED
        BY <2>1, <2>2, <2>4, <3>1 DEF ForkInv, ForkRuns, ForkVerdictIsEarned
  <2> QED
      BY <2>3, <2>4
<1>6. CASE StartFork
  <2>1. status[Fork] = "pending" /\ Mark(Fork, "running") /\ UNCHANGED todo
        BY <1>6 DEF StartFork, forkVars
  <2>2. status'[Fork] = "running" /\ todo' = NoList
        BY <1>h, <1>s, <2>1, Units DEF ForkInv
  <2> QED
      BY <2>2 DEF ForkInv, ForkVerdictIsEarned
<1>7. CASE Expand
  <2>1. status[Fork] = "running" /\ UNCHANGED status /\ (listed' # NoList => todo' = listed')
        BY <1>7 DEF Expand, ForkRuns
  <2> QED
      BY <2>1 DEF ForkInv, ForkVerdictIsEarned
<1>8. CASE ExpandFails
  <2>1. status'[Fork] = "failed"
        BY <1>8, <1>h, <1>s, Units DEF ExpandFails
  <2> QED
      BY <1>b, <2>1
<1>9. CASE StartChunk
  <2> DEFINE n == Min({MaxConcurrent, Len(todo)})
  <2>1. /\ status[Fork] = "running" /\ todo \notin {NoList, <<>>} /\ chunk = {}
        /\ chunk' = Range(SubSeq(todo, 1, n)) /\ todo' = SubSeq(todo, n + 1, Len(todo))
        /\ UNCHANGED <<status, listed, failures, result>>
        BY <1>9 DEF StartChunk, ForkRuns
  <2>2. todo \in Seq(Item) /\ todo # <<>>
        BY <1>t, <2>1
  <2>3. Len(todo) \in Nat \ {0} /\ MaxConcurrent \in Nat \ {0}
        BY <2>2, BranchesAssumption
  <2>4. n \in 0 .. Len(todo)
        BY <2>3, Smaller
  <2> HIDE DEF n
  <2>5. Range(todo) = chunk' \cup Range(todo')
        BY <2>1, <2>2, <2>4, Cut
  <2> QED
      BY <2>1, <2>5 DEF ForkInv, ForkRuns, ForkVerdictIsEarned
<1>10. CASE ForkSettles
  <2>1. /\ status[Fork] = "running" /\ todo # NoList /\ chunk = {}
        /\ failures = {} => todo = <<>>
        /\ Mark(Fork, IF failures = {} THEN "completed" ELSE "failed")
        /\ UNCHANGED <<todo, listed, chunk, failures, result>>
        BY <1>10 DEF ForkSettles, ForkRuns, forkVars
  <2>2. CASE failures = {}
    <3>1. Mark(Fork, "completed") /\ todo = <<>>
          BY <2>1, <2>2
    <3>2. status'[Fork] = "completed"
          BY <1>h, <1>s, <3>1, Units
    <3> QED
        BY <2>1, <2>2, <3>1, <3>2, ListsAreSequences DEF ForkInv, ForkRuns, ForkVerdictIsEarned
  <2>3. CASE failures # {}
    <3>1. Mark(Fork, "failed")
          BY <2>1, <2>3
    <3>2. status'[Fork] = "failed"
          BY <1>h, <1>s, <3>1, Units
    <3> QED
        BY <1>b, <3>2
  <2> QED
      BY <2>2, <2>3
<1>11. CASE StartJoin \/ SkipJoin \/ \E s \in {"completed", "failed"} : JoinEnds(s)
  <2>1. /\ \E s \in {"skipped", "running", "completed", "failed"} : Mark(Join, s)
        /\ UNCHANGED <<todo, listed, chunk, failures, result>>
        BY <1>11 DEF StartJoin, SkipJoin, JoinEnds, forkVars
  <2>2. status'[Fork] = status[Fork]
        BY <1>h, <1>s, <2>1, Units
  <2> QED
      BY <1>a, <2>1, <2>2
<1>12. CASE Resume
  <2>1. /\ status' = [k \in Node |-> IF Taken(k) THEN "completed" ELSE "pending"]
        /\ todo' = NoList /\ UNCHANGED listed
        /\ result' = IF Taken(Fork) THEN result ELSE [i \in Item |-> "none"]
        BY <1>12 DEF Resume
  <2>2. status'[Fork] = IF status[Fork] = "completed" THEN "completed" ELSE "pending"
        BY <2>1, Units DEF Taken
  <2> QED
      BY <2>1, <2>2 DEF ForkInv, ForkRuns, ForkVerdictIsEarned, Taken
<1> QED
    BY <1>1, <1>2, <1>3, <1>4, <1>5, <1>6, <1>7, <1>8, <1>9, <1>10, <1>11, <1>12
       DEF Next, GroupStep

\* A fork begins with no list.
LEMMA InitFork == Init => ForkInv
<1> SUFFICES ASSUME Init PROVE ForkInv
    OBVIOUS
<1>1. status[Fork] = "pending" /\ todo = NoList
      BY Units DEF Init
<1> QED
    BY <1>1 DEF ForkInv, ForkRuns, ForkVerdictIsEarned

(* A fork node is completed only over items that have all succeeded,       *)
(* whatever fails or throws in its chunks.                                 *)
THEOREM ForkEarnsItsVerdict == Spec => []ForkVerdictIsEarned
<1>1. ForkInv => ForkVerdictIsEarned
      BY DEF ForkInv
<1> QED
    BY InitTypes, InitFork, StepTypes, ForkStep, <1>1, PTL DEF Spec

(* The list of items that the journal holds is the list of the run: a      *)
(* resumed fork node takes it over.                                        *)
THEOREM ListIsDurable == Spec => BranchSetIsDurable
<1>1. [Next]_vars => [listed # NoList => listed' = listed]_vars
  <2> SUFFICES ASSUME [Next]_vars, listed # NoList PROVE listed' = listed
      OBVIOUS
  <2>1. CASE UNCHANGED vars
        BY <2>1 DEF vars, forkVars
  <2>2. CASE GroupStep
        BY <2>2 DEF GroupStep, SkipMember, StartMember, Copied, CloseBranch, RecordMember,
           MemberFails, AddTree, WorkSucceeds, Pin, ItemSucceeds, ItemFails, ItemThrows, StartFork,
           Expand, ExpandFails, StartChunk, ForkSettles, StartJoin, SkipJoin, JoinEnds, forkVars
  <2>3. CASE Resume
        BY <2>3 DEF Resume
  <2> QED
      BY <2>1, <2>2, <2>3 DEF Next
<1> QED
    BY <1>1, PTL DEF Spec, BranchSetIsDurable

-----------------------------------------------------------------------------
(* The manifest.                                                           *)

\* A manifest is written from the recorded list.
LEMMA ManifestStep ==
  Types /\ TreeInv /\ WorkInv /\ ForkInv /\ ManifestInv /\ [Next]_vars => ManifestInv'
<1> SUFFICES ASSUME Types, TreeInv, WorkInv, ForkInv, ManifestInv, [Next]_vars PROVE ManifestInv'
    OBVIOUS
<1>t. /\ TypeOK /\ ChunkInv
      /\ status \in [Node -> {"pending", "running"} \cup Over]
      /\ listed \in Lists \cup {NoList}
      /\ result \in [Item -> {"none", "completed", "failed"}]
      BY Typed DEF Types, TypeOK
<1>s. /\ {"pending", "running", "completed", "failed", "skipped"} = {"pending", "running"} \cup Over
      /\ Over = {"completed", "failed", "skipped"}
      BY DEF Over
<1>a. ASSUME status'[Join] # "running" PROVE ManifestInv'
      BY <1>a DEF ManifestInv, ManifestCoversGroup
\* While the join runs nobody works any more at what is called completed.
<1>q. ASSUME status[Join] = "running", NEW k \in DOMAIN manifest, manifest[k].status = "completed",
             NEW u \in Part(k)
      PROVE  u \in Unit /\ at[u] = "idle"
  <2>1. u \in Unit /\ Key(u) = k
        BY DEF Part
  <2>2. CASE u \in Member
    <3>1. status[u] \in Over
          BY <1>q, <2>2, Units DEF ManifestInv
    <3> QED
        BY <1>s, <2>1, <2>2, <3>1 DEF TreeInv
  <2>3. CASE u \in Item
    <3>1. k # Static
          BY <2>1, <2>3, Units
    <3>2. status[Fork] = "completed"
          BY <1>q, <3>1 DEF ManifestInv
    <3> QED
        BY <1>t, <2>1, <2>3, <3>2 DEF ChunkInv, ForkRuns
  <2> QED
      BY <2>1, <2>2, <2>3, Units
\* Steps that decide no node and touch only a unit at work.
<1>b. ASSUME UNCHANGED <<status, listed, manifest>>,
             \A u \in Unit : at[u] = "idle" =>
               /\ u \in answers' <=> u \in answers
               /\ u \in Item => result'[u] = result[u]
      PROVE  ManifestInv'
  <2> SUFFICES ASSUME status[Join] = "running" PROVE ManifestInv'
      BY <1>a, <1>b
  <2>1. /\ \A n \in Node \ {Join} : status'[n] \in Over
        /\ \A k \in DOMAIN manifest' : k # Static => manifest'[k].status = status'[Fork]
        /\ DOMAIN manifest' = {Static} \cup (IF listed' = NoList THEN {} ELSE Range(listed'))
        BY <1>b DEF ManifestInv, ManifestCoversGroup
  <2>2. ASSUME NEW k \in DOMAIN manifest', manifest'[k].status = "completed"
        PROVE  /\ \A u \in Part(k) : Succeeded(u)'
               /\ manifest'[k].answers = Part(k) \cap answers'
    <3>1. k \in DOMAIN manifest /\ manifest[k] = manifest'[k] /\ manifest[k].status = "completed"
          BY <1>b, <2>2
    <3>2. /\ \A u \in Part(k) : Succeeded(u)
          /\ manifest[k].answers = Part(k) \cap answers
          BY <3>1 DEF ManifestInv, ManifestCoversGroup
    <3>3. \A u \in Part(k) : u \in Unit /\ at[u] = "idle"
          BY <1>q, <3>1
    <3>4. Part(k) \cap answers' = Part(k) \cap answers
          BY <1>b, <3>3
    <3>5. ASSUME NEW u \in Part(k) PROVE Succeeded(u)'
          BY <1>b, <3>2, <3>3, Units DEF Succeeded
    <3> QED
        BY <3>1, <3>2, <3>4, <3>5
  <2> QED
      BY <2>1, <2>2 DEF ManifestInv, ManifestCoversGroup
\* Steps that mark a node other than the join: it is not over before.
<1>c. ASSUME NEW n \in Node \ {Join}, status[n] \notin Over, NEW s \in {"pending", "running"} \cup Over,
             Mark(n, s)
      PROVE  ManifestInv'
  <2>1. status[Join] # "running"
        BY <1>c DEF ManifestInv
  <2>2. status'[Join] = status[Join]
        BY <1>c, <1>t, MarkOne, Units
  <2> QED
      BY <1>a, <2>1, <2>2
<1>1. CASE UNCHANGED vars
      BY <1>1, <1>b DEF vars, forkVars
<1>2. ASSUME NEW m \in Member, SkipMember(m) \/ StartMember(m) \/ RecordMember(m) \/ MemberFails(m)
      PROVE  ManifestInv'
  <2>1. /\ \E s \in {"skipped", "running", "completed", "failed"} : Mark(m, s)
        /\ status[m] = "pending" \/ at[m] # "idle"
        BY <1>2 DEF SkipMember, StartMember, RecordMember, MemberFails, Ready
  <2>2. status[m] \in {"pending", "running"}
        BY <2>1 DEF TreeInv
  <2> QED
      BY <1>c, <1>s, <2>1, <2>2, Units
<1>3. CASE \/ \E m \in Member : Copied(m) \/ CloseBranch(m)
           \/ \E u \in Unit : AddTree(u) \/ Pin(u)
      BY <1>3, <1>b DEF Copied, CloseBranch, AddTree, Pin, forkVars
<1>4. ASSUME NEW u \in Unit, WorkSucceeds(u) PROVE ManifestInv'
  <2>1. /\ at[u] = "work" /\ answers' \in {answers, answers \cup {u}}
        /\ UNCHANGED <<status, listed, manifest, result>>
        BY <1>4 DEF WorkSucceeds, forkVars
  <2> QED
      BY <1>b, <2>1
<1>5. ASSUME NEW i \in Item, ItemSucceeds(i) \/ ItemFails(i) \/ (~ForkRuns /\ ItemThrows(i))
       PROVE  ManifestInv'
  <2>1. /\ at[i] # "idle" /\ UNCHANGED <<status, listed, manifest, answers>>
        /\ \E r \in {"completed", "failed"} : result' = [result EXCEPT ![i] = r]
        BY <1>5 DEF ItemSucceeds, ItemFails, ItemThrows, RemoveTree, ItemSettles
  <2>2. \A u \in Item : u # i => result'[u] = result[u]
        BY <1>t, <2>1
  <2> QED
      BY <1>b, <2>1, <2>2
<1>6. ASSUME NEW i \in Item, ForkRuns, ItemThrows(i) PROVE ManifestInv'
       BY <1>6, <1>c, <1>s, Units DEF ItemThrows, ForkRuns
<1>7. CASE StartFork \/ ExpandFails \/ ForkSettles
  <2>1. /\ \E s \in {"running", "completed", "failed"} : Mark(Fork, s)
        /\ status[Fork] \in {"pending", "running"}
        BY <1>7 DEF StartFork, ExpandFails, ForkSettles, ForkRuns
  <2> QED
      BY <1>c, <1>s, <2>1, Units
<1>8. CASE Expand \/ StartChunk
  <2>1. status[Fork] = "running" /\ UNCHANGED status
        BY <1>8 DEF Expand, StartChunk, ForkRuns
  <2>2. status[Join] # "running"
        BY <1>s, <2>1, Units DEF ManifestInv
  <2> QED
      BY <1>a, <2>1, <2>2
<1>9. CASE StartJoin
  <2>1. /\ \A n \in Node \ {Join} : status[n] \in Over
        /\ manifest' = Manifest /\ Mark(Join, "running")
        /\ UNCHANGED <<listed, result, answers>>
        BY <1>9 DEF StartJoin, JoinReady, Finished, forkVars
  <2>2. \A n \in Node \ {Join} : status'[n] = status[n]
        BY <1>s, <1>t, <2>1, MarkOne, Units
  <2> DEFINE keys == {Static} \cup (IF listed = NoList THEN {} ELSE Range(listed))
  <2>3. /\ DOMAIN Manifest = keys
        /\ Manifest[Static].status = BranchStatus({status[m] : m \in Member})
        /\ \A k \in keys : /\ k # Static => Manifest[k].status = status[Fork]
                           /\ Manifest[k].answers = Part(k) \cap answers
    <3>1. Static \in keys
          OBVIOUS
    <3>2. Manifest = [k \in keys |->
            [status  |-> IF k = Static THEN BranchStatus({status[m] : m \in Member})
                                       ELSE status[Fork],
             answers |-> Part(k) \cap answers]]
          BY DEF Manifest
    <3> HIDE DEF keys
    <3> QED
        BY <3>1, <3>2
  <2>4. ASSUME Manifest[Static].status = "completed", NEW u \in Part(Static) PROVE Succeeded(u)
    <3>1. BranchStatus({status[m] : m \in Member}) = "completed"
          BY <2>3, <2>4
    <3>2. {status[m] : m \in Member} = {"completed"}
          BY <3>1 DEF BranchStatus
    <3>3. u \in Member
          BY <2>4, Units DEF Part
    <3> QED
        BY <3>2, <3>3 DEF Succeeded
  <2>5. ASSUME NEW k \in keys, k # Static, Manifest[k].status = "completed", NEW u \in Part(k)
        PROVE  Succeeded(u)
    <3>1. status[Fork] = "completed" /\ listed # NoList /\ k \in Range(listed)
          BY <2>3, <2>5
    <3>2. k \in Item /\ result[k] = "completed"
          BY <1>t, <3>1, ListsAreSequences DEF ForkInv, ForkVerdictIsEarned
    <3>3. u = k
          BY <2>5, Units DEF Part
    <3> QED
        BY <3>2, <3>3, Units DEF Succeeded
  <2>6. ASSUME NEW u \in Unit, Succeeded(u) PROVE Succeeded(u)'
        BY <2>1, <2>2, <2>6, Units DEF Succeeded
  <2>7. /\ DOMAIN manifest' = {Static} \cup (IF listed' = NoList THEN {} ELSE Range(listed'))
        /\ \A k \in DOMAIN manifest' : k # Static => manifest'[k].status = status'[Fork]
        BY <2>1, <2>2, <2>3, Units
  <2>8. ASSUME NEW k \in DOMAIN manifest', manifest'[k].status = "completed"
        PROVE  /\ \A u \in Part(k) : Succeeded(u)'
               /\ manifest'[k].answers = Part(k) \cap answers'
    <3>1. \A u \in Part(k) : u \in Unit /\ Succeeded(u)
          BY <2>1, <2>3, <2>4, <2>5, <2>8 DEF Part
    <3>2. manifest'[k].answers = Part(k) \cap answers'
          BY <2>1, <2>3, <2>8
    <3> QED
        BY <2>6, <3>1, <3>2
  <2> QED
      BY <2>1, <2>2, <2>7, <2>8 DEF ManifestInv, ManifestCoversGroup
<1>10. CASE SkipJoin \/ \E s \in {"completed", "failed"} : JoinEnds(s)
  <2>1. \E s \in {"skipped", "completed", "failed"} : Mark(Join, s)
        BY <1>10 DEF SkipJoin, JoinEnds
  <2>2. status'[Join] \in {"skipped", "completed", "failed"}
        BY <1>s, <1>t, <2>1, MarkOne, Units
  <2> QED
      BY <1>a, <2>2
<1>11. CASE Resume
  <2>1. status' = [k \in Node |-> IF Taken(k) THEN "completed" ELSE "pending"]
        BY <1>11 DEF Resume
  <2>2. status'[Join] # "running"
        BY <2>1, Units
  <2> QED
      BY <1>a, <2>2
<1> QED
    BY <1>1, <1>2, <1>3, <1>4, <1>5, <1>6, <1>7, <1>8, <1>9, <1>10, <1>11 DEF Next, GroupStep

(* While the join reads the manifest, it names every branch of the group;  *)
(* what it calls completed has succeeded, and it points to the answers     *)
(* that were left.                                                         *)
THEOREM ManifestIsWhole == Spec => []ManifestCoversGroup
<1>1. Init => ManifestInv
  <2> SUFFICES ASSUME Init PROVE ManifestInv
      OBVIOUS
  <2>1. status[Join] = "pending"
        BY Units DEF Init
  <2> QED
      BY <2>1 DEF ManifestInv, ManifestCoversGroup
<1>2. ManifestInv => ManifestCoversGroup
      BY DEF ManifestInv
<1> QED
    BY InitTypes, InitTrees, InitFork, StepTypes, TreeStep, WorkStep, ForkStep, ManifestStep,
       <1>1, <1>2, PTL DEF Spec

=============================================================================
