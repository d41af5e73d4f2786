---------------------------- MODULE LoaderProofs ----------------------------
(***************************************************************************)
(* Proofs about a loaded workflow (Loader, Levels), for any set of configs *)
(* over finitely many nodes: the levels are right, and what the loader has *)
(* accepted can be run.  The recursions over the size of the graph are     *)
(* unfolded by counting (LeastNumber, Counting, Running, Repeating).       *)
(***************************************************************************)
EXTENDS Loader, FiniteSetTheorems, SequenceTheorems, WellFoundedInduction, TLAPS

-----------------------------------------------------------------------------
(* Counting, and functions that are computed step by step.                 *)

\* The order of the numbers, as a set of pairs.
Less == {p \in Nat \X Nat : p[1] < p[2]}

\* The least-number principle, from the library's well-foundedness of Nat.
LEMMA LeastNumber ==
  ASSUME NEW T \in SUBSET Nat, T # {}
  PROVE  \E x \in T : \A y \in T : x <= y
<1>1. IsWellFoundedOn(Less, Nat)
  BY NatLessThanWellFounded DEF OpToRel, Less
<1>2. PICK x \in T : \A y \in T : ~ (<<y, x>> \in Less)
  BY <1>1, WFMin
<1>3. ASSUME NEW y \in T PROVE x <= y
  <2>1. x \in Nat /\ y \in Nat /\ ~ (<<y, x>> \in Less)
    BY <1>2
  <2>2. <<y, x>> \in Nat \X Nat /\ <<y, x>>[1] = y /\ <<y, x>>[2] = x
    BY <2>1
  <2>3. ~ (y < x)
    BY <2>1, <2>2 DEF Less
  <2> QED
    BY <2>1, <2>3
<1> QED
  BY <1>3

\* What holds of 0 and passes from a number to the next holds up to any bound.
LEMMA Counting ==
  ASSUME NEW m \in Nat, NEW T, 0 \in T, \A k \in 1 .. m : k - 1 \in T => k \in T
  PROVE  \A k \in 0 .. m : k \in T
<1> SUFFICES ASSUME NEW k \in 0 .. m, k \notin T PROVE FALSE
  OBVIOUS
<1> DEFINE Out == {x \in 0 .. m : x \notin T}
<1>1. Out \in SUBSET Nat /\ Out # {}
  OBVIOUS
<1>2. PICK x \in Out : \A y \in Out : x <= y
  BY <1>1, LeastNumber
<1>3. x \in 1 .. m /\ x - 1 \in 0 .. m /\ x - 1 \notin Out
  BY <1>2
<1> QED
  BY <1>2, <1>3

\* A finite set of numbers has a greatest one.
LEMMA GreatestNumber ==
  ASSUME NEW N \in Nat, NEW T \in SUBSET (0 .. N), T # {}
  PROVE  \E x \in T : \A y \in T : y <= x
<1> DEFINE Below == {N - x : x \in T}
<1>1. Below \in SUBSET Nat /\ Below # {}
  OBVIOUS
<1>2. PICK b \in Below : \A y \in Below : b <= y
  BY <1>1, LeastNumber
<1>3. PICK x \in T : b = N - x
  BY <1>2
<1>4. ASSUME NEW y \in T PROVE y <= x
  <2>1. N - y \in Below
    OBVIOUS
  <2>2. b <= N - y
    BY <1>2, <2>1
  <2> QED
    BY <1>3, <2>2
<1> QED
  BY <1>4

\* f begins with base and goes on as F says at each number.
Runs(f, S, F, base, m) == /\ f \in [0 .. m -> S]
                          /\ f[0] = base
                          /\ \A k \in 1 .. m : f[k] = F[k][f[k - 1]]

\* Steps of values can be made one after the other.
LEMMA Running ==
  ASSUME NEW S, NEW m \in Nat, NEW F \in [1 .. m -> [S -> S]], NEW base \in S
  PROVE  \E f : Runs(f, S, F, base, m)
<1> DEFINE Good(x, f) == f[0] = base /\ \A k \in 1 .. x : f[k] = F[k][f[k - 1]]
           T == {x \in 0 .. m : \E f \in [0 .. x -> S] : Good(x, f)}
<1>1. 0 \in T
  <2> DEFINE g == [k \in 0 .. 0 |-> base]
  <2>1. g \in [0 .. 0 -> S] /\ g[0] = base
    OBVIOUS
  <2>2. \A k \in 1 .. 0 : FALSE
    OBVIOUS
  <2> HIDE DEF g
  <2>3. Good(0, g)
    BY <2>1, <2>2
  <2> QED
    BY <2>1, <2>3
<1>2. ASSUME NEW x \in 1 .. m, x - 1 \in T PROVE x \in T
  <2>1. PICK f \in [0 .. x - 1 -> S] : Good(x - 1, f)
    BY <1>2
  <2> DEFINE g == [k \in 0 .. x |-> IF k = x THEN F[x][f[x - 1]] ELSE f[k]]
  <2>2. g \in [0 .. x -> S]
    <3>1. f[x - 1] \in S /\ F[x] \in [S -> S]
      OBVIOUS
    <3> QED
      BY <3>1
  <2>3. Good(x, g)
    <3>1. g[0] = base
      BY <2>1
    <3>2. ASSUME NEW k \in 1 .. x PROVE g[k] = F[k][g[k - 1]]
      <4>1. CASE k = x
        BY <4>1
      <4>2. CASE k # x
        BY <2>1, <4>2
      <4> QED
        BY <4>1, <4>2
    <3> QED
      BY <3>1, <3>2
  <2> HIDE DEF g, Good
  <2> QED
    BY <2>2, <2>3
<1> HIDE DEF T
<1>3. \A x \in 0 .. m : x \in T
  BY <1>1, <1>2, Counting
<1>4. m \in T
  BY <1>3
<1> QED
  BY <1>4 DEF T, Runs

\* f begins with base and goes on as F says.
Repeats(f, S, F, base, m) == /\ f \in [0 .. m -> S]
                             /\ f[0] = base
                             /\ \A k \in 1 .. m : f[k] = F[f[k - 1]]

\* One step can be repeated as often as one likes.
LEMMA Repeating ==
  ASSUME NEW S, NEW F \in [S -> S], NEW base \in S, NEW m \in Nat
  PROVE  \E f : Repeats(f, S, F, base, m)
<1> DEFINE G == [k \in 1 .. m |-> F]
<1>1. G \in [1 .. m -> [S -> S]] /\ \A k \in 1 .. m : G[k] = F
  OBVIOUS
<1> HIDE DEF G
<1>2. PICK f : Runs(f, S, G, base, m)
  BY <1>1, Running
<1>3. Repeats(f, S, F, base, m)
  BY <1>1, <1>2 DEF Runs, Repeats
<1> QED
  BY <1>3

-----------------------------------------------------------------------------
(* What a node needs, at any distance.                                     *)

\* How many nodes there are.
Size == Cardinality(Node)

\* There are finitely many.
LEMMA SizeIsNat == Size \in Nat /\ IsFiniteSet(Node)
  BY NodeAssumption, FS_CardinalityType DEF Size

\* Every node depends on nodes.
GraphIsWhole == deps \in [Node -> SUBSET Node]

\* The steps of NeedsAtLast.
Unfolds(f, n) == /\ f \in [0 .. Size -> SUBSET Node]
                 /\ f[0] = deps[n]
                 /\ \A k \in 1 .. Size : f[k] = Needs(f[k - 1])

\* The recursion of NeedsAtLast has a solution.
LEMMA NeedsUnfold ==
  ASSUME GraphIsWhole, NEW n \in Node
  PROVE  \E f : Unfolds(f, n) /\ NeedsAtLast(n) = f[Size]
<1> DEFINE F == [ns \in SUBSET Node |-> Needs(ns)]
           Step(x) == [k \in 0 .. Cardinality(Node) |-> IF k = 0 THEN deps[n] ELSE Needs(x[k - 1])]
<1>1. F \in [SUBSET Node -> SUBSET Node] /\ deps[n] \in SUBSET Node
  BY DEF GraphIsWhole, Needs
<1>2. PICK g \in [0 .. Size -> SUBSET Node] :
        g[0] = deps[n] /\ \A k \in 1 .. Size : g[k] = F[g[k - 1]]
  <2> HIDE DEF F
  <2>1. \E g : Repeats(g, SUBSET Node, F, deps[n], Size)
    BY <1>1, SizeIsNat, Repeating
  <2> QED
    BY <2>1 DEF Repeats
<1>3. \A k \in 1 .. Size : k - 1 \in 0 .. Size /\ g[k] = Needs(g[k - 1])
  <2>1. \A k \in 1 .. Size : k - 1 \in 0 .. Size
    BY SizeIsNat
  <2>2. \A k \in 1 .. Size : g[k - 1] \in SUBSET Node /\ g[k] = F[g[k - 1]]
    BY <1>2, <2>1
  <2> QED
    BY <2>1, <2>2
<1>4. g = Step(g)
  <2>1. \A k \in 0 .. Size : g[k] = IF k = 0 THEN deps[n] ELSE Needs(g[k - 1])
    BY <1>2, <1>3, SizeIsNat
  <2> QED
    BY <1>2, <2>1 DEF Size
<1> DEFINE f == CHOOSE x : x = Step(x)
<1>5. f = Step(f)
  <2> HIDE DEF Step
  <2> QED
    BY <1>4
<1>6. NeedsAtLast(n) = f[Size]
  BY Zenon DEF NeedsAtLast, Size
<1> HIDE DEF f
<1>7. \A k \in 0 .. Size : f[k] = IF k = 0 THEN deps[n] ELSE Needs(f[k - 1])
  BY <1>5 DEF Size
<1>8. \A k \in 0 .. Size : f[k] = g[k]
  <2> DEFINE T == {k \in 0 .. Size : f[k] = g[k]}
  <2>1. 0 \in T
    BY <1>2, <1>7, SizeIsNat
  <2>2. ASSUME NEW k \in 1 .. Size, k - 1 \in T PROVE k \in T
    BY <1>3, <1>7, <2>2, SizeIsNat
  <2> HIDE DEF T
  <2>3. \A k \in 0 .. Size : k \in T
    BY <2>1, <2>2, SizeIsNat, Counting
  <2> QED
    BY <2>3 DEF T
<1>9. Unfolds(g, n) /\ g[Size] = f[Size]
  BY <1>2, <1>3, <1>8, SizeIsNat DEF Unfolds
<1> QED
  BY <1>6, <1>9

\* Where every node ranks above what it depends on, nobody needs itself.
LEMMA RankedIsAcyclic ==
  ASSUME GraphIsWhole, NEW rank \in [Node -> Nat],
         \A n \in Node : \A d \in deps[n] : rank[d] < rank[n]
  PROVE  ~ IsCyclic
<1> SUFFICES ASSUME NEW n \in Node, n \in NeedsAtLast(n) PROVE FALSE
  BY DEF IsCyclic
<1>1. PICK f : Unfolds(f, n) /\ NeedsAtLast(n) = f[Size]
  BY NeedsUnfold
<1> DEFINE T == {k \in 0 .. Size : \A m \in f[k] : rank[m] < rank[n]}
<1>2. 0 \in T
  BY <1>1, SizeIsNat DEF Unfolds
<1>3. ASSUME NEW k \in 1 .. Size, k - 1 \in T PROVE k \in T
  <2>1. f[k] = Needs(f[k - 1]) /\ f[k - 1] \in SUBSET Node /\ f[k] \in SUBSET Node
    BY <1>1, SizeIsNat DEF Unfolds
  <2>2. ASSUME NEW m \in f[k] PROVE rank[m] < rank[n]
    <3>1. CASE m \in f[k - 1]
      BY <1>3, <3>1
    <3>2. CASE m \notin f[k - 1]
      <4>1. PICK x \in f[k - 1] : m \in deps[x]
        BY <2>1, <3>2 DEF Needs
      <4>2. rank[m] < rank[x] /\ rank[x] < rank[n]
        BY <1>3, <2>1, <4>1
      <4>3. rank[m] \in Nat /\ rank[x] \in Nat /\ rank[n] \in Nat
        BY <2>1, <4>1
      <4> QED
        BY <4>2, <4>3
    <3> QED
      BY <3>1, <3>2
  <2> QED
    BY <2>2, SizeIsNat
<1> HIDE DEF T
<1>4. Size \in T
  BY <1>2, <1>3, SizeIsNat, Counting
<1>5. rank[n] < rank[n] /\ rank[n] \in Nat
  BY <1>1, <1>4 DEF T
<1> QED
  BY <1>5

\* No two places of a path hold the same node, and each depends on the next.
IsPath(p) ==
  /\ p \in Seq(Node)
  /\ \A i, j \in DOMAIN p : p[i] = p[j] => i = j
  /\ \A i \in DOMAIN p : i + 1 \in DOMAIN p => p[i + 1] \in deps[p[i]]

\* A path has no more places than there are nodes.
LEMMA PathIsShort ==
  ASSUME NEW p, IsPath(p)
  PROVE  Len(p) \in Nat /\ DOMAIN p = 1 .. Len(p) /\ Len(p) <= Size
<1>1. Len(p) \in Nat /\ DOMAIN p = 1 .. Len(p) /\ p \in [1 .. Len(p) -> Node]
  BY DEF IsPath
<1>2. IsFiniteSet(1 .. Len(p)) /\ Cardinality(1 .. Len(p)) = Len(p)
  <2>1. 1 \in Int /\ Len(p) \in Int
    BY <1>1
  <2>2. IsFiniteSet(1 .. Len(p)) /\ Cardinality(1 .. Len(p)) = IF 1 > Len(p) THEN 0 ELSE Len(p) - 1 + 1
    BY <2>1, FS_Interval
  <2> QED
    BY <1>1, <2>2
<1>3. ASSUME Size < Len(p) PROVE FALSE
  <2>1. Cardinality(Node) < Cardinality(1 .. Len(p))
    BY <1>2, <1>3 DEF Size
  <2>2. \E x, y \in 1 .. Len(p) : x # y /\ p[x] = p[y]
    BY <1>1, <1>2, <2>1, SizeIsNat, FS_PigeonHole
  <2> QED
    BY <1>1, <2>2 DEF IsPath
<1> QED
  BY <1>1, <1>3, SizeIsNat

\* The end of a path that depends on a node of it closes a cycle.
LEMMA PathClosesCycle ==
  ASSUME GraphIsWhole, NEW p, IsPath(p), NEW i \in DOMAIN p, p[i] \in deps[p[Len(p)]]
  PROVE  IsCyclic
<1> DEFINE n == p[i]
           last == Len(p) - i
<1>0. /\ Len(p) \in Nat /\ DOMAIN p = 1 .. Len(p) /\ Len(p) <= Size /\ i \in 1 .. Len(p)
      /\ last \in Nat /\ last < Size /\ n \in Node
      /\ \A j \in DOMAIN p : p[j] \in Node
  BY PathIsShort, SizeIsNat DEF IsPath
<1>1. PICK f : Unfolds(f, n) /\ NeedsAtLast(n) = f[Size]
  BY <1>0, NeedsUnfold
<1>g. \A k \in 1 .. Size : /\ k - 1 \in 0 .. Size /\ f[k - 1] \in SUBSET Node
                           /\ f[k - 1] \subseteq f[k]
                           /\ \A x \in f[k - 1] : deps[x] \subseteq f[k]
  BY <1>1, SizeIsNat DEF Unfolds, Needs
<1> DEFINE T == {k \in 0 .. last : k = 0 \/ p[i + k] \in f[k - 1]}
<1>2. 0 \in T
  BY <1>0
<1>3. ASSUME NEW k \in 1 .. last, k - 1 \in T PROVE k \in T
  <2>1. /\ i + k - 1 \in DOMAIN p /\ i + k \in DOMAIN p
        /\ p[i + k] \in deps[p[i + k - 1]]
    <3>1. i + k - 1 \in DOMAIN p /\ (i + k - 1) + 1 = i + k /\ i + k \in DOMAIN p
      BY <1>0
    <3> QED
      BY <3>1 DEF IsPath
  <2>2. CASE k = 1
    BY <1>0, <1>1, <2>1, <2>2 DEF Unfolds
  <2>3. CASE k # 1
    <3>1. k - 1 \in 1 .. Size /\ i + (k - 1) = i + k - 1
      BY <1>0, <2>3, SizeIsNat
    <3>2. p[i + k - 1] \in f[(k - 1) - 1]
      BY <1>0, <1>3, <2>3, <3>1
    <3> QED
      BY <1>0, <1>g, <2>1, <3>1, <3>2
  <2> QED
    BY <2>2, <2>3
<1> HIDE DEF T, last
<1>4. last \in T
  <2>1. \A k \in 0 .. last : k \in T
    BY <1>0, <1>2, <1>3, Counting
  <2> QED
    BY <1>0, <2>1
<1> USE DEF last
<1>5. n \in f[last]
  <2>1. CASE last = 0
    <3>1. p[Len(p)] = n
      BY <1>0, <2>1
    <3> QED
      BY <1>1, <2>1, <3>1 DEF Unfolds
  <2>2. CASE last # 0
    <3>1. p[Len(p)] \in f[last - 1] /\ last \in 1 .. Size
      <4>1. i + last = Len(p)
        BY <1>0
      <4> QED
        BY <1>0, <1>4, <2>2, <4>1, SizeIsNat DEF T
    <3> QED
      BY <1>g, <3>1
  <2> QED
    BY <2>1, <2>2
<1>6. n \in f[Size]
  <2> DEFINE U == {k \in 0 .. Size : k < last \/ n \in f[k]}
  <2>1. 0 \in U
    BY <1>0, <1>5, SizeIsNat
  <2>2. ASSUME NEW k \in 1 .. Size, k - 1 \in U PROVE k \in U
    <3>1. CASE k - 1 < last
      <4>1. k < last \/ k = last
        BY <1>0, <3>1
      <4> QED
        BY <1>5, <4>1, SizeIsNat
    <3>2. CASE ~ (k - 1 < last)
      BY <1>g, <2>2, <3>2, SizeIsNat
    <3> QED
      BY <3>1, <3>2
  <2> HIDE DEF U
  <2>3. \A k \in 0 .. Size : k \in U
    BY <2>1, <2>2, SizeIsNat, Counting
  <2> QED
    BY <1>0, <2>3, SizeIsNat DEF U
<1> QED
  BY <1>0, <1>1, <1>6 DEF IsCyclic

-----------------------------------------------------------------------------
(* The search.                                                             *)

\* The nodes in progress are those of the path; what a node has looked at is done.
SearchInv ==
  /\ colour \in [Node -> Colours] /\ todo \in [Node -> SUBSET Node]
  /\ IsPath(path)
  /\ \A n \in Node : colour[n] = "inProgress" <=> \E i \in DOMAIN path : path[i] = n
  /\ \A n \in Node : todo[n] \subseteq deps[n]
  /\ \A n \in Node : colour[n] = "done" => todo[n] = {}
  /\ \A n \in Node : \A d \in deps[n] \ todo[n] : colour[d] = "done"

\* A finished node ranks above what it depends on.
Ranks(rank, top) ==
  /\ rank \in [Node -> Nat] /\ top \in Nat
  /\ \A n \in Node : colour[n] = "done" =>
        rank[n] < top /\ \A d \in deps[n] : rank[d] < rank[n]

\* The finished nodes can be ranked.
RankInv == \E rank, top : Ranks(rank, top)

\* The innermost call of the search is for the last node of the path.
LEMMA PathEnd ==
  ASSUME SearchInv, path # <<>>
  PROVE  /\ Len(path) \in Nat \ {0} /\ DOMAIN path = 1 .. Len(path)
         /\ Len(path) \in DOMAIN path /\ Last(path) = path[Len(path)] /\ Last(path) \in Node
         /\ colour[Last(path)] = "inProgress"
<1>1. path \in Seq(Node)
  BY DEF SearchInv, IsPath
<1>2. Len(path) \in Nat \ {0} /\ DOMAIN path = 1 .. Len(path) /\ Len(path) \in DOMAIN path
  BY <1>1
<1>3. Last(path) = path[Len(path)] /\ Last(path) \in Node
  BY <1>1, <1>2 DEF Last
<1> QED
  BY <1>2, <1>3 DEF SearchInv

\* A node is entered.
LEMMA VisitKeeps ==
  ASSUME GraphIsWhole, SearchInv, RankInv, NEW n \in Node, colour[n] = "unvisited", Visit(n),
         path # <<>> => n \in deps[Last(path)]
  PROVE  SearchInv' /\ RankInv' /\ UNCHANGED <<deps, levels, verdict, remaining>>
<1>0. /\ path' = Append(path, n) /\ UNCHANGED <<deps, todo, levels, verdict, remaining>>
      /\ colour' = [colour EXCEPT ![n] = "inProgress"]
  BY DEF Visit, Entered
<1>1. /\ path \in Seq(Node) /\ Len(path) \in Nat /\ DOMAIN path = 1 .. Len(path)
      /\ \A i \in DOMAIN path : path[i] \in Node
  BY DEF SearchInv, IsPath
<1>2. /\ path' \in Seq(Node) /\ DOMAIN path' = 1 .. Len(path) + 1
      /\ \A i \in DOMAIN path : path'[i] = path[i]
      /\ path'[Len(path) + 1] = n
  BY <1>0, <1>1
<1>3. \A i \in DOMAIN path : path[i] # n
  BY DEF SearchInv
<1>4. /\ colour' \in [Node -> Colours] /\ colour'[n] = "inProgress"
      /\ \A m \in Node \ {n} : colour'[m] = colour[m]
  BY <1>0 DEF SearchInv, Colours
<1>5. \A i, j \in DOMAIN path' : path'[i] = path'[j] => i = j
  <2> SUFFICES ASSUME NEW i \in DOMAIN path', NEW j \in DOMAIN path', path'[i] = path'[j] PROVE i = j
    OBVIOUS
  <2>1. CASE i \in DOMAIN path /\ j \in DOMAIN path
    BY <1>2, <2>1 DEF SearchInv, IsPath
  <2>2. CASE i \notin DOMAIN path \/ j \notin DOMAIN path
    BY <1>1, <1>2, <1>3, <2>2
  <2> QED
    BY <2>1, <2>2
<1>6. \A i \in DOMAIN path' : i + 1 \in DOMAIN path' => path'[i + 1] \in deps[path'[i]]
  <2> SUFFICES ASSUME NEW i \in DOMAIN path', i + 1 \in DOMAIN path'
               PROVE  path'[i + 1] \in deps[path'[i]]
    OBVIOUS
  <2>1. CASE i + 1 \in DOMAIN path
    <3>1. i \in DOMAIN path
      BY <1>1, <1>2, <2>1
    <3> QED
      BY <1>2, <2>1, <3>1 DEF SearchInv, IsPath
  <2>2. CASE i + 1 \notin DOMAIN path
    <3>1. i = Len(path) /\ i \in DOMAIN path /\ path # <<>>
      BY <1>1, <1>2, <2>2
    <3>2. Last(path) = path[i]
      BY <3>1 DEF Last
    <3> QED
      BY <1>2, <3>1, <3>2
  <2> QED
    BY <2>1, <2>2
<1>7. IsPath(path)'
  BY <1>0, <1>2, <1>5, <1>6 DEF IsPath
<1>8. \A m \in Node : colour'[m] = "inProgress" <=> \E i \in DOMAIN path' : path'[i] = m
  <2> SUFFICES ASSUME NEW m \in Node
               PROVE  colour'[m] = "inProgress" <=> \E i \in DOMAIN path' : path'[i] = m
    OBVIOUS
  <2>1. CASE m = n
    BY <1>1, <1>2, <1>4, <2>1
  <2>2. CASE m # n
    <3>1. (\E i \in DOMAIN path' : path'[i] = m) <=> \E i \in DOMAIN path : path[i] = m
      BY <1>1, <1>2, <2>2
    <3> QED
      BY <1>4, <2>2, <3>1 DEF SearchInv
  <2> QED
    BY <2>1, <2>2
<1>9. \A m \in Node : colour'[m] = "done" <=> colour[m] = "done"
  BY <1>4
<1>10. SearchInv'
  <2>1. \A m \in Node : todo[m] \subseteq deps[m] /\ (colour'[m] = "done" => todo[m] = {})
    BY <1>9 DEF SearchInv
  <2>2. ASSUME NEW m \in Node, NEW d \in deps[m] \ todo[m] PROVE colour'[d] = "done"
    <3>1. d \in Node /\ colour[d] = "done"
      BY <2>2 DEF SearchInv, GraphIsWhole
    <3> QED
      BY <1>9, <3>1
  <2>3. todo \in [Node -> SUBSET Node]
    BY DEF SearchInv
  <2> QED
    BY <1>0, <1>4, <1>7, <1>8, <2>1, <2>2, <2>3 DEF SearchInv
<1>11. RankInv'
  BY <1>0, <1>9 DEF RankInv, Ranks
<1> QED
  BY <1>0, <1>10, <1>11

\* The outer loop calls for a node.
LEMMA RootKeeps ==
  ASSUME GraphIsWhole, SearchInv, RankInv, NEW n \in Node, Root(n)
  PROVE  SearchInv' /\ RankInv' /\ UNCHANGED <<deps, levels, verdict, remaining>>
  BY VisitKeeps DEF Root

\* A look that closes a cycle is right, any other goes on.
LEMMA LookKeeps ==
  ASSUME GraphIsWhole, SearchInv, RankInv, NEW d \in Node, Look(d)
  PROVE  /\ SearchInv' /\ RankInv' /\ UNCHANGED <<deps, levels, remaining>>
         /\ verdict' \in {verdict, "cycle"}
         /\ verdict' = "cycle" => IsCyclic
<1> DEFINE last == Last(path)
<1>1. /\ path # <<>> /\ d \in todo[last] /\ verdict = "none" /\ last \in Node
      /\ last = path[Len(path)] /\ DOMAIN path = 1 .. Len(path)
  BY PathEnd DEF Look, Searching
<1>2. d \in deps[last]
  BY <1>1 DEF SearchInv
<1> HIDE DEF last
<1>3. CASE ClosesCycle(d)
  <2>1. verdict' = "cycle" /\ UNCHANGED <<w, deps, colour, path, todo, remaining, levels>>
    BY <1>3 DEF Look
  <2>2. PICK i \in DOMAIN path : path[i] = d
    BY <1>3 DEF ClosesCycle, SearchInv
  <2>3. IsPath(path)
    BY DEF SearchInv
  <2>4. IsCyclic
    BY <1>1, <1>2, <2>2, <2>3, PathClosesCycle
  <2> QED
    BY <2>1, <2>4 DEF SearchInv, RankInv, Ranks, IsPath
<1>4. CASE colour[d] = "unvisited"
  <2>1. Visit(d)
    BY <1>4 DEF Look, ClosesCycle
  <2>2. SearchInv' /\ RankInv' /\ UNCHANGED <<deps, levels, verdict, remaining>>
    BY <1>2, <1>4, <2>1, VisitKeeps DEF last
  <2> QED
    BY <1>1, <2>2
<1>5. CASE ~ ClosesCycle(d) /\ colour[d] # "unvisited"
  <2>1. todo' = [todo EXCEPT ![last] = @ \ {d}]
        /\ UNCHANGED <<w, deps, colour, path, remaining, levels, verdict>>
    BY <1>5 DEF Look, last
  <2>2. colour[d] = "done"
    BY <1>5 DEF ClosesCycle, SearchInv, Colours
  <2>3. /\ todo' \in [Node -> SUBSET Node] /\ todo'[last] = todo[last] \ {d}
        /\ \A n \in Node \ {last} : todo'[n] = todo[n]
    BY <1>1, <2>1 DEF SearchInv
  <2>4. colour[last] = "inProgress"
    BY <1>1, PathEnd DEF last
  <2>5. \A n \in Node : /\ todo'[n] \subseteq deps[n]
                        /\ colour[n] = "done" => todo'[n] = {}
                        /\ \A x \in deps[n] \ todo'[n] : colour[x] = "done"
    <3> SUFFICES ASSUME NEW n \in Node
                 PROVE  /\ todo'[n] \subseteq deps[n]
                        /\ colour[n] = "done" => todo'[n] = {}
                        /\ \A x \in deps[n] \ todo'[n] : colour[x] = "done"
      OBVIOUS
    <3>1. CASE n = last
      BY <2>2, <2>3, <2>4, <3>1 DEF SearchInv
    <3>2. CASE n # last
      BY <2>3, <3>2 DEF SearchInv
    <3> QED
      BY <3>1, <3>2
  <2>6. IsPath(path)'
    BY <2>1 DEF SearchInv, IsPath
  <2>7. SearchInv'
    BY <2>1, <2>3, <2>5, <2>6 DEF SearchInv
  <2>8. RankInv'
    BY <2>1 DEF RankInv, Ranks
  <2> QED
    BY <1>1, <2>1, <2>7, <2>8
<1> QED
  BY <1>3, <1>4, <1>5

\* A node that is finished ranks above all that was finished before.
LEMMA LeaveKeeps ==
  ASSUME GraphIsWhole, SearchInv, RankInv, Leave
  PROVE  SearchInv' /\ RankInv' /\ UNCHANGED <<deps, levels, verdict, remaining>>
<1> DEFINE last == Last(path)
<1>1. /\ path # <<>> /\ todo[last] = {} /\ last \in Node
      /\ last = path[Len(path)] /\ DOMAIN path = 1 .. Len(path) /\ Len(path) \in Nat \ {0}
      /\ colour[last] = "inProgress" /\ path' = Front(path)
      /\ colour' = [colour EXCEPT ![last] = "done"]
      /\ UNCHANGED <<w, deps, todo, remaining, levels, verdict>>
  BY PathEnd DEF Leave, Left
<1> HIDE DEF last
<1>2. path \in Seq(Node) /\ \A i \in DOMAIN path : path[i] \in Node
  BY DEF SearchInv, IsPath
<1>3. /\ path' \in Seq(Node) /\ DOMAIN path' = 1 .. Len(path) - 1
      /\ \A i \in DOMAIN path' : i \in DOMAIN path /\ path'[i] = path[i]
  BY <1>1, <1>2 DEF Front
<1>4. /\ colour' \in [Node -> Colours] /\ colour'[last] = "done"
      /\ \A m \in Node \ {last} : colour'[m] = colour[m]
  BY <1>1 DEF SearchInv, Colours
<1>5. IsPath(path)'
  <2>1. \A i, j \in DOMAIN path' : path'[i] = path'[j] => i = j
    BY <1>3 DEF SearchInv, IsPath
  <2>2. \A i \in DOMAIN path' : i + 1 \in DOMAIN path' => path'[i + 1] \in deps[path'[i]]
    BY <1>3 DEF SearchInv, IsPath
  <2> QED
    BY <1>1, <1>3, <2>1, <2>2 DEF IsPath
<1>6. \A m \in Node : colour'[m] = "inProgress" <=> \E i \in DOMAIN path' : path'[i] = m
  <2> SUFFICES ASSUME NEW m \in Node
               PROVE  colour'[m] = "inProgress" <=> \E i \in DOMAIN path' : path'[i] = m
    OBVIOUS
  <2>1. CASE m = last
    <3>1. ASSUME NEW i \in DOMAIN path', path'[i] = last PROVE FALSE
      <4>1. i \in DOMAIN path /\ Len(path) \in DOMAIN path /\ path[i] = path[Len(path)] /\ i # Len(path)
        BY <1>1, <1>3, <3>1
      <4> QED
        BY <4>1 DEF SearchInv, IsPath
    <3> QED
      BY <1>4, <2>1, <3>1
  <2>2. CASE m # last
    <3>1. (\E i \in DOMAIN path' : path'[i] = m) <=> \E i \in DOMAIN path : path[i] = m
      <4>1. ASSUME NEW i \in DOMAIN path, path[i] = m PROVE i \in DOMAIN path'
        BY <1>1, <1>3, <2>2, <4>1
      <4> QED
        BY <1>3, <4>1
    <3> QED
      BY <1>4, <2>2, <3>1 DEF SearchInv
  <2> QED
    BY <2>1, <2>2
<1>7. \A m \in Node : colour'[m] = "done" <=> colour[m] = "done" \/ m = last
  BY <1>4
<1>8. \A d \in deps[last] : d \in Node /\ colour[d] = "done"
  BY <1>1 DEF SearchInv, GraphIsWhole
<1>9. SearchInv'
  <2>1. \A m \in Node : todo[m] \subseteq deps[m] /\ (colour'[m] = "done" => todo[m] = {})
    BY <1>1, <1>7 DEF SearchInv
  <2>2. ASSUME NEW m \in Node, NEW d \in deps[m] \ todo[m] PROVE colour'[d] = "done"
    <3>1. d \in Node /\ colour[d] = "done"
      BY <2>2 DEF SearchInv, GraphIsWhole
    <3> QED
      BY <1>7, <3>1
  <2>3. todo \in [Node -> SUBSET Node]
    BY DEF SearchInv
  <2> QED
    BY <1>1, <1>4, <1>5, <1>6, <2>1, <2>2, <2>3 DEF SearchInv
<1>10. RankInv'
  <2>1. PICK rank, top : Ranks(rank, top)
    BY DEF RankInv
  <2>2. PICK higher \in [Node -> Nat] :
          /\ higher[last] = top /\ top + 1 \in Nat
          /\ \A m \in Node \ {last} : higher[m] = rank[m]
    <3> DEFINE h == [rank EXCEPT ![last] = top]
    <3>1. /\ h \in [Node -> Nat] /\ h[last] = top /\ top + 1 \in Nat
          /\ \A m \in Node \ {last} : h[m] = rank[m]
      BY <1>1, <2>1 DEF Ranks
    <3> HIDE DEF h
    <3> QED
      BY <3>1
  <2>3. ASSUME NEW m \in Node, colour'[m] = "done"
        PROVE  higher[m] < top + 1 /\ \A d \in deps[m] : higher[d] < higher[m]
    <3>1. CASE m = last
      <4>1. \A d \in deps[last] : d # last /\ rank[d] < top
        BY <1>1, <1>8, <2>1 DEF Ranks
      <4> QED
        BY <1>8, <2>1, <2>2, <3>1, <4>1 DEF Ranks
    <3>2. CASE m # last
      <4>1. colour[m] = "done" /\ todo[m] = {}
        BY <1>7, <2>3, <3>2 DEF SearchInv
      <4>2. \A d \in deps[m] : d \in Node /\ colour[d] = "done"
        BY <4>1 DEF SearchInv, GraphIsWhole
      <4>3. \A d \in deps[m] : d # last /\ rank[d] < rank[m]
        BY <1>1, <2>1, <4>1, <4>2 DEF Ranks
      <4>4. rank[m] < top /\ rank[m] \in Nat /\ top \in Nat
        BY <2>1, <4>1 DEF Ranks
      <4> QED
        BY <2>2, <3>2, <4>2, <4>3, <4>4
    <3> QED
      BY <3>1, <3>2
  <2>4. Ranks(higher, top + 1)'
    BY <1>1, <2>2, <2>3 DEF Ranks
  <2> QED
    BY <2>4 DEF RankInv
<1> QED
  BY <1>1, <1>9, <1>10

-----------------------------------------------------------------------------
(* The levels.                                                             *)

\* What waits for nothing outside the levels is placed at once, and no earlier
\* than it could be.
SortInv ==
  /\ levels \in Seq(SUBSET Node)
  /\ remaining = [n \in Node |-> deps[n] \ Placed]
  /\ \A i, j \in DOMAIN levels : \A n \in levels[i] \cap levels[j] : i = j
  /\ \A j \in DOMAIN levels : \A n \in levels[j] :
        /\ \A d \in deps[n] : \E i \in DOMAIN levels : i < j /\ d \in levels[i]
        /\ j > 1 => \E d \in deps[n] : d \in levels[j - 1]
  /\ \A n \in Node \ Placed : levels # <<>> =>
        \E d \in deps[n] : d \notin Placed \/ d \in levels[Len(levels)]

\* How the computation stands and ends.
OutcomeInv ==
  /\ verdict \in {"none", "cycle", "levels"}
  /\ verdict = "cycle" => IsCyclic
  /\ levels # <<>> \/ verdict = "levels" => \A n \in Node : colour[n] = "done"
  /\ verdict = "levels" => Placed = Node

\* A node is placed when it is in a level.
LEMMA PlacedIs ==
  \A n : n \in Placed <=> \E i \in DOMAIN levels : n \in levels[i]
  BY DEF Placed, Range

\* As long as a node is not placed there is one that waits for none of them.
LEMMA SomeAreFree ==
  ASSUME GraphIsWhole, RankInv, SortInv, \A n \in Node : colour[n] = "done",
         NEW n \in Node \ Placed
  PROVE  Free # {}
<1>1. PICK rank, top : Ranks(rank, top)
  BY DEF RankInv
<1> DEFINE T == {rank[m] : m \in Node \ Placed}
<1>2. T \in SUBSET Nat /\ T # {}
  BY <1>1 DEF Ranks
<1>3. PICK x \in T : \A y \in T : x <= y
  BY <1>2, LeastNumber
<1>4. PICK m \in Node \ Placed : x = rank[m]
  BY <1>3
<1>5. ASSUME NEW d \in deps[m] PROVE d \in Placed
  <2>1. d \in Node /\ rank[d] < rank[m] /\ rank[d] \in Nat /\ rank[m] \in Nat
    BY <1>1, <1>4, <1>5 DEF Ranks, GraphIsWhole
  <2>2. d \notin Placed => rank[m] <= rank[d]
    BY <1>3, <1>4, <2>1
  <2> QED
    BY <2>1, <2>2
<1>6. remaining[m] = {}
  BY <1>4, <1>5 DEF SortInv
<1> QED
  BY <1>4, <1>6 DEF Free

\* An iteration of the sort places something, and places it right.
LEMMA PlaceLevelKeeps ==
  ASSUME GraphIsWhole, SearchInv, RankInv, SortInv, OutcomeInv, PlaceLevel
  PROVE  SortInv' /\ OutcomeInv'
<1>0. /\ verdict = "none" /\ \A n \in Node : colour[n] = "done"
      /\ Placed # Node
  BY DEF PlaceLevel, Sorting, Searching
<1>1. \A m : m \in Placed => m \in Node
  BY PlacedIs DEF SortInv
<1>2. Free # {}
  <2>1. PICK n : n \in Node \ Placed
    BY <1>0, <1>1
  <2> QED
    BY <1>0, <2>1, SomeAreFree
<1>3. /\ levels' = Append(levels, Free)
      /\ remaining' = [n \in Node |-> remaining[n] \ Free]
      /\ UNCHANGED <<verdict, w, deps, colour, path, todo>>
  BY <1>2 DEF PlaceLevel
<1>f. Free \in SUBSET Node /\ \A n \in Node : n \in Free <=> n \notin Placed /\ deps[n] \subseteq Placed
  BY DEF Free, SortInv
<1>l. Len(levels) \in Nat /\ DOMAIN levels = 1 .. Len(levels) /\ levels \in Seq(SUBSET Node)
  BY DEF SortInv
<1> DEFINE new == Len(levels) + 1
<1>4. /\ levels' \in Seq(SUBSET Node) /\ DOMAIN levels' = DOMAIN levels \cup {new}
      /\ Len(levels') = new /\ new \notin DOMAIN levels
      /\ \A i \in DOMAIN levels : i < new /\ levels'[i] = levels[i]
      /\ levels'[new] = Free
  BY <1>3, <1>l, <1>f
<1> HIDE DEF new
<1>p. \A n : n \in Placed' <=> n \in Placed \/ n \in Free
  <2>1. \A n : n \in Placed' <=> \E i \in DOMAIN levels' : n \in levels'[i]
    BY DEF Placed, Range
  <2> QED
    BY <1>4, <2>1, PlacedIs
<1>5. remaining' = [n \in Node |-> deps'[n] \ Placed']
  BY <1>3, <1>p DEF SortInv
<1>6. \A i, j \in DOMAIN levels' : \A n \in levels'[i] \cap levels'[j] : i = j
  <2> SUFFICES ASSUME NEW i \in DOMAIN levels', NEW j \in DOMAIN levels',
                      NEW n \in levels'[i] \cap levels'[j]
               PROVE  i = j
    OBVIOUS
  <2>1. CASE i \in DOMAIN levels /\ j \in DOMAIN levels
    BY <1>4, <2>1 DEF SortInv
  <2>2. CASE i \in DOMAIN levels /\ j = new
    <3>1. n \in Placed /\ n \in Free
      BY <1>4, <2>2, PlacedIs
    <3> QED
      BY <3>1 DEF Free
  <2>3. CASE j \in DOMAIN levels /\ i = new
    <3>1. n \in Placed /\ n \in Free
      BY <1>4, <2>3, PlacedIs
    <3> QED
      BY <3>1 DEF Free
  <2> QED
    BY <1>4, <2>1, <2>2, <2>3
<1>7. \A j \in DOMAIN levels' : \A n \in levels'[j] :
        /\ \A d \in deps[n] : \E i \in DOMAIN levels' : i < j /\ d \in levels'[i]
        /\ j > 1 => \E d \in deps[n] : d \in levels'[j - 1]
  <2> SUFFICES ASSUME NEW j \in DOMAIN levels', NEW n \in levels'[j]
               PROVE  /\ \A d \in deps[n] : \E i \in DOMAIN levels' : i < j /\ d \in levels'[i]
                      /\ j > 1 => \E d \in deps[n] : d \in levels'[j - 1]
    OBVIOUS
  <2>1. CASE j \in DOMAIN levels
    <3>1. n \in levels[j] /\ (j > 1 => j - 1 \in DOMAIN levels)
      BY <1>4, <1>l, <2>1
    <3>2. \A d \in deps[n] : \E i \in DOMAIN levels : i < j /\ d \in levels[i]
      BY <2>1, <3>1 DEF SortInv
    <3>3. j > 1 => \E d \in deps[n] : d \in levels[j - 1]
      BY <2>1, <3>1 DEF SortInv
    <3> QED
      BY <1>4, <3>1, <3>2, <3>3
  <2>2. CASE j = new
    <3>1. n \in Free /\ n \in Node /\ n \notin Placed /\ deps[n] \subseteq Placed
      BY <1>4, <1>f, <2>2
    <3>2. \A d \in deps[n] : \E i \in DOMAIN levels : d \in levels[i]
      BY <3>1, PlacedIs
    <3>3. \A d \in deps[n] : \E i \in DOMAIN levels' : i < j /\ d \in levels'[i]
      BY <1>4, <2>2, <3>2
    <3>4. j > 1 => \E d \in deps[n] : d \in levels'[j - 1]
      <4>1. SUFFICES ASSUME j > 1 PROVE \E d \in deps[n] : d \in levels'[j - 1]
        OBVIOUS
      <4>2. j - 1 = Len(levels) /\ Len(levels) \in DOMAIN levels /\ levels # <<>>
        BY <1>l, <2>2, <4>1 DEF new
      <4>3. \E d \in deps[n] : d \in levels[Len(levels)]
        BY <3>1, <4>2 DEF SortInv
      <4> QED
        BY <1>4, <4>2, <4>3
    <3> QED
      BY <3>3, <3>4
  <2> QED
    BY <1>4, <2>1, <2>2
<1>8. ASSUME NEW n \in Node, n \notin Placed'
      PROVE  \E d \in deps[n] : d \notin Placed' \/ d \in levels'[Len(levels')]
  <2>1. n \notin Placed /\ n \notin Free
    BY <1>8, <1>p
  <2>2. PICK d \in deps[n] : d \notin Placed
    BY <1>f, <2>1
  <2> QED
    BY <1>4, <1>p, <2>2
<1>9. SortInv'
  <2>1. deps' = deps
    BY <1>3
  <2>2. (levels \in Seq(SUBSET Node))'
    BY <1>4
  <2>3. (\A j \in DOMAIN levels : \A n \in levels[j] :
          /\ \A d \in deps[n] : \E i \in DOMAIN levels : i < j /\ d \in levels[i]
          /\ j > 1 => \E d \in deps[n] : d \in levels[j - 1])'
    BY <1>7, <2>1
  <2>4. (\A n \in Node \ Placed : levels # <<>> =>
          \E d \in deps[n] : d \notin Placed \/ d \in levels[Len(levels)])'
    BY <1>8, <2>1
  <2> QED
    BY <1>5, <1>6, <2>2, <2>3, <2>4 DEF SortInv
<1>10. OutcomeInv'
  BY <1>0, <1>3 DEF OutcomeInv
<1> QED
  BY <1>9, <1>10

\* The verdict does not depend on the search once there are levels.
LEMMA SearchKeepsRest ==
  ASSUME GraphIsWhole, SortInv, OutcomeInv, verdict = "none", Searching,
         UNCHANGED <<deps, levels, remaining>>, verdict' \in {"none", "cycle"},
         verdict' = "cycle" => IsCyclic
  PROVE  SortInv' /\ OutcomeInv'
<1>1. levels = <<>>
  BY DEF Searching, OutcomeInv
<1>2. Placed' = Placed
  BY DEF Placed
<1>3. SortInv'
  BY <1>2 DEF SortInv
<1>4. IsCyclic' = IsCyclic
  BY DEF IsCyclic, NeedsAtLast, Needs
<1> QED
  BY <1>1, <1>3, <1>4 DEF OutcomeInv

\* Together.
GraphInv == SearchInv /\ RankInv /\ SortInv /\ OutcomeInv

\* Every step of the computation keeps it, and leaves the graph alone.
LEMMA ComputeKeeps ==
  ASSUME GraphIsWhole, GraphInv, Compute
  PROVE  GraphInv' /\ UNCHANGED <<w, deps>>
<1> USE DEF GraphInv
<1>1. ASSUME NEW n \in Node, Root(n) PROVE GraphInv' /\ UNCHANGED <<w, deps>>
  <2>1. Searching /\ verdict = "none" /\ UNCHANGED w
    BY <1>1 DEF Root, Searching, Visit
  <2> QED
    BY <1>1, <2>1, RootKeeps, SearchKeepsRest
<1>2. ASSUME NEW d \in Node, Look(d) PROVE GraphInv' /\ UNCHANGED <<w, deps>>
  <2>1. Searching /\ verdict = "none" /\ UNCHANGED w
    BY <1>2 DEF Look, Searching, Visit
  <2> QED
    BY <1>2, <2>1, LookKeeps, SearchKeepsRest
<1>3. CASE Leave
  <2>1. Searching /\ verdict = "none" /\ UNCHANGED w
    BY <1>3 DEF Leave, Searching
  <2> QED
    BY <1>3, <2>1, LeaveKeeps, SearchKeepsRest
<1>4. CASE PlaceLevel
  <2>1. UNCHANGED <<w, deps, colour, path, todo>>
    BY <1>4 DEF PlaceLevel
  <2>2. SearchInv' /\ RankInv'
    BY <2>1 DEF SearchInv, RankInv, Ranks, IsPath
  <2> QED
    BY <1>4, <2>1, <2>2, PlaceLevelKeeps
<1>5. CASE Finish
  <2>1. /\ Placed = Node /\ verdict' = "levels" /\ \A n \in Node : colour[n] = "done"
        /\ UNCHANGED <<w, deps, colour, path, todo, remaining, levels>>
    BY <1>5 DEF Finish, Sorting, Searching
  <2>2. SearchInv' /\ RankInv'
    BY <2>1 DEF SearchInv, RankInv, Ranks, IsPath
  <2>3. Placed' = Placed
    BY <2>1 DEF Placed
  <2>4. SortInv' /\ OutcomeInv'
    BY <2>1, <2>3 DEF SortInv, OutcomeInv
  <2> QED
    BY <2>1, <2>2, <2>4
<1> QED
  BY <1>1, <1>2, <1>3, <1>4, <1>5 DEF Compute

-----------------------------------------------------------------------------
(* What the levels say.                                                    *)

\* When the levels are there, each node has one.
LEMMA LevelOfIs ==
  ASSUME SortInv, Placed = Node, NEW n \in Node
  PROVE  /\ LevelOf(n) \in DOMAIN levels /\ n \in levels[LevelOf(n)]
         /\ LevelOf(n) \in 1 .. Len(levels) /\ LevelOf(n) \in Nat /\ Len(levels) \in Nat
         /\ \A i \in DOMAIN levels : n \in levels[i] => i = LevelOf(n)
<1>1. \E i \in DOMAIN levels : n \in levels[i]
  BY PlacedIs
<1>2. LevelOf(n) \in DOMAIN levels /\ n \in levels[LevelOf(n)]
  BY <1>1 DEF LevelOf
<1>3. Len(levels) \in Nat /\ DOMAIN levels = 1 .. Len(levels)
  BY DEF SortInv
<1> QED
  BY <1>2, <1>3 DEF SortInv

\* What a node depends on is of a lower level.
LEMMA DependsLater ==
  ASSUME GraphIsWhole, SortInv, Placed = Node, NEW n \in Node, NEW d \in deps[n]
  PROVE  LevelOf(d) < LevelOf(n) /\ d \in Node
<1>1. d \in Node
  BY DEF GraphIsWhole
<1>2. \E i \in DOMAIN levels : i < LevelOf(n) /\ d \in levels[i]
  BY LevelOfIs DEF SortInv
<1> QED
  BY <1>1, <1>2, LevelOfIs

\* The invariant gives the levels their meaning: first, each is as early as it can be.
LEMMA EarliestFollows ==
  ASSUME GraphIsWhole, GraphInv
  PROVE  LevelsAreEarliest
<1> SUFFICES ASSUME verdict = "levels", NEW n \in Node
             PROVE  /\ \A d \in deps[n] : LevelOf(d) < LevelOf(n)
                    /\ LevelOf(n) > 1 => \E d \in deps[n] : LevelOf(d) = LevelOf(n) - 1
  BY DEF LevelsAreEarliest
<1>1. SortInv /\ Placed = Node
  BY DEF GraphInv, OutcomeInv
<1>2. ASSUME LevelOf(n) > 1 PROVE \E d \in deps[n] : LevelOf(d) = LevelOf(n) - 1
  <2>1. PICK d \in deps[n] : d \in levels[LevelOf(n) - 1]
    BY <1>1, <1>2, LevelOfIs DEF SortInv
  <2>2. LevelOf(n) - 1 \in DOMAIN levels /\ d \in Node
    BY <1>1, <1>2, LevelOfIs DEF SortInv, GraphIsWhole
  <2> QED
    BY <1>1, <2>1, <2>2, LevelOfIs
<1> QED
  BY <1>1, <1>2, DependsLater

\* Second, only the graphs that have a cycle are said to have one.
LEMMA CycleFollows ==
  ASSUME GraphIsWhole, GraphInv
  PROVE  CycleVerdictIsRight
<1>1. ASSUME verdict = "levels" PROVE ~ IsCyclic
  <2>1. PICK rank, top : Ranks(rank, top)
    BY DEF GraphInv, RankInv
  <2>2. \A n \in Node : \A d \in deps[n] : rank[d] < rank[n]
    BY <1>1, <2>1 DEF GraphInv, OutcomeInv, Ranks
  <2> QED
    BY <2>1, <2>2, RankedIsAcyclic DEF Ranks
<1> QED
  BY <1>1 DEF GraphInv, OutcomeInv, CycleVerdictIsRight

\* Of the members of a branch the one placed last is an end of it.
LEMMA JoinFollows ==
  ASSUME GraphIsWhole, GraphInv, deps = Dependencies(w)
  PROVE  JoinComesLast
<1> SUFFICES ASSUME verdict = "levels", NEW n \in Node, NEW m \in Node,
                    w.join[n] # NoGroup, GroupOf(w)[m] = w.join[n]
             PROVE  LevelOf(m) < LevelOf(n)
  BY DEF JoinComesLast
<1> DEFINE own == Membership(w)
<1>1. SortInv /\ Placed = Node
  BY DEF GraphInv, OutcomeInv
<1>2. own[m] # NoBranch /\ own[m].group = w.join[n]
  BY DEF GroupOf
<1> DEFINE Mates == {x \in Node : own[x] = own[m]}
           T == {LevelOf(x) : x \in Mates}
<1>3. T \in SUBSET (0 .. Len(levels)) /\ T # {} /\ Len(levels) \in Nat
  BY <1>1, LevelOfIs
<1>4. PICK top \in T : \A y \in T : y <= top
  BY <1>3, GreatestNumber
<1>5. PICK x \in Mates : top = LevelOf(x)
  BY <1>4
<1>6. \A y \in Node : x \in w.inputs[y] => own[y] # own[x]
  <2> SUFFICES ASSUME NEW y \in Node, x \in w.inputs[y], own[y] = own[x] PROVE FALSE
    OBVIOUS
  <2>1. x \in deps[y]
    BY DEF Dependencies
  <2>2. LevelOf(x) < LevelOf(y)
    BY <1>1, <2>1, DependsLater
  <2>3. LevelOf(y) <= LevelOf(x)
    BY <1>4, <1>5
  <2> QED
    BY <1>1, <1>5, <2>2, <2>3, LevelOfIs
<1>7. x \in BranchTerminals(w, w.join[n])
  BY <1>2, <1>5, <1>6 DEF BranchTerminals
<1>8. x \in deps[n]
  BY <1>7 DEF Dependencies
<1>9. LevelOf(x) < LevelOf(n) /\ LevelOf(m) <= LevelOf(x)
  BY <1>1, <1>4, <1>5, <1>8, DependsLater
<1> QED
  BY <1>1, <1>5, <1>9, LevelOfIs

-----------------------------------------------------------------------------
(* The load.                                                               *)

\* What ConfigsAreParsed says of a config.
IsParsed(c) == DOMAIN c = Parts /\ NodesAreParsed(c) /\ LevelsAreParsed(c) /\ ScopesAreParsed(c)

\* d is the config c with other defaults filled in.
Same(c, d) ==
  /\ DOMAIN d = DOMAIN c
  /\ \A f \in Parts \ {"version", "runtime", "numbers"} : d[f] = c[f]

\* The merge touches three fields.
LEMMA MergedIsSame ==
  ASSUME NEW c, DOMAIN c = Parts
  PROVE  /\ Same(c, Merged(c))
         /\ Merged(c).numbers = [v \in Level |-> [k \in DOMAIN Knobs |->
               IF c.numbers[v][k] = "absent" THEN Fallback(c, v, k) ELSE c.numbers[v][k]]]
<1>1. {"version", "runtime", "numbers"} \subseteq Parts
  BY DEF Parts
<1> QED
  BY <1>1 DEF Same, Merged

\* The checks of validateSchema that do not look at what the merge fills in.
LEMMA SameFields ==
  ASSUME NEW c, NEW d, Same(c, d)
  PROVE  /\ d.type = c.type /\ d.has = c.has /\ d.inputs = c.inputs /\ d.fork = c.fork /\ d.join = c.join
         /\ d.scope = c.scope /\ d.isolated = c.isolated /\ d.modes = c.modes /\ d.body = c.body
         /\ d.exit = c.exit /\ d.conditionNode = c.conditionNode /\ d.rules = c.rules
         /\ d.session = c.session /\ d.uses = c.uses
  BY DEF Same, Parts

\* So the graph and the loops of the merged config are those of the parsed one.
LEMMA SameGraph ==
  ASSUME NEW c, NEW d, Same(c, d)
  PROVE  /\ GraphOf(d) = GraphOf(c) /\ Ids(d) = Ids(c)
         /\ \A n : BodyOf(d, n) = BodyOf(c, n)
         /\ \A n : LoopsOf(d, n) = LoopsOf(c, n)
         /\ \A n : KnownTo(d, n) = KnownTo(c, n)
         /\ \A n : BranchOf(d, n) = BranchOf(c, n)
         /\ \A n : CheckedFields(d, n) = CheckedFields(c, n)
<1>1. GraphOf(d) = GraphOf(c)
  <2>1. d.inputs = c.inputs /\ d.fork = c.fork /\ d.join = c.join /\ d.scope = c.scope
    BY SameFields
  <2> QED
    BY <2>1 DEF GraphOf
<1>2. \A n : BodyOf(d, n) = BodyOf(c, n)
  BY SameFields DEF BodyOf
<1>3. \A n : LoopsOf(d, n) = LoopsOf(c, n)
  BY <1>2 DEF LoopsOf
<1>4. \A n : KnownTo(d, n) = KnownTo(c, n)
  BY <1>2, <1>3 DEF KnownTo
<1>5. Ids(d) = Ids(c)
  BY <1>2 DEF Ids
<1>6. \A n : BranchOf(d, n) = BranchOf(c, n)
  BY <1>1 DEF BranchOf
<1>7. \A n : CheckedFields(d, n) = CheckedFields(c, n)
  BY SameFields DEF CheckedFields
<1> QED
  BY <1>1, <1>2, <1>3, <1>4, <1>5, <1>6, <1>7

\* What a loaded config keeps of the checks it has passed.
Sound(c) ==
  /\ IsParsed(c)
  /\ \A n \in Ids(c) : InputsAreKnown(c, n) /\ TemplatesAreKnown(c, n) /\ JoinIsWhole(c, n)
  /\ ForkGraphIsValid(GraphOf(c))
  /\ \A l \in Node : c.type[l] = "loop" => LoopIsWhole(c, l)
  /\ ScopesAreDisjoint(c) /\ BranchVariablesHaveABranch(c)
  /\ MergedIsValid(c)
  /\ \A k \in {"poll_interval", "timeout"} : c.numbers[Defaults][k] \in Knobs[k]
  /\ \A n \in Ids(c), k \in DOMAIN Knobs : c.numbers[n][k] \in Knobs[k] \cup {"absent"}

\* A positive number is let through for every setting.
LEMMA KnobsAre ==
  /\ DOMAIN Knobs = {"max_usd", "max_turns", "max_retry_wall_clock_seconds", "max_parallel",
                     "max_concurrent", "poll_interval", "timeout"}
  /\ \A k \in DOMAIN Knobs : "positive" \in Knobs[k]
  BY DEF Knobs

\* Every number is set by the merge or stays absent, and what is not set caps.
LEMMA NumbersAreMerged ==
  ASSUME NEW c, IsParsed(c), \A v \in Ids(c) \cup {Defaults} : NumbersAreInRange(c, v)
  PROVE  /\ \A k \in {"poll_interval", "timeout"} : Merged(c).numbers[Defaults][k] \in Knobs[k]
         /\ \A n \in Ids(c), k \in DOMAIN Knobs : Merged(c).numbers[n][k] \in Knobs[k] \cup {"absent"}
<1>0. \A v \in Level, k \in DOMAIN Knobs :
        Merged(c).numbers[v][k] =
          IF c.numbers[v][k] = "absent" THEN Fallback(c, v, k) ELSE c.numbers[v][k]
  <2>1. Merged(c).numbers = [v \in Level |-> [k \in DOMAIN Knobs |->
          IF c.numbers[v][k] = "absent" THEN Fallback(c, v, k) ELSE c.numbers[v][k]]]
    BY MergedIsSame DEF IsParsed
  <2> QED
    BY <2>1
<1>i. Ids(c) \subseteq Level /\ Defaults \in Level /\ Defaults \notin Ids(c)
  BY IdsAreUsedOnce DEF Ids, Level, Id, BodyOf, IsParsed, NodesAreParsed
<1>1. ASSUME NEW k \in {"poll_interval", "timeout"}
      PROVE  Merged(c).numbers[Defaults][k] \in Knobs[k]
  <2>1. k \in DOMAIN Knobs /\ "positive" \in Knobs[k]
    BY <1>1, KnobsAre
  <2>2. c.numbers[Defaults][k] \in Knobs[k] \cup {"absent"}
    BY <2>1 DEF NumbersAreInRange
  <2>3. Fallback(c, Defaults, k) = "positive"
    BY <1>1 DEF Fallback
  <2> QED
    BY <1>0, <1>i, <2>1, <2>2, <2>3
<1>2. ASSUME NEW n \in Ids(c), NEW k \in DOMAIN Knobs
      PROVE  Merged(c).numbers[n][k] \in Knobs[k] \cup {"absent"}
  <2>1. /\ c.numbers[n][k] \in Knobs[k] \cup {"absent"} /\ "positive" \in Knobs[k]
        /\ c.numbers[Defaults][k] \in Knobs[k] \cup {"absent"}
    BY KnobsAre DEF NumbersAreInRange
  <2>2. Fallback(c, n, k) \in {"positive", "absent", c.numbers[Defaults][k]}
    <3>1. n # Defaults
      BY <1>i
    <3>2. k = "max_retry_wall_clock_seconds" \/ k # "max_retry_wall_clock_seconds"
      OBVIOUS
    <3> QED
      BY <3>1, <3>2 DEF Fallback
  <2> QED
    BY <1>0, <1>i, <2>1, <2>2
<1> QED
  BY <1>1, <1>2

\* A config that is accepted is sound after the merge.
LEMMA AcceptedIsSound ==
  ASSUME NEW c, IsParsed(c), Accepted(c)
  PROVE  Sound(Merged(c)) /\ GraphOf(Merged(c)) = GraphOf(c)
<1> DEFINE d == Merged(c)
<1>1. Same(c, d) /\ GraphOf(d) = GraphOf(c)
  BY MergedIsSame, SameGraph DEF IsParsed
<1>2. /\ \A n \in Ids(c) : InputsAreKnown(c, n) /\ TemplatesAreKnown(c, n) /\ JoinIsWhole(c, n)
      /\ ForkGraphIsValid(GraphOf(c))
      /\ \A l \in Node : c.type[l] = "loop" => LoopIsWhole(c, l)
      /\ \A v \in Ids(c) \cup {Defaults} : NumbersAreInRange(c, v)
      /\ ScopesAreDisjoint(c) /\ BranchVariablesHaveABranch(c) /\ MergedIsValid(d)
  <2>1. Node \subseteq Ids(c)
    BY DEF Ids
  <2> QED
    BY <2>1 DEF Accepted, SchemaIsValid
<1>3. DOMAIN d = Parts /\ NodesAreParsed(d)
  <2>1. DOMAIN d = Parts
    BY <1>1 DEF Same, IsParsed
  <2>2. NodesAreParsed(c)
    BY DEF IsParsed
  <2>3. \A f \in {"type", "has", "inputs", "fork", "join", "body", "conditionNode", "exit",
                  "rules", "isolated", "modes", "missing", "ownPhase", "uses"} : d[f] = c[f]
    BY <1>1 DEF Same, Parts
  <2> HIDE DEF d
  <2> QED
    BY <2>1, <2>2, <2>3 DEF NodesAreParsed
<1>4. LevelsAreParsed(d)
  <2>1. LevelsAreParsed(c)
    BY DEF IsParsed
  <2>2. \A f \in {"session", "permission", "filter", "reserved"} : d[f] = c[f]
    BY <1>1 DEF Same, Parts
  <2>3. DOMAIN d.runtime = Level
    <3>1. DOMAIN c = Parts /\ DOMAIN c.runtime = Level
      BY DEF IsParsed, LevelsAreParsed
    <3> QED
      BY <3>1 DEF Merged, Parts
  <2>4. DOMAIN d.numbers = Level
    BY MergedIsSame DEF IsParsed
  <2> HIDE DEF d
  <2> QED
    BY <2>1, <2>2, <2>3, <2>4 DEF LevelsAreParsed
<1>5. /\ \A k \in {"poll_interval", "timeout"} : d.numbers[Defaults][k] \in Knobs[k]
      /\ \A n \in Ids(c), k \in DOMAIN Knobs : d.numbers[n][k] \in Knobs[k] \cup {"absent"}
  BY <1>2, NumbersAreMerged
<1> HIDE DEF d
<1>6. Ids(d) = Ids(c)
  BY <1>1, SameGraph
<1>7. \A n : InputsAreKnown(c, n) => InputsAreKnown(d, n)
  BY <1>1, SameGraph, SameFields DEF InputsAreKnown
<1>8. \A n : TemplatesAreKnown(c, n) => TemplatesAreKnown(d, n)
  BY <1>1, SameGraph, SameFields DEF TemplatesAreKnown
<1>9. \A l : LoopIsWhole(c, l) => LoopIsWhole(d, l)
  BY <1>1, SameGraph, SameFields DEF LoopIsWhole, ForwardsInputs, RulesNameExit
<1>10. BranchVariablesHaveABranch(d)
  BY <1>1, <1>2, SameGraph, SameFields DEF BranchVariablesHaveABranch
<1>11. d.type = c.type
  BY <1>1, SameFields
<1>12. ScopesAreParsed(d) /\ ScopesAreDisjoint(d)
  <2>1. d.scope = c.scope /\ \A n : BranchOf(d, n) = BranchOf(c, n)
    BY <1>1, SameFields, SameGraph
  <2>2. \A n, m : DifferentBranches(d, n, m) <=> DifferentBranches(c, n, m)
    BY <2>1 DEF DifferentBranches
  <2>3. ScopesAreParsed(d)
    BY <2>1 DEF ScopesAreParsed, IsParsed
  <2> QED
    BY <1>2, <2>1, <2>2, <2>3 DEF ScopesAreDisjoint
<1>13. \A n : JoinIsWhole(c, n) => JoinIsWhole(d, n)
  BY <1>1, SameFields DEF JoinIsWhole
<1>14. Sound(d)
  BY <1>1, <1>2, <1>3, <1>4, <1>5, <1>6, <1>7, <1>8, <1>9, <1>10, <1>11, <1>12, <1>13
     DEF Sound, IsParsed
<1> QED
  BY <1>1, <1>14 DEF d

\* A top-level node is in no loop and takes its inputs from the top level.
LEMMA SoundIsWhole ==
  ASSUME NEW c, Sound(c)
  PROVE  /\ \A n \in Node : LoopsOf(c, n) = {} /\ c.inputs[n] \subseteq Node
         /\ Dependencies(GraphOf(c)) \in [Node -> SUBSET Node]
<1>1. \A n \in Node : LoopsOf(c, n) = {}
  BY IdsAreUsedOnce DEF LoopsOf, BodyOf, Sound, IsParsed, NodesAreParsed
<1>2. \A n \in Node : c.inputs[n] \subseteq Node
  <2> SUFFICES ASSUME NEW n \in Node PROVE c.inputs[n] \subseteq Node
    OBVIOUS
  <2>1. n \in Ids(c)
    BY DEF Ids
  <2>2. c.inputs[n] \subseteq KnownTo(c, n)
    BY <2>1 DEF Sound, InputsAreKnown
  <2>3. KnownTo(c, n) = Node
    BY <1>1 DEF KnownTo
  <2> QED
    BY <2>2, <2>3
<1>3. \A n \in Node : GraphOf(c).inputs[n] \subseteq Node
  BY <1>2 DEF GraphOf
<1>4. \A g : BranchTerminals(GraphOf(c), g) \subseteq Node
  BY DEF BranchTerminals
<1>5. Dependencies(GraphOf(c)) \in [Node -> SUBSET Node]
  <2> DEFINE g == GraphOf(c)
  <2>1. \A n \in Node : g.inputs[n] \cup
          (IF g.join[n] = NoGroup THEN {} ELSE BranchTerminals(g, g.join[n])) \in SUBSET Node
    BY <1>3, <1>4
  <2> QED
    BY <2>1 DEF Dependencies
<1> QED
  BY <1>1, <1>2, <1>5

\* A config is read as it was parsed; levels are made of a sound one only.
LoaderInv ==
  /\ stage \in {"read", "rejected", "loaded"}
  /\ w = GraphOf(config) /\ deps = Dependencies(w)
  /\ stage # "loaded" => IsParsed(config) /\ Blank
  /\ stage = "loaded" => Sound(config) /\ GraphInv

\* Before the first step the invariant holds of any graph.
LEMMA BlankIsWhole ==
  ASSUME Blank, GraphIsWhole
  PROVE  GraphInv
<1>1. /\ path = <<>> /\ levels = <<>> /\ verdict = "none" /\ todo = deps /\ remaining = deps
      /\ colour = [n \in Node |-> "unvisited"]
  BY DEF Blank
<1>2. SearchInv
  <2>1. colour \in [Node -> Colours] /\ todo \in [Node -> SUBSET Node]
    BY <1>1 DEF Colours, GraphIsWhole
  <2>2. path \in Seq(Node) /\ DOMAIN path = {}
    BY <1>1
  <2>3. IsPath(path)
    BY <2>2 DEF IsPath
  <2> QED
    BY <1>1, <2>1, <2>2, <2>3 DEF SearchInv
<1>3. RankInv
  <2>1. Ranks([n \in Node |-> 0], 0)
    BY <1>1 DEF Ranks
  <2> QED
    BY <2>1 DEF RankInv
<1>4. SortInv
  <2>1. levels \in Seq(SUBSET Node) /\ DOMAIN levels = {} /\ Placed = {}
    BY <1>1 DEF Placed, Range
  <2>2. remaining = [n \in Node |-> deps[n] \ Placed]
    BY <1>1, <2>1 DEF GraphIsWhole
  <2> QED
    BY <1>1, <2>1, <2>2 DEF SortInv
<1> QED
  BY <1>1, <1>2, <1>3, <1>4 DEF GraphInv, OutcomeInv

\* At first the config is one that was parsed.
LEMMA LoaderInit == Init => LoaderInv
<1> SUFFICES ASSUME Init PROVE LoaderInv
  OBVIOUS
<1>1. IsParsed(config)
  BY ConfigsAreParsed DEF Init, IsParsed
<1> QED
  BY <1>1 DEF Init, LoaderInv, Blank

\* A step that leaves the graph alone.
LEMMA GraphRests ==
  ASSUME GraphInv, UNCHANGED graphVars
  PROVE  GraphInv'
<1>1. UNCHANGED <<w, deps, colour, path, todo, remaining, levels, verdict>>
  BY DEF graphVars
<1>2. Placed' = Placed
  BY <1>1 DEF Placed
<1>3. SearchInv'
  BY <1>1 DEF GraphInv, SearchInv, IsPath
<1>4. RankInv'
  BY <1>1 DEF GraphInv, RankInv, Ranks
<1>5. SortInv'
  BY <1>1, <1>2 DEF GraphInv, SortInv
<1>6. IsCyclic' = IsCyclic
  BY <1>1 DEF IsCyclic, NeedsAtLast, Needs
<1>7. OutcomeInv'
  BY <1>1, <1>2, <1>6 DEF GraphInv, OutcomeInv
<1> QED
  BY <1>3, <1>4, <1>5, <1>7 DEF GraphInv

\* Every step of the loader keeps the invariant.
LEMMA LoaderStep == LoaderInv /\ [Next]_vars => LoaderInv'
<1> SUFFICES ASSUME LoaderInv, [Next]_vars PROVE LoaderInv'
  OBVIOUS
<1>1. CASE Load /\ Accepted(config)
  <2>1. stage' = "loaded" /\ config' = Merged(config) /\ UNCHANGED graphVars
    BY <1>1 DEF Load
  <2>2. IsParsed(config) /\ Blank
    BY <1>1 DEF Load, LoaderInv
  <2>3. Sound(config') /\ GraphOf(config') = GraphOf(config)
    BY <1>1, <2>1, <2>2, AcceptedIsSound
  <2>4. GraphIsWhole
    BY <2>3, SoundIsWhole DEF GraphIsWhole, LoaderInv
  <2>5. GraphInv
    BY <2>2, <2>4, BlankIsWhole
  <2>6. GraphInv'
    BY <2>1, <2>5, GraphRests
  <2> QED
    BY <2>1, <2>3, <2>6 DEF LoaderInv, graphVars
<1>2. CASE Load /\ ~ Accepted(config)
  <2>1. stage' = "rejected" /\ UNCHANGED config /\ UNCHANGED graphVars /\ stage = "read"
    BY <1>2 DEF Load
  <2> QED
    BY <2>1 DEF LoaderInv, graphVars, Blank
<1>3. CASE BuildLevels
  <2>1. stage = "loaded" /\ Compute /\ UNCHANGED <<config, stage>>
    BY <1>3 DEF BuildLevels
  <2>2. GraphIsWhole /\ GraphInv
    BY <2>1, SoundIsWhole DEF GraphIsWhole, LoaderInv
  <2>3. GraphInv' /\ UNCHANGED <<w, deps>>
    BY <2>1, <2>2, ComputeKeeps
  <2> QED
    BY <2>1, <2>3 DEF LoaderInv
<1>4. CASE UNCHANGED vars
  <2>1. UNCHANGED <<config, stage, w, deps, colour, path, todo, remaining, levels, verdict>>
    BY <1>4 DEF vars, graphVars
  <2>3. GraphInv => GraphInv'
    BY <1>4, GraphRests DEF vars
  <2> QED
    BY <2>1, <2>3 DEF LoaderInv, Blank
<1> QED
  BY <1>1, <1>2, <1>3, <1>4 DEF Next

\* So it always holds.
LEMMA LoaderHolds == Spec => []LoaderInv
  BY LoaderInit, LoaderStep, PTL DEF Spec

\* The inputs of a loaded config are nodes.
LEMMA WholeGraph == ASSUME LoaderInv, stage = "loaded" PROVE GraphIsWhole
  BY SoundIsWhole DEF GraphIsWhole, LoaderInv

\* Levels are the levels of a loaded config.
LEMMA LevelsAreOfALoad ==
  ASSUME LoaderInv, verdict = "levels"
  PROVE  /\ stage = "loaded" /\ Sound(config) /\ GraphInv /\ GraphIsWhole
         /\ SortInv /\ Placed = Node
<1>1. stage = "loaded"
  BY DEF LoaderInv, Blank
<1> QED
  BY <1>1, WholeGraph DEF LoaderInv, GraphInv, OutcomeInv

-----------------------------------------------------------------------------
(* Theorems.                                                               *)

\* A cyclic workflow is refused and no other, no level is later than it has to be,
\* and a join comes after all of its branches (detectCycles, topoSort).
THEOREM LevelsStayRight == Spec => []LevelsAreRight
<1>1. LoaderInv => LevelsAreRight
  <2> SUFFICES ASSUME LoaderInv PROVE LevelsAreRight
    OBVIOUS
  <2>1. CASE stage = "loaded"
    <3>1. GraphInv /\ GraphIsWhole /\ deps = Dependencies(w)
      BY <2>1, WholeGraph DEF LoaderInv
    <3> QED
      BY <3>1, CycleFollows, EarliestFollows, JoinFollows DEF LevelsAreRight
  <2>2. CASE stage # "loaded"
    <3>1. verdict = "none"
      BY <2>2 DEF LoaderInv, Blank
    <3> QED
      BY <3>1 DEF LevelsAreRight, CycleVerdictIsRight, LevelsAreEarliest, JoinComesLast
  <2> QED
    BY <2>1, <2>2
<1> QED
  BY <1>1, LoaderHolds, PTL

\* When a loop starts, what its body takes from outside has had its turn, and one
\* rule says when it ends (the loop rules of validateSchema).
THEOREM LoopBodyStaysFed == Spec => []LoopBodyIsFed
<1>1. LoaderInv => LoopBodyIsFed
  <2> SUFFICES ASSUME LoaderInv, verdict = "levels",
                      NEW l \in Node, config.type[l] = "loop"
               PROVE  /\ \A b \in BodyOf(config, l) :
                           \A i \in config.inputs[b] \ BodyOf(config, l) : LevelOf(i) < LevelOf(l)
                      /\ "until" \notin config.exit[l] =>
                            config.conditionNode[l] \in BodyOf(config, l)
    BY DEF LoopBodyIsFed
  <2>1. LoopIsWhole(config, l) /\ GraphIsWhole /\ SortInv /\ Placed = Node
    BY LevelsAreOfALoad DEF Sound
  <2>2. config.inputs[l] \subseteq deps[l]
    BY DEF LoaderInv, Dependencies, GraphOf
  <2>3. ASSUME NEW b \in BodyOf(config, l), NEW i \in config.inputs[b] \ BodyOf(config, l)
        PROVE  LevelOf(i) < LevelOf(l)
    <3>1. i \in deps[l]
      BY <2>1, <2>2 DEF LoopIsWhole, ForwardsInputs
    <3> QED
      BY <2>1, <3>1, DependsLater
  <2>4. "until" \notin config.exit[l] => config.conditionNode[l] \in BodyOf(config, l)
    BY <2>1 DEF LoopIsWhole
  <2> QED
    BY <2>3, <2>4
<1> QED
  BY <1>1, LoaderHolds, PTL

\* Of a loaded workflow every number that is needed is there and in range
\* (mergeDefaults).
THEOREM QuestionsStayAwaited == Spec => []QuestionsCanBeAwaited
<1>1. LoaderInv => QuestionsCanBeAwaited
  BY DEF LoaderInv, Sound, QuestionsCanBeAwaited
<1> QED
  BY <1>1, LoaderHolds, PTL

-----------------------------------------------------------------------------
(* Variables.                                                              *)

\* A variable that the loader has let through is there when its node runs, but for
\* what it leaves to the run (validateTemplateVars against resolve).
THEOREM VariablesStayResolved == Spec => []VariablesResolve
<1>1. LoaderInv => VariablesResolve
  <2> SUFFICES ASSUME LoaderInv, verdict = "levels",
                      NEW u \in {x \in config.uses : x.node \in Ids(config)},
                      u.field \in CheckedFields(config, u.node) \/ u.var.prefix = "branch",
                      ~ LeftToTheRun(config, u), NEW item \in {ScalarItem, ObjectItem}
               PROVE  Resolves(u.var, ContextOf(config, u.node, u.field, item))
    BY DEF VariablesResolve
  <2> DEFINE c == config
             ctx == ContextOf(c, u.node, u.field, item)
  <2>0. /\ u \in c.uses /\ u.node \in Ids(c) /\ Sound(c)
        /\ Ids(c) \subseteq Node \cup BodyNode
    <3>1. Sound(c)
      BY LevelsAreOfALoad
    <3> QED
      BY <3>1 DEF Sound, IsParsed, NodesAreParsed, Ids, BodyOf
  <2> HIDE DEF c
  <2>u. ~ LeftToTheRun(c, u)
    BY DEF c
  <2>1. u.field \in CheckedFields(c, u.node) =>
          Accepts(u.var, KnownTo(c, u.node), u.field # "until")
    BY <2>0 DEF Sound, TemplatesAreKnown
  <2>2. WellFormed(u.var)
    BY <2>1, <2>u DEF Accepts, LeftToTheRun, c
  <2>3. u.var.prefix \notin {"args", "env", "call"}
    BY <2>u DEF LeftToTheRun
  <2>4. u.var.prefix = "input" => u.var.node \in ctx.input
    BY <2>u DEF LeftToTheRun, ContextOf
  <2>5. u.var.prefix = "loop" => ctx.loop
    BY <2>u DEF LeftToTheRun, ContextOf
  <2>6. ASSUME u.var.prefix = "branch" PROVE u.var.name \in Rendered(ctx.branch)
    <3>1. u.node \in Node /\ u.field # "when" /\ u.var.name \in {"index", "key"}
      BY <2>0, <2>2, <2>6, <2>u DEF LeftToTheRun, WellFormed, BranchName
    <3>2. u.field # "until"
      <4>1. u.field = "until" => "until" \in CheckedFields(c, u.node)
        BY <2>0 DEF CheckedFields, Sound, IsParsed, NodesAreParsed
      <4>2. u.field \in CheckedFields(c, u.node) => u.field # "until"
        BY <2>1, <2>6 DEF Accepts
      <4> QED
        BY <4>1, <4>2
    <3>3. BranchOf(c, u.node) # NoBranch
      BY <2>0, <2>6, <3>1, <3>2 DEF Sound, BranchVariablesHaveABranch
    <3>4. ctx.branch = ItemOf(c, u.node, item)
      BY <3>1 DEF ContextOf
    <3>5. ItemOf(c, u.node, item) \in {ScalarItem, ObjectItem}
      <4>1. CASE IsDynamic(BranchOf(c, u.node))
        BY <3>1, <3>3, <4>1 DEF ItemOf
      <4>2. CASE ~ IsDynamic(BranchOf(c, u.node))
        BY <3>1, <3>3, <4>2 DEF ItemOf
      <4> QED
        BY <4>1, <4>2
    <3>6. \A i \in {ScalarItem, ObjectItem} : {"index", "key"} \subseteq Rendered(i)
      BY ItemsAssumption DEF Rendered
    <3> QED
      BY <3>1, <3>4, <3>5, <3>6
  <2> HIDE DEF ctx
  <2>7. Resolves(u.var, ctx)
    BY <2>2, <2>3, <2>4, <2>5, <2>6 DEF Resolves
  <2> QED
    BY <2>7 DEF ctx, c
<1> QED
  BY <1>1, LoaderHolds, PTL

-----------------------------------------------------------------------------
(* Sessions.                                                               *)

\* How many ids there are.
Ends == Cardinality(Id)

\* There are finitely many, and one at least when there is a node.
LEMMA EndsIsNat == Ends \in Nat /\ \A n \in Id : Ends \in 1 .. Ends
<1>1. IsFiniteSet(Id)
  BY NodeAssumption, BodyAssumption, FS_Union DEF Id
<1>2. Ends \in Nat
  BY <1>1, FS_CardinalityType DEF Ends
<1>3. Id # {} => Ends # 0
  BY <1>1, FS_EmptySet DEF Ends
<1> QED
  BY <1>2, <1>3

\* g begins with base and goes on as F says.
Grows(g, S, F, base, m) == /\ g = [k \in 1 .. m |-> IF k = 1 THEN base ELSE F[g[k - 1]]]
                           /\ \A k \in 1 .. m : g[k] \in S

\* A step of values can be repeated from 1 on.
LEMMA Growing ==
  ASSUME NEW S, NEW F \in [S -> S], NEW base \in S, NEW m \in Nat
  PROVE  \E g : Grows(g, S, F, base, m)
<1>1. PICK f : Repeats(f, S, F, base, m)
  BY Repeating
<1>2. f \in [0 .. m -> S] /\ f[0] = base /\ \A k \in 1 .. m : f[k] = F[f[k - 1]]
  BY <1>1 DEF Repeats
<1> DEFINE g == [k \in 1 .. m |-> f[k - 1]]
<1>3. \A k \in 1 .. m : g[k] = (IF k = 1 THEN base ELSE F[g[k - 1]]) /\ g[k] \in S
  <2> SUFFICES ASSUME NEW k \in 1 .. m
               PROVE  g[k] = (IF k = 1 THEN base ELSE F[g[k - 1]]) /\ g[k] \in S
    OBVIOUS
  <2>1. g[k] = f[k - 1] /\ k - 1 \in 0 .. m
    OBVIOUS
  <2>2. CASE k = 1
    BY <1>2, <2>1, <2>2
  <2>3. CASE k # 1
    <3>1. k - 1 \in 1 .. m
      BY <2>3
    <3>2. g[k - 1] = f[(k - 1) - 1]
      BY <3>1
    <3> QED
      BY <1>2, <2>1, <2>3, <3>1, <3>2
  <2> QED
    BY <2>2, <2>3
<1>4. g = [k \in 1 .. m |-> IF k = 1 THEN base ELSE F[g[k - 1]]]
  BY <1>3
<1> HIDE DEF g
<1> QED
  BY <1>3, <1>4 DEF Grows

\* A step up from a set of nodes.
ParentsOf(c, ns) == UNION {c.inputs[m] : m \in ns \cup UNION {LoopsOf(c, m) : m \in ns}}

\* The steps of Upstream.
Climbs(f, c, n) ==
  \A k \in 1 .. Ends : f[k] = IF k = 1 THEN ParentsOf(c, {n}) ELSE f[k - 1] \cup ParentsOf(c, f[k - 1])

\* The recursion of Upstream has a solution, so it computes it.
LEMMA UpstreamClimbs ==
  ASSUME NEW c, NodesAreParsed(c), NEW n \in Id
  PROVE  \E f : Climbs(f, c, n) /\ Upstream(c, n) = f[Ends]
<1> DEFINE F == [ns \in SUBSET Id |-> ns \cup ParentsOf(c, ns)]
           Step(x) == [k \in 1 .. Cardinality(Id) |->
                         IF k = 1 THEN ParentsOf(c, {n}) ELSE x[k - 1] \cup ParentsOf(c, x[k - 1])]
<1>1. \A ns \in SUBSET Id : ParentsOf(c, ns) \in SUBSET Id
  <2> SUFFICES ASSUME NEW ns \in SUBSET Id, NEW x \in ParentsOf(c, ns) PROVE x \in Id
    OBVIOUS
  <2>1. PICK m \in ns \cup UNION {LoopsOf(c, y) : y \in ns} : x \in c.inputs[m]
    BY DEF ParentsOf
  <2>2. m \in Id
    BY <2>1 DEF LoopsOf, Id
  <2> QED
    BY <2>1, <2>2 DEF NodesAreParsed
<1>2. F \in [SUBSET Id -> SUBSET Id] /\ ParentsOf(c, {n}) \in SUBSET Id
  BY <1>1
<1>3. \E x : x = Step(x)
  <2>1. \A ns \in SUBSET Id : F[ns] = ns \cup ParentsOf(c, ns)
    OBVIOUS
  <2> HIDE DEF F
  <2>g. PICK g : Grows(g, SUBSET Id, F, ParentsOf(c, {n}), Ends)
    BY <1>2, EndsIsNat, Growing
  <2>2. /\ g = [k \in 1 .. Ends |-> IF k = 1 THEN ParentsOf(c, {n}) ELSE F[g[k - 1]]]
        /\ \A k \in 1 .. Ends : g[k] \in SUBSET Id
    BY <2>g DEF Grows
  <2>n. \A k \in 1 .. Ends : k # 1 => k - 1 \in 1 .. Ends
    BY EndsIsNat
  <2>3. \A k \in 1 .. Ends : k # 1 => k - 1 \in 1 .. Ends /\ g[k - 1] \in SUBSET Id
    BY <2>2, <2>n
  <2>4. \A k \in 1 .. Ends : k # 1 => F[g[k - 1]] = g[k - 1] \cup ParentsOf(c, g[k - 1])
    BY <2>1, <2>3
  <2>5. g = [k \in 1 .. Ends |->
               IF k = 1 THEN ParentsOf(c, {n}) ELSE g[k - 1] \cup ParentsOf(c, g[k - 1])]
    BY <2>2, <2>4
  <2> QED
    BY <2>5 DEF Ends
<1> DEFINE f == CHOOSE x : x = Step(x)
<1>4. f = Step(f)
  <2> HIDE DEF Step
  <2> QED
    BY <1>3
<1>5. Upstream(c, n) = f[Ends]
  BY Zenon DEF Upstream, ParentsOf, Ends
<1> HIDE DEF f
<1>6. Climbs(f, c, n)
  BY <1>4 DEF Climbs, Ends
<1> QED
  BY <1>5, <1>6

\* The steps of PrecedesInBody.
Spreads(f, c, n) ==
  LET body == BodyOf(c, OnTop(c, n)) IN
  \A k \in 1 .. Ends :
     f[k] = IF k = 1 THEN c.inputs[n] \cap body
            ELSE f[k - 1] \cup ((UNION {c.inputs[x] : x \in f[k - 1]}) \cap body)

\* So does that of PrecedesInBody.
LEMMA PrecedesSpreads ==
  ASSUME NEW c, NodesAreParsed(c), NEW n \in Id
  PROVE  \E f : Spreads(f, c, n) /\ \A m : PrecedesInBody(c, m, n) <=> m \in f[Ends]
<1> DEFINE body == BodyOf(c, OnTop(c, n))
           F == [ns \in SUBSET Id |-> ns \cup ((UNION {c.inputs[x] : x \in ns}) \cap body)]
           Step(f) == [k \in 1 .. Cardinality(Id) |->
                         IF k = 1 THEN c.inputs[n] \cap body
                         ELSE f[k - 1] \cup ((UNION {c.inputs[x] : x \in f[k - 1]}) \cap body)]
<1>1. \A x \in Id : c.inputs[x] \in SUBSET Id
  BY DEF NodesAreParsed
<1>2. F \in [SUBSET Id -> SUBSET Id] /\ c.inputs[n] \cap body \in SUBSET Id
  <2> HIDE DEF body
  <2>1. \A ns \in SUBSET Id : ns \cup ((UNION {c.inputs[x] : x \in ns}) \cap body) \in SUBSET Id
    BY <1>1
  <2> QED
    BY <1>1, <2>1
<1>3. \E f : f = Step(f)
  <2> HIDE DEF body
  <2>1. \A ns \in SUBSET Id : F[ns] = ns \cup ((UNION {c.inputs[x] : x \in ns}) \cap body)
    OBVIOUS
  <2> HIDE DEF F
  <2>g. PICK g : Grows(g, SUBSET Id, F, c.inputs[n] \cap body, Ends)
    BY <1>2, EndsIsNat, Growing
  <2>2. /\ g = [k \in 1 .. Ends |-> IF k = 1 THEN c.inputs[n] \cap body ELSE F[g[k - 1]]]
        /\ \A k \in 1 .. Ends : g[k] \in SUBSET Id
    BY <2>g DEF Grows
  <2>n. \A k \in 1 .. Ends : k # 1 => k - 1 \in 1 .. Ends
    BY EndsIsNat
  <2>3. \A k \in 1 .. Ends : k # 1 => k - 1 \in 1 .. Ends /\ g[k - 1] \in SUBSET Id
    BY <2>2, <2>n
  <2>4. \A k \in 1 .. Ends : k # 1 =>
          F[g[k - 1]] = g[k - 1] \cup ((UNION {c.inputs[x] : x \in g[k - 1]}) \cap body)
    BY <2>1, <2>3
  <2>5. g = [k \in 1 .. Ends |->
               IF k = 1 THEN c.inputs[n] \cap body
               ELSE g[k - 1] \cup ((UNION {c.inputs[x] : x \in g[k - 1]}) \cap body)]
    BY <2>2, <2>4
  <2> QED
    BY <2>5 DEF Ends
<1> DEFINE f == CHOOSE x : x = Step(x)
<1>4. f = Step(f)
  <2> HIDE DEF Step
  <2> QED
    BY <1>3
<1>5. \A m : PrecedesInBody(c, m, n) <=> m \in f[Ends]
  BY Zenon DEF PrecedesInBody, Ends
<1> HIDE DEF f
<1>6. Spreads(f, c, n)
  <2> HIDE DEF body
  <2>1. \A k \in 1 .. Ends : f[k] = IF k = 1 THEN c.inputs[n] \cap body
                 ELSE f[k - 1] \cup ((UNION {c.inputs[x] : x \in f[k - 1]}) \cap body)
    BY <1>4 DEF Ends
  <2> QED
    BY <2>1 DEF Spreads, body
<1> QED
  BY <1>5, <1>6

\* Where the nodes of a sound config are, and where their inputs are.
LEMMA PlaceOf ==
  ASSUME NEW c, Sound(c)
  PROVE  /\ \A x \in Node : LoopsOf(c, x) = {} /\ OnTop(c, x) = x /\ c.inputs[x] \subseteq Node
         /\ \A l \in Node : \A x \in BodyOf(c, l) :
              /\ x \in BodyNode /\ x \notin Node /\ x \in Ids(c)
              /\ LoopsOf(c, x) = {l} /\ OnTop(c, x) = l
              /\ c.inputs[x] \subseteq BodyOf(c, l) \cup c.inputs[l]
         /\ \A x \in Ids(c) : x \in Node \/ \E l \in Node : x \in BodyOf(c, l)
<1>1. \A x \in Node : LoopsOf(c, x) = {} /\ OnTop(c, x) = x /\ c.inputs[x] \subseteq Node
  BY SoundIsWhole DEF OnTop
<1>2. ASSUME NEW l \in Node, NEW x \in BodyOf(c, l)
      PROVE  /\ x \in BodyNode /\ x \notin Node /\ x \in Ids(c)
             /\ LoopsOf(c, x) = {l} /\ OnTop(c, x) = l
             /\ c.inputs[x] \subseteq BodyOf(c, l) \cup c.inputs[l]
  <2>1. c.type[l] = "loop" /\ x \in c.body[l]
    BY <1>2 DEF BodyOf
  <2>2. x \in BodyNode /\ x \notin Node
    BY <2>1, IdsAreUsedOnce DEF Sound, IsParsed, NodesAreParsed
  <2>3. \A k \in Node : x \in BodyOf(c, k) => k = l
    BY <2>1 DEF BodyOf, Sound, IsParsed, NodesAreParsed
  <2>4. LoopsOf(c, x) = {l} /\ OnTop(c, x) = l
    BY <1>2, <2>2, <2>3 DEF LoopsOf, OnTop
  <2>5. c.inputs[x] \subseteq BodyOf(c, l) \cup c.inputs[l]
    BY <2>1 DEF Sound, LoopIsWhole, ForwardsInputs
  <2> QED
    BY <1>2, <2>2, <2>4, <2>5 DEF Ids
<1>3. \A x \in Ids(c) : x \in Node \/ \E l \in Node : x \in BodyOf(c, l)
  BY DEF Ids
<1> QED
  BY <1>1, <1>2, <1>3

\* What n waits for is of a lower level or precedes it in the body of its loop.
LEMMA UpstreamIsBefore ==
  ASSUME LoaderInv, verdict = "levels", NEW n \in Ids(config), NEW t \in Upstream(config, n)
  PROVE  \/ t \in Node /\ LevelOf(t) < LevelOf(OnTop(config, n))
         \/ /\ PrecedesInBody(config, t, n)
            /\ t \in BodyOf(config, OnTop(config, n)) /\ n \in BodyOf(config, OnTop(config, n))
<1> DEFINE c == config
           top == OnTop(c, n)
           body == BodyOf(c, top)
<1>0. /\ Sound(c) /\ GraphIsWhole /\ SortInv /\ Placed = Node
      /\ NodesAreParsed(c) /\ n \in Id
  <2>1. Sound(c) /\ GraphIsWhole /\ SortInv /\ Placed = Node
    BY LevelsAreOfALoad
  <2>2. NodesAreParsed(c)
    BY <2>1 DEF Sound, IsParsed
  <2>3. n \in Id
    BY <2>2 DEF Ids, Id, BodyOf, NodesAreParsed
  <2> QED
    BY <2>1, <2>2, <2>3
<1>1. \A m \in Node : \A y \in c.inputs[m] : y \in Node /\ LevelOf(y) < LevelOf(m)
  <2>1. \A m \in Node : c.inputs[m] \subseteq deps[m]
    BY DEF LoaderInv, Dependencies, GraphOf
  <2> QED
    BY <1>0, <2>1, DependsLater
<1>t. /\ top \in Node /\ LevelOf(top) \in Nat
      /\ n \in Node => top = n /\ n \notin body
      /\ n \notin Node => n \in body
      /\ LoopsOf(c, n) \subseteq {top}
      /\ \A m \in body : LoopsOf(c, m) = {top} /\ m \notin Node /\ c.inputs[m] \subseteq body \cup c.inputs[top]
      /\ c.inputs[n] \subseteq body \cup c.inputs[top]
  <2> HIDE DEF c
  <2>1. CASE n \in Node
    <3>1. top = n /\ LoopsOf(c, n) = {}
      BY <1>0, <2>1, PlaceOf
    <3> QED
      BY <1>0, <2>1, <3>1, PlaceOf, LevelOfIs
  <2>2. CASE n \notin Node
    <3>1. PICK l \in Node : n \in BodyOf(c, l)
      BY <1>0, <2>2, PlaceOf DEF c
    <3>2. top = l /\ LoopsOf(c, n) = {l}
      BY <1>0, <3>1, PlaceOf
    <3> QED
      BY <1>0, <2>2, <3>1, <3>2, PlaceOf, LevelOfIs
  <2> QED
    BY <2>1, <2>2
<1>2. PICK up : Climbs(up, c, n) /\ Upstream(c, n) = up[Ends]
  BY <1>0, UpstreamClimbs
<1>3. PICK near : Spreads(near, c, n) /\ \A m : PrecedesInBody(c, m, n) <=> m \in near[Ends]
  BY <1>0, PrecedesSpreads
<1>4. /\ \A k \in 1 .. Ends : k = 1 => near[k] = c.inputs[n] \cap body /\ up[k] = ParentsOf(c, {n})
      /\ \A k \in 1 .. Ends : k # 1 =>
           /\ near[k] = near[k - 1] \cup ((UNION {c.inputs[x] : x \in near[k - 1]}) \cap body)
           /\ up[k] = up[k - 1] \cup ParentsOf(c, up[k - 1])
  <2> HIDE DEF c
  <2> QED
    BY <1>2, <1>3 DEF Climbs, Spreads
<1>g. \A k \in 1 .. Ends : k # 1 => \A z \in near[k - 1] : z \in near[k] /\ c.inputs[z] \cap body \subseteq near[k]
  <2> SUFFICES ASSUME NEW k \in 1 .. Ends, k # 1, NEW z \in near[k - 1]
               PROVE  z \in near[k] /\ c.inputs[z] \cap body \subseteq near[k]
    OBVIOUS
  <2> HIDE DEF c, body
  <2>1. near[k] = near[k - 1] \cup ((UNION {c.inputs[x] : x \in near[k - 1]}) \cap body)
    BY <1>4
  <2> QED
    BY <2>1
<1> HIDE DEF c, top, body
<1> DEFINE Fits(y, k) == \/ y \in Node /\ LevelOf(y) < LevelOf(top)
                         \/ y \in body \cap near[k] /\ n \in body
           T == {k \in 0 .. Ends : k = 0 \/ \A y \in up[k] : Fits(y, k)}
<1>5. ASSUME NEW y \in c.inputs[top] PROVE y \in Node /\ LevelOf(y) < LevelOf(top)
  BY <1>1, <1>5, <1>t
<1>6. ASSUME NEW k \in 1 .. Ends, k - 1 \in T PROVE k \in T
  <2> SUFFICES ASSUME NEW y \in up[k] PROVE Fits(y, k)
    BY EndsIsNat
  <2>1. CASE k = 1
    <3>1. PICK m \in {n} \cup LoopsOf(c, n) : y \in c.inputs[m]
      <4>1. y \in ParentsOf(c, {n})
        BY <1>4, <2>1
      <4> QED
        BY <4>1 DEF ParentsOf
    <3>2. y \in c.inputs[top] \/ (y \in c.inputs[n] \cap body /\ n \in body)
      BY <1>t, <3>1
    <3> QED
      BY <1>4, <1>5, <2>1, <3>2
  <2>2. CASE k # 1
    <3>1. \A z \in up[k - 1] : Fits(z, k - 1)
      BY <1>6, <2>2
    <3>2. CASE y \in up[k - 1]
      BY <1>4, <2>2, <3>1, <3>2
    <3>3. CASE y \in ParentsOf(c, up[k - 1])
      <4>1. PICK z \in up[k - 1] : y \in c.inputs[z] \/ \E m \in LoopsOf(c, z) : y \in c.inputs[m]
        BY <3>3 DEF ParentsOf
      <4>2. CASE z \in Node /\ LevelOf(z) < LevelOf(top)
        <5>1. LoopsOf(c, z) = {}
          BY <1>0, <4>2, PlaceOf DEF c
        <5>2. y \in Node /\ LevelOf(y) < LevelOf(z)
          BY <1>1, <4>1, <4>2, <5>1
        <5>3. LevelOf(y) \in Nat /\ LevelOf(z) \in Nat
          BY <1>0, <4>2, <5>2, LevelOfIs
        <5> QED
          BY <1>t, <4>2, <5>2, <5>3
      <4>3. CASE z \in body \cap near[k - 1] /\ n \in body
        <5>1. y \in c.inputs[z] \/ y \in c.inputs[top]
          BY <1>t, <4>1, <4>3
        <5>2. y \in c.inputs[top] \/ (y \in body /\ y \in c.inputs[z])
          BY <1>t, <4>3, <5>1
        <5>3. y \in body /\ y \in c.inputs[z] => y \in near[k]
          BY <1>g, <2>2, <4>3
        <5> QED
          BY <1>5, <4>3, <5>2, <5>3
      <4> QED
        BY <3>1, <4>1, <4>2, <4>3
    <3> QED
      BY <1>4, <2>2, <3>2, <3>3
  <2> QED
    BY <2>1, <2>2
<1>7. 0 \in T
  BY EndsIsNat
<1>8. Ends \in T /\ Ends # 0
  <2> HIDE DEF T
  <2>1. \A k \in 0 .. Ends : k \in T
    BY <1>6, <1>7, EndsIsNat, Counting
  <2> QED
    BY <1>0, <2>1, EndsIsNat
<1>9. Fits(t, Ends)
  BY <1>2, <1>8 DEF c
<1> QED
  BY <1>3, <1>9 DEF c, top, body

\* A node that continues the session of another starts after it has ended, in the
\* same tree, on the same runtime and once per session (validateSessionGraph).
THEOREM SessionsStayContinued == Spec => []SessionCanBeContinued
<1>1. LoaderInv => SessionCanBeContinued
  <2> SUFFICES ASSUME LoaderInv, verdict = "levels",
                      NEW n \in {x \in Ids(config) : config.session[x] \in Id}
               PROVE  LET t == config.session[n]
                          own == BranchOf(config, n) other == BranchOf(config, t)
                          top == OnTop(config, n) before == OnTop(config, t) IN
                      /\ config.type[t] = "agent"
                      /\ IF top = before /\ n # top THEN PrecedesInBody(config, t, n)
                         ELSE LevelOf(before) < LevelOf(top)
                      /\ TreeOf(config, n) = TreeOf(config, t)
                      /\ Cascade(config, config.runtime, n) = Cascade(config, config.runtime, t)
                      /\ (own = NoBranch) = (other = NoBranch)
                      /\ own # NoBranch => own.name = other.name \/ IsDynamic(own) \/ IsDynamic(other)
    BY DEF SessionCanBeContinued
  <2> DEFINE c == config
             t == c.session[n]
             top == OnTop(c, n)
             before == OnTop(c, t)
  <2>1. Sound(c) /\ SortInv /\ Placed = Node /\ SessionIsContinuable(c, n, t) /\ n \in Ids(c)
    BY LevelsAreOfALoad DEF Sound, MergedIsValid
  <2>2. TreeOf(c, n) = <<"run">> /\ TreeOf(c, t) = <<"run">>
    BY <2>1 DEF SessionIsContinuable, OwnTree, TreeOf
  <2>3. IF top = before /\ n # top THEN PrecedesInBody(c, t, n) ELSE LevelOf(before) < LevelOf(top)
    <3>1. t \in Upstream(c, n)
      BY <2>1 DEF SessionIsContinuable
    <3>2. CASE t \in Node /\ LevelOf(t) < LevelOf(top)
      <4>1. before = t
        BY <2>1, <3>2, PlaceOf
      <4>2. before # top
        BY <2>1, <3>2, <4>1, LevelOfIs
      <4> QED
        BY <3>2, <4>1, <4>2
    <3>3. CASE PrecedesInBody(c, t, n) /\ t \in BodyOf(c, top) /\ n \in BodyOf(c, top)
      <4>1. top \in Node
        <5>1. n \in Node => top = n
          BY <2>1, PlaceOf
        <5>2. n \notin Node => \E l \in Node : n \in BodyOf(c, l) /\ top = l
          BY <2>1, PlaceOf
        <5> QED
          BY <5>1, <5>2
      <4>2. before = top /\ n # top
        BY <2>1, <3>3, <4>1, PlaceOf
      <4> QED
        BY <3>3, <4>2
    <3> HIDE DEF c, t, top, before
    <3>4. \/ t \in Node /\ LevelOf(t) < LevelOf(top)
          \/ PrecedesInBody(c, t, n) /\ t \in BodyOf(c, top) /\ n \in BodyOf(c, top)
      BY <2>1, <3>1, UpstreamIsBefore DEF c, top
    <3> QED
      BY <3>2, <3>3, <3>4
  <2>4. /\ c.type[t] = "agent"
        /\ Cascade(c, c.runtime, n) = Cascade(c, c.runtime, t)
        /\ BranchOf(c, n) = NoBranch <=> BranchOf(c, t) = NoBranch
        /\ BranchOf(c, n) # NoBranch =>
              \/ IsDynamic(BranchOf(c, n)) \/ IsDynamic(BranchOf(c, t))
              \/ BranchOf(c, n).name = BranchOf(c, t).name
    BY <2>1 DEF SessionIsContinuable
  <2> QED
    BY <2>2, <2>3, <2>4
<1> QED
  BY <1>1, LoaderHolds, PTL

-----------------------------------------------------------------------------
(* What a pattern matches.                                                 *)

\* The steps of Matches: where in s the first k letters of p can end.
Reaches(f, p, s) ==
  /\ f \in [0 .. Len(p) -> SUBSET (1 .. Len(s) + 1)]
  /\ f[0] = {1}
  /\ \A k \in 1 .. Len(p) :
        f[k] = {e \in 1 .. Len(s) + 1 : \E j \in f[k - 1] : Takes(p, k, s, j, e)}

\* The recursion of Matches has a solution, so it computes it.
LEMMA MatchesReaches ==
  ASSUME NEW p, Len(p) \in Nat, NEW s, Len(s) \in Nat
  PROVE  \E f : Reaches(f, p, s) /\ (Matches(p, s) <=> Len(s) + 1 \in f[Len(p)])
<1> DEFINE Place == 1 .. Len(s) + 1
           After(i, js) == {e \in Place : \E j \in js : Takes(p, i, s, j, e)}
           F == [i \in 1 .. Len(p) |-> [js \in SUBSET Place |-> After(i, js)]]
           Step(x) == [i \in 0 .. Len(p) |-> IF i = 0 THEN {1} ELSE After(i, x[i - 1])]
<1>1. F \in [1 .. Len(p) -> [SUBSET Place -> SUBSET Place]] /\ {1} \in SUBSET Place
  <2>1. \A i \in 1 .. Len(p) : \A js \in SUBSET Place : After(i, js) \in SUBSET Place
    OBVIOUS
  <2> HIDE DEF After
  <2> QED
    BY <2>1
<1>2. PICK f \in [0 .. Len(p) -> SUBSET Place] :
        f[0] = {1} /\ \A k \in 1 .. Len(p) : f[k] = F[k][f[k - 1]]
  <2> HIDE DEF F, Place
  <2>1. \E f : Runs(f, SUBSET Place, F, {1}, Len(p))
    BY <1>1, Running
  <2> QED
    BY <2>1 DEF Runs
<1>3. \A k \in 1 .. Len(p) : f[k] = After(k, f[k - 1])
  <2>1. \A k \in 1 .. Len(p) : f[k - 1] \in SUBSET Place
    <3> HIDE DEF Place
    <3> QED
      OBVIOUS
  <2>2. \A k \in 1 .. Len(p) : \A js \in SUBSET Place : F[k][js] = After(k, js)
    <3> HIDE DEF Place, After
    <3> QED
      OBVIOUS
  <2> HIDE DEF F, Place, After
  <2> QED
    BY <1>2, <2>1, <2>2
<1>4. Reaches(f, p, s)
  BY <1>2, <1>3 DEF Reaches
<1>5. f = Step(f)
  <2>1. \A k \in 0 .. Len(p) : f[k] = IF k = 0 THEN {1} ELSE After(k, f[k - 1])
    BY <1>2, <1>3
  <2> HIDE DEF After
  <2> QED
    BY <2>1
<1> DEFINE g == CHOOSE x : x = Step(x)
<1>6. g = Step(g)
  <2> HIDE DEF Step
  <2> QED
    BY <1>5
<1>7. Matches(p, s) <=> Len(s) + 1 \in g[Len(p)]
  BY Zenon DEF Matches
<1> HIDE DEF g, After
<1>8. \A k \in 0 .. Len(p) : g[k] = f[k]
  <2>1. \A k \in 0 .. Len(p) : g[k] = IF k = 0 THEN {1} ELSE After(k, g[k - 1])
    BY <1>6
  <2> DEFINE T == {k \in 0 .. Len(p) : g[k] = f[k]}
  <2>2. 0 \in T
    <3>1. 0 \in 0 .. Len(p) /\ g[0] = {1}
      BY <2>1
    <3> QED
      BY <1>2, <3>1
  <2>3. ASSUME NEW k \in 1 .. Len(p), k - 1 \in T PROVE k \in T
    BY <1>3, <2>1, <2>3
  <2> HIDE DEF T
  <2>4. \A k \in 0 .. Len(p) : k \in T
    BY <2>2, <2>3, Counting
  <2> QED
    BY <2>4 DEF T
<1> QED
  BY <1>4, <1>7, <1>8

\* s cut into the parts that the letters of p take.
IsCut(cut, p, s) ==
  /\ cut \in [0 .. Len(p) -> 1 .. Len(s) + 1]
  /\ cut[0] = 1 /\ cut[Len(p)] = Len(s) + 1
  /\ \A k \in 1 .. Len(p) : Takes(p, k, s, cut[k - 1], cut[k])

\* A pattern matches what can be cut into such parts.
LEMMA MatchesIsCut ==
  ASSUME NEW p, Len(p) \in Nat, NEW s, Len(s) \in Nat
  PROVE  Matches(p, s) <=> \E cut : IsCut(cut, p, s)
<1>1. PICK f : Reaches(f, p, s) /\ (Matches(p, s) <=> Len(s) + 1 \in f[Len(p)])
  BY MatchesReaches
<1>2. /\ f \in [0 .. Len(p) -> SUBSET (1 .. Len(s) + 1)] /\ f[0] = {1}
      /\ \A k \in 1 .. Len(p) :
           f[k] = {e \in 1 .. Len(s) + 1 : \E j \in f[k - 1] : Takes(p, k, s, j, e)}
  BY <1>1 DEF Reaches
<1>3. ASSUME NEW cut, IsCut(cut, p, s) PROVE Matches(p, s)
  <2> DEFINE T == {k \in 0 .. Len(p) : cut[k] \in f[k]}
  <2>1. 0 \in T
    BY <1>2, <1>3 DEF IsCut
  <2>2. ASSUME NEW k \in 1 .. Len(p), k - 1 \in T PROVE k \in T
    <3>1. cut[k - 1] \in f[k - 1] /\ cut[k] \in 1 .. Len(s) + 1
      BY <1>3, <2>2 DEF IsCut
    <3>2. Takes(p, k, s, cut[k - 1], cut[k])
      BY <1>3 DEF IsCut
    <3> QED
      BY <1>2, <3>1, <3>2
  <2> HIDE DEF T
  <2>3. \A k \in 0 .. Len(p) : k \in T
    BY <2>1, <2>2, Counting
  <2> QED
    BY <1>1, <1>3, <2>3 DEF T, IsCut
<1>4. ASSUME Matches(p, s) PROVE \E cut : IsCut(cut, p, s)
  <2> DEFINE Upto(cut, k) == /\ cut \in [0 .. k -> 1 .. Len(s) + 1] /\ cut[0] = 1
                             /\ \A i \in 1 .. k : Takes(p, i, s, cut[i - 1], cut[i])
             T == {k \in 0 .. Len(p) : \A e \in f[k] : \E cut : Upto(cut, k) /\ cut[k] = e}
  <2>1. 0 \in T
    <3> DEFINE cut == [k \in 0 .. 0 |-> 1]
    <3>1. cut \in [0 .. 0 -> 1 .. Len(s) + 1] /\ cut[0] = 1
      OBVIOUS
    <3>2. \A i \in 1 .. 0 : FALSE
      OBVIOUS
    <3> HIDE DEF cut
    <3>3. Upto(cut, 0)
      BY <3>1, <3>2
    <3> QED
      BY <1>2, <3>1, <3>3
  <2>2. ASSUME NEW k \in 1 .. Len(p), k - 1 \in T PROVE k \in T
    <3> SUFFICES ASSUME NEW e \in f[k] PROVE \E cut : Upto(cut, k) /\ cut[k] = e
      <4> HIDE DEF Upto
      <4> QED
        OBVIOUS
    <3>1. PICK j \in f[k - 1] : Takes(p, k, s, j, e) /\ e \in 1 .. Len(s) + 1
      BY <1>2
    <3>2. PICK old : Upto(old, k - 1) /\ old[k - 1] = j
      BY <2>2
    <3> DEFINE cut == [i \in 0 .. k |-> IF i = k THEN e ELSE old[i]]
    <3>3. cut \in [0 .. k -> 1 .. Len(s) + 1] /\ cut[0] = 1
      BY <3>1, <3>2
    <3>4. ASSUME NEW i \in 1 .. k PROVE Takes(p, i, s, cut[i - 1], cut[i])
      <4>1. CASE i = k
        BY <3>1, <3>2, <4>1
      <4>2. CASE i # k
        <5>1. i \in 1 .. k - 1
          BY <4>2
        <5> QED
          BY <3>2, <5>1
      <4> QED
        BY <4>1, <4>2
    <3>5. cut[k] = e
      OBVIOUS
    <3> HIDE DEF cut
    <3> QED
      BY <3>3, <3>4, <3>5
  <2> HIDE DEF T
  <2>3. Len(p) \in T
    <3>1. \A k \in 0 .. Len(p) : k \in T
      BY <2>1, <2>2, Counting
    <3> QED
      BY <3>1
  <2>4. PICK cut : Upto(cut, Len(p)) /\ cut[Len(p)] = Len(s) + 1
    BY <1>1, <1>4, <2>3 DEF T
  <2> QED
    BY <2>4 DEF IsCut
<1> QED
  BY <1>3, <1>4

-----------------------------------------------------------------------------
(* The text of a pattern, and what its segments match.                     *)

\* What texts are made of.
Letter == STRING \cup {"/"}

\* The steps of Text: the text of the last k segments.
Rests(f, segments) ==
  /\ f \in [0 .. Len(segments) -> Seq(Letter)]
  /\ \A k \in 1 .. Len(segments) :
        f[k] = IF k = 1 THEN segments[Len(segments)]
               ELSE segments[Len(segments) + 1 - k] \o <<"/">> \o f[k - 1]

\* The recursion of Text has a solution, so it computes it.
LEMMA TextRests ==
  ASSUME NEW segments \in Seq(Seq(Letter))
  PROVE  \E f : Rests(f, segments) /\ Text(segments) = f[Len(segments)]
<1> DEFINE L == Len(segments)
           Joined(k, t) == segments[L + 1 - k] \o <<"/">> \o t
           F == [k \in 1 .. L |-> [t \in Seq(Letter) |-> IF k = 1 THEN segments[L] ELSE Joined(k, t)]]
           Step(x) == [k \in 0 .. L |->
             CASE k = 0 -> <<>> [] k = 1 -> segments[L] [] OTHER -> Joined(k, x[k - 1])]
<1>1. L \in Nat /\ \A k \in 1 .. L : L + 1 - k \in 1 .. L /\ L \in 1 .. L
  <2>1. L \in Nat
    OBVIOUS
  <2> HIDE DEF L
  <2> QED
    BY <2>1
<1>2. /\ \A k \in 1 .. L : segments[L] \in Seq(Letter)
      /\ \A k \in 1 .. L : \A t \in Seq(Letter) : Joined(k, t) \in Seq(Letter)
  <2>1. \A k \in 1 .. L : segments[k] \in Seq(Letter)
    BY ElementOfSeq
  <2>2. <<"/">> \in Seq(Letter)
    <3>1. "/" \in Letter
      BY DEF Letter
    <3>2. \A S : \A x \in S : <<x>> \in Seq(S)
      OBVIOUS
    <3> QED
      BY <3>1, <3>2
  <2> HIDE DEF L
  <2> QED
    BY <1>1, <2>1, <2>2
<1> HIDE DEF L, Joined
<1>3. F \in [1 .. L -> [Seq(Letter) -> Seq(Letter)]] /\ <<>> \in Seq(Letter)
  BY <1>2
<1>4. PICK f : Runs(f, Seq(Letter), F, <<>>, L)
  <2> HIDE DEF F
  <2> QED
    BY <1>1, <1>3, Running
<1>5. /\ f \in [0 .. L -> Seq(Letter)] /\ f[0] = <<>>
      /\ \A k \in 1 .. L : k - 1 \in 0 .. L /\ f[k] = IF k = 1 THEN segments[L] ELSE Joined(k, f[k - 1])
  <2>1. f \in [0 .. L -> Seq(Letter)] /\ f[0] = <<>> /\ \A k \in 1 .. L : f[k] = F[k][f[k - 1]]
    BY <1>4 DEF Runs
  <2>2. \A k \in 1 .. L : k - 1 \in 0 .. L
    BY <1>1
  <2>3. \A k \in 1 .. L : \A t \in Seq(Letter) :
          F[k][t] = IF k = 1 THEN segments[L] ELSE Joined(k, t)
    OBVIOUS
  <2> HIDE DEF F
  <2> QED
    BY <2>1, <2>2, <2>3
<1>6. f = Step(f)
  <2>1. \A k \in 0 .. L : f[k] =
          CASE k = 0 -> <<>> [] k = 1 -> segments[L] [] OTHER -> Joined(k, f[k - 1])
    BY <1>1, <1>5
  <2> QED
    BY <1>5, <2>1
<1> DEFINE g == CHOOSE x : x = Step(x)
<1>7. g = Step(g)
  <2> HIDE DEF Step
  <2> QED
    BY <1>6
<1>8. Text(segments) = g[Len(segments)]
  BY Zenon DEF Text, Joined, L
<1> HIDE DEF g
<1>9. \A k \in 0 .. L : g[k] = f[k]
  <2>1. \A k \in 0 .. L : g[k] =
          CASE k = 0 -> <<>> [] k = 1 -> segments[L] [] OTHER -> Joined(k, g[k - 1])
    BY <1>7
  <2>2. g[0] = <<>> /\ \A k \in 1 .. L : g[k] = IF k = 1 THEN segments[L] ELSE Joined(k, g[k - 1])
    BY <1>1, <2>1
  <2> DEFINE T == {k \in 0 .. L : g[k] = f[k]}
  <2>3. 0 \in T
    BY <1>1, <1>5, <2>2
  <2>4. ASSUME NEW k \in 1 .. L, k - 1 \in T PROVE k \in T
    <3>1. g[k - 1] = f[k - 1]
      BY <2>4
    <3>2. /\ f[k] = IF k = 1 THEN segments[L] ELSE Joined(k, f[k - 1])
          /\ g[k] = IF k = 1 THEN segments[L] ELSE Joined(k, g[k - 1])
      BY <1>5, <2>2
    <3>3. k \in 0 .. L
      BY <1>1
    <3> QED
      BY <3>1, <3>2, <3>3
  <2> HIDE DEF T
  <2>5. \A k \in 0 .. L : k \in T
    BY <1>1, <2>3, <2>4, Counting
  <2> QED
    BY <2>5 DEF T
<1>10. Rests(f, segments) /\ g[L] = f[L]
  <2>1. \A k \in 1 .. L : f[k] = IF k = 1 THEN segments[L] ELSE Joined(k, f[k - 1])
    BY <1>5
  <2>2. \A k, t : Joined(k, t) = segments[Len(segments) + 1 - k] \o <<"/">> \o t
    BY Zenon DEF Joined, L
  <2>3. Rests(f, segments)
    BY Zenon, <1>5, <2>1, <2>2 DEF Rests, L
  <2>4. L \in 0 .. L
    BY <1>1
  <2> QED
    BY <1>9, <2>3, <2>4
<1> QED
  BY <1>8, <1>10 DEF L

\* r is what follows the first u letters of t.
EndsAs(t, u, r) == u \in Nat /\ Len(t) = u + Len(r) /\ \A m \in 1 .. Len(r) : t[u + m] = r[m]

\* What follows the first x segments begins with one more, and ends there or goes on.
LEMMA BeginsWith ==
  ASSUME NEW segments \in Seq(Seq(Letter)), NEW f, Rests(f, segments), NEW t,
         NEW x \in 0 .. Len(segments) - 1, NEW u, EndsAs(t, u, f[Len(segments) - x]),
         NEW a, a = segments[x + 1]
  PROVE  /\ Len(a) \in Nat /\ \A m \in 1 .. Len(a) : t[u + m] = a[m]
         /\ \/ x + 1 = Len(segments) /\ Len(t) = u + Len(a)
            \/ /\ x + 1 < Len(segments) /\ u + Len(a) + 1 <= Len(t)
               /\ t[u + Len(a) + 1] = "/"
               /\ EndsAs(t, u + Len(a) + 1, f[Len(segments) - (x + 1)])
<1> DEFINE k == Len(segments) - x
<1>0. Len(segments) \in Nat /\ x \in Nat /\ x + 1 \in 1 .. Len(segments)
  OBVIOUS
<1>1. k \in 1 .. Len(segments) /\ k - 1 \in 0 .. Len(segments) /\ Len(segments) + 1 - k = x + 1
  BY <1>0
<1>2. a \in Seq(Letter) /\ Len(a) \in Nat
  <2>1. a \in Seq(Letter)
    BY <1>0, ElementOfSeq
  <2> QED
    BY <2>1
<1>3. CASE k = 1
  <2>1. f[k] = segments[Len(segments)] /\ x + 1 = Len(segments)
    BY <1>0, <1>1, <1>3 DEF Rests
  <2>2. f[k] = a
    BY <2>1
  <2> QED
    BY <1>2, <2>1, <2>2 DEF EndsAs
<1>4. CASE k # 1
  <2> DEFINE r == f[k - 1]
  <2>1. f[k] = a \o <<"/">> \o r
    BY <1>1, <1>4 DEF Rests
  <2>2. r \in Seq(Letter) /\ Len(r) \in Nat
    <3>1. r \in Seq(Letter)
      BY <1>1 DEF Rests
    <3> QED
      BY <3>1
  <2> HIDE DEF r
  <2>3. <<"/">> \in Seq(Letter)
    <3>1. "/" \in Letter
      BY DEF Letter
    <3> QED
      BY <3>1
  <2>4. /\ a \o <<"/">> \in Seq(Letter) /\ Len(a \o <<"/">>) = Len(a) + 1
        /\ \A m \in 1 .. Len(a) : (a \o <<"/">>)[m] = a[m]
        /\ (a \o <<"/">>)[Len(a) + 1] = "/"
    BY <1>2, <2>3
  <2> DEFINE b == a \o <<"/">>
  <2> HIDE DEF b
  <2>5. /\ Len(b \o r) = Len(b) + Len(r)
        /\ \A m \in 1 .. Len(b) : (b \o r)[m] = b[m]
        /\ \A m \in 1 .. Len(r) : (b \o r)[Len(b) + m] = r[m]
    <3>1. b \in Seq(Letter)
      BY <2>4 DEF b
    <3> QED
      BY <2>2, <3>1
  <2>l. Len(b \o r) = Len(a) + 1 + Len(r) /\ Len(b \o r) \in Nat
    BY <1>2, <2>2, <2>4, <2>5 DEF b
  <2>6. Len(b) = Len(a) + 1 /\ b[Len(a) + 1] = "/" /\ \A m \in 1 .. Len(a) : b[m] = a[m]
    BY <2>4 DEF b
  <2>7. u \in Nat /\ Len(t) = u + Len(b \o r) /\ \A m \in 1 .. Len(b \o r) : t[u + m] = (b \o r)[m]
    BY <2>1 DEF EndsAs, b
  <2>8. \A m \in 1 .. Len(a) : t[u + m] = a[m]
    <3>1. \A m \in 1 .. Len(a) : m \in 1 .. Len(b) /\ m \in 1 .. Len(b \o r)
      BY <1>2, <2>2, <2>l, <2>6
    <3> QED
      BY <2>5, <2>6, <2>7, <3>1
  <2>9. t[u + Len(a) + 1] = "/"
    <3>1. Len(a) + 1 \in 1 .. Len(b) /\ Len(a) + 1 \in 1 .. Len(b \o r)
      <4> HIDE DEF k
      <4> QED
        BY <1>2, <2>2, <2>l, <2>6
    <3>2. u + (Len(a) + 1) = u + Len(a) + 1
      BY <1>2, <2>7
    <3> QED
      BY <2>5, <2>6, <2>7, <3>1, <3>2
  <2>10. EndsAs(t, u + Len(a) + 1, r)
    <3>1. Len(t) = (u + Len(a) + 1) + Len(r) /\ u + Len(a) + 1 \in Nat
      BY <1>2, <2>2, <2>l, <2>7
    <3>2. ASSUME NEW m \in 1 .. Len(r) PROVE t[u + Len(a) + 1 + m] = r[m]
      <4>1. Len(b) + m \in 1 .. Len(b \o r) /\ u + (Len(b) + m) = u + Len(a) + 1 + m
        BY <1>2, <2>2, <2>l, <2>6, <2>7
      <4> QED
        BY <2>5, <2>7, <4>1
    <3> QED
      BY Zenon, <3>1, <3>2 DEF EndsAs
  <2>11. x + 1 < Len(segments) /\ u + Len(a) + 1 <= Len(t) /\ Len(segments) - (x + 1) = k - 1
    <3>1. x + 1 < Len(segments) /\ Len(segments) - (x + 1) = k - 1
      BY <1>0, <1>4
    <3>2. u + Len(a) + 1 <= Len(t)
      BY <1>2, <2>2, <2>5, <2>6, <2>7
    <3> QED
      BY <3>1, <3>2
  <2>12. f[Len(segments) - (x + 1)] = r
    BY <2>11 DEF r
  <2> QED
    BY <1>2, <2>8, <2>9, <2>10, <2>11, <2>12
<1> QED
  BY <1>3, <1>4

\* a stands in t after its first u letters, and t ends there or goes on with a "/".
Stands(t, u, a) ==
  /\ u \in Nat /\ Len(a) \in Nat /\ u + Len(a) <= Len(t)
  /\ \A m \in 1 .. Len(a) : t[u + m] = a[m] /\ a[m] # "/"
  /\ Len(t) = u + Len(a) \/ (u + Len(a) + 1 <= Len(t) /\ t[u + Len(a) + 1] = "/")

WithoutStars(a) == \A m \in 1 .. Len(a) : a[m] # "**"

\* What a segment without "**" takes has no "/".
LEMMA SegmentTakes ==
  ASSUME NEW tp, Len(tp) \in Nat, NEW tt, Len(tt) \in Nat, NEW cut, IsCut(cut, tp, tt),
         NEW u, NEW a, Stands(tp, u, a), WithoutStars(a), NEW v \in Nat, cut[u] = v + 1
  PROVE  \A k \in 0 .. Len(a) : /\ cut[u + k] \in v + 1 .. Len(tt) + 1
                                /\ \A x \in v + 1 .. cut[u + k] - 1 : tt[x] # "/"
<1> DEFINE T == {k \in 0 .. Len(a) : /\ cut[u + k] \in v + 1 .. Len(tt) + 1
                                     /\ \A x \in v + 1 .. cut[u + k] - 1 : tt[x] # "/"}
<1>0. u \in Nat /\ Len(a) \in Nat /\ u + Len(a) <= Len(tp)
  BY DEF Stands
<1>c. \A k \in 0 .. Len(tp) : cut[k] \in 1 .. Len(tt) + 1
  BY DEF IsCut
<1>1. 0 \in T
  <2>1. u + 0 = u /\ u \in 0 .. Len(tp) /\ 0 \in 0 .. Len(a)
    BY <1>0
  <2>2. cut[u] \in v + 1 .. Len(tt) + 1 /\ \A x \in v + 1 .. cut[u] - 1 : FALSE
    BY <1>c, <2>1
  <2> QED
    BY <2>1, <2>2
<1>2. ASSUME NEW k \in 1 .. Len(a), k - 1 \in T PROVE k \in T
  <2> DEFINE i == u + k
             j == cut[u + (k - 1)]
             e == cut[i]
  <2>1. i \in 1 .. Len(tp) /\ i - 1 = u + (k - 1) /\ i - 1 \in 0 .. Len(tp) /\ i \in 0 .. Len(tp)
    BY <1>0
  <2>2. j \in v + 1 .. Len(tt) + 1 /\ e \in 1 .. Len(tt) + 1 /\ \A x \in v + 1 .. j - 1 : tt[x] # "/"
    BY <1>2, <1>c, <2>1
  <2>3. Takes(tp, i, tt, j, e)
    BY <2>1 DEF IsCut
  <2>4. tp[i] = a[k] /\ a[k] # "/" /\ a[k] # "**"
    BY DEF Stands, WithoutStars
  <2> HIDE DEF i, j, e
  <2>5. j <= e /\ \A x \in j .. e - 1 : tt[x] # "/"
    <3>1. j <= e
      BY <2>3 DEF Takes
    <3>2. CASE tp[i] = "*"
      BY <2>3, <2>4, <3>1, <3>2 DEF Takes
    <3>3. CASE tp[i] = "?"
      <4>1. e = j + 1 /\ tt[j] # "/"
        BY <2>3, <2>4, <3>3 DEF Takes
      <4> QED
        BY <2>2, <4>1
    <3>4. CASE tp[i] \notin {"*", "?"}
      <4>1. e = j + 1 /\ tt[j] = tp[i]
        BY <2>3, <2>4, <3>4 DEF Takes
      <4> QED
        BY <2>2, <2>4, <4>1
    <3> QED
      BY <3>2, <3>3, <3>4
  <2>6. e \in v + 1 .. Len(tt) + 1 /\ \A x \in v + 1 .. e - 1 : tt[x] # "/"
    BY <2>2, <2>5
  <2> QED
    BY <2>6 DEF e, i
<1> HIDE DEF T
<1>3. \A k \in 0 .. Len(a) : k \in T
  BY <1>0, <1>1, <1>2, Counting
<1> QED
  BY <1>3 DEF T

\* So it takes a segment of the text as a whole, and the two "/" meet.
LEMMA SegmentMeets ==
  ASSUME NEW tp, Len(tp) \in Nat, NEW tt, Len(tt) \in Nat, NEW cut, IsCut(cut, tp, tt),
         NEW u, NEW a, Stands(tp, u, a), WithoutStars(a), u = 0 \/ tp[u] = "/",
         NEW v, NEW b, Stands(tt, v, b), cut[u] = v + 1
  PROVE  /\ cut[u + Len(a)] = v + Len(b) + 1
         /\ Len(tp) # u + Len(a) => Len(tt) # v + Len(b) /\ cut[u + Len(a) + 1] = v + Len(b) + 2
<1> DEFINE i == u + Len(a)
           e == cut[i]
<1>0. /\ u \in Nat /\ v \in Nat /\ Len(a) \in Nat /\ Len(b) \in Nat
      /\ i \in 0 .. Len(tp) /\ v + Len(b) <= Len(tt)
  BY DEF Stands
<1>1. e \in v + 1 .. Len(tt) + 1 /\ \A x \in v + 1 .. e - 1 : tt[x] # "/"
  <2>1. Len(a) \in 0 .. Len(a)
    BY <1>0
  <2> QED
    BY <1>0, <2>1, SegmentTakes
<1>2. \A x \in v + 1 .. v + Len(b) : tt[x] # "/"
  <2> SUFFICES ASSUME NEW x \in v + 1 .. v + Len(b) PROVE tt[x] # "/"
    OBVIOUS
  <2>1. x - v \in 1 .. Len(b) /\ v + (x - v) = x
    BY <1>0
  <2>2. tt[v + (x - v)] = b[x - v] /\ b[x - v] # "/"
    BY <2>1 DEF Stands
  <2> QED
    BY <2>1, <2>2
<1>3. Len(tt) = v + Len(b) \/ (v + Len(b) + 1 <= Len(tt) /\ tt[v + Len(b) + 1] = "/")
  BY DEF Stands
<1>4. CASE Len(tp) = i
  <2>1. e = Len(tt) + 1
    BY <1>4 DEF IsCut
  <2>2. Len(tt) = v + Len(b)
    <3> SUFFICES ASSUME v + Len(b) + 1 <= Len(tt), tt[v + Len(b) + 1] = "/" PROVE FALSE
      BY <1>3
    <3>1. v + Len(b) + 1 \in v + 1 .. e - 1
      BY <1>0, <2>1
    <3> QED
      BY <1>1, <3>1
  <2> QED
    BY <1>0, <1>4, <2>1, <2>2
<1>5. CASE Len(tp) # i
  <2>1. i + 1 \in 1 .. Len(tp) /\ tp[i + 1] = "/" /\ (i + 1) - 1 = i
    <3>1. u + Len(a) + 1 <= Len(tp) /\ tp[u + Len(a) + 1] = "/"
      BY <1>5 DEF Stands
    <3> QED
      BY <1>0, <3>1
  <2>2. Takes(tp, i + 1, tt, e, cut[i + 1]) /\ cut[i + 1] \in 1 .. Len(tt) + 1
    <3>1. i + 1 \in 0 .. Len(tp)
      BY <2>1
    <3> QED
      BY <2>1, <3>1 DEF IsCut
  <2>3. i + 1 > 1 => tp[i] # "**"
    <3>1. CASE Len(a) = 0
      BY <1>0, <3>1
    <3>2. CASE Len(a) # 0
      <4>1. Len(a) \in 1 .. Len(a)
        BY <1>0, <3>2
      <4> QED
        BY <4>1 DEF Stands, WithoutStars
    <3> QED
      BY <3>1, <3>2
  <2> HIDE DEF i, e
  <2>4. cut[i + 1] = e + 1 /\ tt[e] = "/"
    BY <1>0, <2>1, <2>2, <2>3 DEF Takes
  <2>5. ~ (e \in v + 1 .. v + Len(b))
    BY <1>2, <2>4
  <2>6. ~ (e > v + Len(b) + 1)
    <3> SUFFICES ASSUME e > v + Len(b) + 1 PROVE FALSE
      OBVIOUS
    <3>1. e <= Len(tt)
      BY <1>1, <2>2, <2>4
    <3>2. v + Len(b) + 1 <= Len(tt) /\ tt[v + Len(b) + 1] = "/"
      BY <1>0, <1>1, <1>3, <3>1
    <3>3. v + Len(b) + 1 \in v + 1 .. e - 1
      BY <1>0, <1>1
    <3> QED
      BY <1>1, <3>2, <3>3
  <2>7. e = v + Len(b) + 1
    BY <1>0, <1>1, <2>5, <2>6
  <2>8. e + 1 = v + Len(b) + 2 /\ Len(tt) # v + Len(b)
    BY <1>0, <1>1, <2>2, <2>4, <2>7
  <2> QED
    BY <2>4, <2>7, <2>8 DEF i, e
<1> QED
  BY <1>4, <1>5

\* And matches it.
LEMMA SegmentMatches ==
  ASSUME NEW tp, Len(tp) \in Nat, NEW tt, Len(tt) \in Nat, NEW cut, IsCut(cut, tp, tt),
         NEW u, NEW a, Stands(tp, u, a), WithoutStars(a), u = 0 \/ tp[u] = "/",
         NEW v, NEW b, Stands(tt, v, b), cut[u] = v + 1
  PROVE  Matches(a, b)
<1> DEFINE c == [k \in 0 .. Len(a) |-> cut[u + k] - v]
<1>0. /\ u \in Nat /\ v \in Nat /\ Len(a) \in Nat /\ Len(b) \in Nat
      /\ u + Len(a) <= Len(tp) /\ v + Len(b) <= Len(tt)
  BY DEF Stands
<1>1. \A k \in 0 .. Len(a) : cut[u + k] \in v + 1 .. Len(tt) + 1
  BY <1>0, SegmentTakes
<1>2. cut[u + Len(a)] = v + Len(b) + 1
  BY SegmentMeets
<1>3. \A k \in 1 .. Len(a) : Takes(tp, u + k, tt, cut[u + (k - 1)], cut[u + k])
  <2> SUFFICES ASSUME NEW k \in 1 .. Len(a)
               PROVE  Takes(tp, u + k, tt, cut[u + (k - 1)], cut[u + k])
    OBVIOUS
  <2>1. u + k \in 1 .. Len(tp) /\ (u + k) - 1 = u + (k - 1)
    BY <1>0
  <2>2. Takes(tp, u + k, tt, cut[(u + k) - 1], cut[u + k])
    BY <2>1 DEF IsCut
  <2> QED
    BY <2>1, <2>2
<1>4. \A k \in 0 .. Len(a) : cut[u + k] <= v + Len(b) + 1
  <2> DEFINE T == {k \in 0 .. Len(a) : cut[u + (Len(a) - k)] <= v + Len(b) + 1}
  <2>1. 0 \in T
    <3>1. Len(a) - 0 = Len(a) /\ 0 \in 0 .. Len(a)
      BY <1>0
    <3> QED
      BY <1>0, <1>2, <3>1
  <2>2. ASSUME NEW k \in 1 .. Len(a), k - 1 \in T PROVE k \in T
    <3> DEFINE i == Len(a) - (k - 1)
    <3>1. i \in 1 .. Len(a) /\ i - 1 = Len(a) - k /\ i \in 0 .. Len(a) /\ i - 1 \in 0 .. Len(a)
      BY <1>0
    <3>2. cut[u + i] <= v + Len(b) + 1
      BY <2>2
    <3> HIDE DEF i
    <3>3. cut[u + (i - 1)] <= cut[u + i]
      BY <1>3, <3>1 DEF Takes
    <3>4. cut[u + (i - 1)] \in Int /\ cut[u + i] \in Int
      <4>1. /\ cut[u + (i - 1)] \in v + 1 .. Len(tt) + 1
            /\ cut[u + i] \in v + 1 .. Len(tt) + 1
        BY <1>1, <3>1
      <4> QED
        BY <4>1
    <3>5. cut[u + (i - 1)] <= v + Len(b) + 1
      BY <1>0, <3>2, <3>3, <3>4
    <3> QED
      BY <3>1, <3>5
  <2> HIDE DEF T
  <2>3. \A k \in 0 .. Len(a) : k \in T
    BY <1>0, <2>1, <2>2, Counting
  <2>4. ASSUME NEW k \in 0 .. Len(a) PROVE cut[u + k] <= v + Len(b) + 1
    <3>1. Len(a) - k \in T /\ Len(a) - (Len(a) - k) = k
      BY <1>0, <2>3
    <3> QED
      BY <3>1 DEF T
  <2> QED
    BY <2>4
<1>5. \A k \in 0 .. Len(a) : c[k] = cut[u + k] - v /\ c[k] \in 1 .. Len(b) + 1
  <2> SUFFICES ASSUME NEW k \in 0 .. Len(a)
               PROVE  c[k] = cut[u + k] - v /\ c[k] \in 1 .. Len(b) + 1
    OBVIOUS
  <2>1. c[k] = cut[u + k] - v
    OBVIOUS
  <2>2. cut[u + k] \in v + 1 .. Len(tt) + 1 /\ cut[u + k] <= v + Len(b) + 1
    BY <1>1, <1>4
  <2> HIDE DEF c
  <2> QED
    BY <1>0, <2>1, <2>2
<1>6. c \in [0 .. Len(a) -> 1 .. Len(b) + 1]
  BY <1>5
<1>7. c[0] = 1 /\ c[Len(a)] = Len(b) + 1
  <2>1. 0 \in 0 .. Len(a) /\ Len(a) \in 0 .. Len(a) /\ u + 0 = u
    BY <1>0
  <2> QED
    BY <1>0, <1>2, <1>5, <2>1
<1> HIDE DEF c
<1>8. ASSUME NEW k \in 1 .. Len(a) PROVE Takes(a, k, b, c[k - 1], c[k])
  <2> DEFINE i == u + k
             j == cut[u + (k - 1)]
             e == cut[u + k]
  <2>1. Takes(tp, i, tt, j, e)
    BY <1>3
  <2>2. tp[i] = a[k] /\ a[k] # "/" /\ a[k] # "**"
    BY DEF Stands, WithoutStars
  <2>3. k - 1 \in 0 .. Len(a) /\ k \in 0 .. Len(a)
    BY <1>0
  <2>4. /\ c[k - 1] = j - v /\ c[k] = e - v /\ j \in v + 1 .. v + Len(b) + 1
        /\ e \in v + 1 .. v + Len(b) + 1
    <3>1. /\ c[k - 1] = j - v /\ c[k] = e - v
          /\ j \in v + 1 .. Len(tt) + 1 /\ e \in v + 1 .. Len(tt) + 1
          /\ j <= v + Len(b) + 1 /\ e <= v + Len(b) + 1
      BY <1>1, <1>4, <1>5, <2>3
    <3> HIDE DEF j, e
    <3> QED
      BY <1>0, <3>1
  <2>5. \A x \in 1 .. Len(b) : tt[v + x] = b[x]
    BY DEF Stands
  <2> HIDE DEF i, j, e
  <2>6. j <= e /\ j - v <= e - v
    BY <1>0, <2>1, <2>4 DEF Takes
  <2>7. CASE a[k] = "*"
    <3>1. \A x \in j .. e - 1 : tt[x] # "/"
      BY <2>1, <2>2, <2>7 DEF Takes
    <3>2. ASSUME NEW x \in j - v .. (e - v) - 1 PROVE b[x] # "/"
      <4>1. x \in 1 .. Len(b) /\ v + x \in j .. e - 1
        BY <1>0, <2>4
      <4> QED
        BY <2>5, <3>1, <4>1
    <3> QED
      BY <2>2, <2>4, <2>6, <2>7, <3>2 DEF Takes
  <2>8. CASE a[k] # "*"
    <3>1. /\ e = j + 1 /\ (a[k] = "?" => tt[j] # "/")
          /\ (a[k] # "?" => tt[j] = a[k])
      BY <2>1, <2>2, <2>8 DEF Takes
    <3>2. j - v \in 1 .. Len(b) /\ v + (j - v) = j /\ e - v = (j - v) + 1
      BY <1>0, <2>4, <3>1
    <3>3. b[j - v] = tt[j]
      BY <2>5, <3>2
    <3> QED
      BY <2>2, <2>4, <2>6, <2>8, <3>1, <3>2, <3>3 DEF Takes
  <2> QED
    BY <2>7, <2>8
<1>9. IsCut(c, a, b)
  BY <1>6, <1>7, <1>8 DEF IsCut
<1> QED
  BY <1>0, <1>9, MatchesIsCut

\* After the first x segments there is a in t, and then the end or the rest.
Continues(segments, f, t, u, x, a) ==
  /\ Stands(t, u, a)
  /\ x + 1 < Len(segments) => Len(t) # u + Len(a)
  /\ Len(t) # u + Len(a) => /\ x + 1 < Len(segments) /\ t[u + Len(a) + 1] = "/"
                            /\ EndsAs(t, u + Len(a) + 1, f[Len(segments) - (x + 1)])

\* What follows the first x segments of a text begins with a whole segment.
LEMMA SegmentStands ==
  ASSUME NEW segments \in Seq(Seq(Letter)), NEW f, Rests(f, segments), NEW t,
         \A k \in DOMAIN segments : \A m \in DOMAIN segments[k] : segments[k][m] # "/",
         NEW x \in 0 .. Len(segments) - 1, NEW u, EndsAs(t, u, f[Len(segments) - x]),
         NEW a, a = segments[x + 1]
  PROVE  Continues(segments, f, t, u, x, a)
<1>1. /\ Len(a) \in Nat /\ \A m \in 1 .. Len(a) : t[u + m] = a[m]
      /\ \/ x + 1 = Len(segments) /\ Len(t) = u + Len(a)
         \/ /\ x + 1 < Len(segments) /\ u + Len(a) + 1 <= Len(t) /\ t[u + Len(a) + 1] = "/"
            /\ EndsAs(t, u + Len(a) + 1, f[Len(segments) - (x + 1)])
  BY BeginsWith
<1>2. u \in Nat /\ Len(segments) \in Nat
  BY DEF EndsAs
<1>3. Len(t) \in Nat
  <2>1. f[Len(segments) - x] \in Seq(Letter)
    <3>1. Len(segments) - x \in 0 .. Len(segments)
      BY <1>2
    <3>2. f \in [0 .. Len(segments) -> Seq(Letter)]
      BY DEF Rests
    <3> QED
      BY <3>1, <3>2
  <2>2. Len(f[Len(segments) - x]) \in Nat
    BY <2>1
  <2> QED
    BY <1>2, <2>2 DEF EndsAs
<1>4. \A m \in 1 .. Len(a) : a[m] # "/"
  <2>1. a \in Seq(Letter) /\ x + 1 \in DOMAIN segments
    BY <1>2, ElementOfSeq
  <2> QED
    BY <2>1
<1>5. Stands(t, u, a)
  BY <1>1, <1>2, <1>3, <1>4 DEF Stands
<1> QED
  BY <1>1, <1>2, <1>3, <1>5 DEF Continues

\* A pattern that matches a path matches it segment by segment up to the first "**".
LEMMA SegmentsMatch ==
  ASSUME NEW p \in Seq(Seq(Letter)), NEW file \in Seq(Seq(Letter)), p # <<>>, file # <<>>,
         \A k \in DOMAIN p : \A m \in DOMAIN p[k] : p[k][m] # "/",
         \A k \in DOMAIN file : \A m \in DOMAIN file[k] : file[k][m] # "/",
         globMatch(p, file), NEW i \in 1 .. Len(p), \A k \in 1 .. i : WithoutStars(p[k])
  PROVE  i \in 1 .. Len(file) /\ Matches(p[i], file[i])
<1> DEFINE tp == Text(p)
           tt == Text(file)
<1>1. PICK f : Rests(f, p) /\ tp = f[Len(p)]
  BY TextRests
<1>2. PICK g : Rests(g, file) /\ tt = g[Len(file)]
  BY TextRests
<1>0. Len(p) \in Nat /\ Len(file) \in Nat /\ 1 <= Len(p) /\ 1 <= Len(file)
  <2>1. Len(p) \in Nat /\ Len(file) \in Nat /\ Len(p) # 0 /\ Len(file) # 0
    BY EmptySeq
  <2> QED
    BY <2>1
<1>3. Len(tp) \in Nat /\ Len(tt) \in Nat
  <2>1. tp \in Seq(Letter) /\ tt \in Seq(Letter)
    <3>1. Len(p) \in 0 .. Len(p) /\ Len(file) \in 0 .. Len(file)
      BY <1>0
    <3> QED
      <4>1. f \in [0 .. Len(p) -> Seq(Letter)] /\ g \in [0 .. Len(file) -> Seq(Letter)]
        BY <1>1, <1>2 DEF Rests
      <4>2. f[Len(p)] \in Seq(Letter) /\ g[Len(file)] \in Seq(Letter)
        BY <3>1, <4>1
      <4> QED
        BY <1>1, <1>2, <4>2
  <2> HIDE DEF tp, tt
  <2> QED
    BY <2>1
<1>4. PICK cut : IsCut(cut, tp, tt)
  BY <1>3, MatchesIsCut DEF globMatch
<1> HIDE DEF tp, tt
<1> DEFINE At(x, u, v) == /\ EndsAs(tp, u, f[Len(p) - x]) /\ EndsAs(tt, v, g[Len(file) - x])
                          /\ cut[u] = v + 1 /\ (u = 0 \/ tp[u] = "/")
           T == {x \in 0 .. i - 1 : x < Len(file) /\ \E u, v : At(x, u, v)}
<1>5. ASSUME NEW x \in 0 .. i - 1, x < Len(file), NEW u, NEW v, At(x, u, v),
             NEW a, a = p[x + 1], NEW b, b = file[x + 1]
      PROVE  /\ Stands(tp, u, a) /\ Stands(tt, v, b) /\ WithoutStars(a)
             /\ x + 1 < Len(p) =>
                  /\ EndsAs(tp, u + Len(a) + 1, f[Len(p) - (x + 1)])
                  /\ tp[u + Len(a) + 1] = "/" /\ Len(tp) # u + Len(a)
             /\ Len(tt) # v + Len(b) =>
                  x + 1 < Len(file) /\ EndsAs(tt, v + Len(b) + 1, g[Len(file) - (x + 1)])
  <2>1. x \in 0 .. Len(p) - 1 /\ x \in 0 .. Len(file) - 1 /\ x + 1 \in 1 .. i
    BY <1>0, <1>5
  <2>2. EndsAs(tp, u, f[Len(p) - x]) /\ EndsAs(tt, v, g[Len(file) - x])
    BY <1>5
  <2>3. Rests(f, p) /\ Rests(g, file)
    BY <1>1, <1>2
  <2> HIDE DEF At, T
  <2>4. Continues(p, f, tp, u, x, a)
    BY <1>5, <2>1, <2>2, <2>3, SegmentStands
  <2>5. Continues(file, g, tt, v, x, b)
    BY <1>5, <2>1, <2>2, <2>3, SegmentStands
  <2>6. WithoutStars(a)
    BY <1>5, <2>1
  <2> QED
    BY <2>4, <2>5, <2>6 DEF Continues
<1>6. 0 \in T
  <2>1. EndsAs(tp, 0, f[Len(p) - 0]) /\ EndsAs(tt, 0, g[Len(file) - 0])
    <3>1. \A t : Len(t) \in Nat => EndsAs(t, 0, t)
      BY DEF EndsAs
    <3>2. Len(p) - 0 = Len(p) /\ Len(file) - 0 = Len(file)
      BY <1>0
    <3> QED
      BY <1>1, <1>2, <1>3, <3>1, <3>2
  <2>2. At(0, 0, 0)
    BY <1>4, <2>1 DEF IsCut
  <2> HIDE DEF At
  <2> QED
    BY <1>0, <2>2
<1>7. ASSUME NEW k \in 1 .. i - 1, k - 1 \in T PROVE k \in T
  <2> DEFINE x == k - 1
  <2>0. x \in 0 .. i - 1 /\ x + 1 = k /\ x < Len(file) /\ x + 1 < Len(p)
    <3>1. k - 1 < Len(file)
      BY <1>7
    <3>2. k - 1 \in 0 .. i - 1 /\ (k - 1) + 1 = k /\ (k - 1) + 1 < Len(p)
      BY <1>0
    <3> QED
      BY <3>1, <3>2
  <2>1. PICK u, v : At(x, u, v)
    BY <1>7
  <2> HIDE DEF x, T
  <2> DEFINE a == p[x + 1]
             b == file[x + 1]
  <2>2. /\ Stands(tp, u, a) /\ Stands(tt, v, b) /\ WithoutStars(a)
        /\ EndsAs(tp, u + Len(a) + 1, f[Len(p) - (x + 1)]) /\ tp[u + Len(a) + 1] = "/"
        /\ Len(tp) # u + Len(a)
        /\ Len(tt) # v + Len(b) =>
             x + 1 < Len(file) /\ EndsAs(tt, v + Len(b) + 1, g[Len(file) - (x + 1)])
    <3> HIDE DEF At
    <3> QED
      BY <1>5, <2>0, <2>1
  <2> HIDE DEF a, b
  <2>3. Len(tt) # v + Len(b) /\ cut[u + Len(a) + 1] = v + Len(b) + 2
    BY <1>3, <1>4, <2>1, <2>2, SegmentMeets
  <2>4. v + Len(b) + 2 = (v + Len(b) + 1) + 1
    BY <2>2 DEF Stands
  <2>5. At(k, u + Len(a) + 1, v + Len(b) + 1) /\ k < Len(file)
    BY <2>0, <2>2, <2>3, <2>4
  <2> HIDE DEF At
  <2> QED
    BY <2>5 DEF T
<1> HIDE DEF T
<1>8. i - 1 \in T
  <2>0. i - 1 \in Nat
    BY <1>0
  <2>1. \A k \in 0 .. i - 1 : k \in T
    BY <1>6, <1>7, <2>0, Counting
  <2> QED
    BY <2>1
<1>9. PICK u, v : At(i - 1, u, v)
  BY <1>8 DEF T
<1>10. i - 1 < Len(file) /\ i - 1 \in 0 .. i - 1 /\ (i - 1) + 1 = i
  BY <1>8 DEF T
<1>11. Stands(tp, u, p[i]) /\ Stands(tt, v, file[i]) /\ WithoutStars(p[i])
  <2> HIDE DEF At
  <2> QED
    BY <1>5, <1>9, <1>10
<1>12. Matches(p[i], file[i])
  BY <1>3, <1>4, <1>9, <1>11, SegmentMatches
<1> QED
  BY <1>0, <1>10, <1>12

\* A text without wildcards matches itself only.
LEMMA LiteralMatches ==
  ASSUME NEW a \in Seq(Letter), NEW b \in Seq(Letter), Matches(a, b), ~ IsGlob(a),
         \A m \in DOMAIN a : a[m] # "/"
  PROVE  a = b
<1>0. Len(a) \in Nat /\ Len(b) \in Nat /\ DOMAIN a = 1 .. Len(a)
  OBVIOUS
<1>1. PICK c : IsCut(c, a, b)
  BY <1>0, MatchesIsCut
<1>2. \A m \in 1 .. Len(a) : a[m] \notin {"*", "**", "?", "/"}
  BY <1>0 DEF IsGlob
<1>3. \A m \in 1 .. Len(a) : c[m] = c[m - 1] + 1 /\ b[c[m - 1]] = a[m]
  <2> SUFFICES ASSUME NEW m \in 1 .. Len(a) PROVE c[m] = c[m - 1] + 1 /\ b[c[m - 1]] = a[m]
    OBVIOUS
  <2>1. Takes(a, m, b, c[m - 1], c[m])
    BY <1>1 DEF IsCut
  <2> QED
    BY <1>2, <2>1 DEF Takes
<1>4. \A k \in 0 .. Len(a) : c[k] = k + 1
  <2> DEFINE T == {k \in 0 .. Len(a) : c[k] = k + 1}
  <2>1. 0 \in T
    BY <1>0, <1>1 DEF IsCut
  <2>2. ASSUME NEW k \in 1 .. Len(a), k - 1 \in T PROVE k \in T
    BY <1>0, <1>3, <2>2
  <2> HIDE DEF T
  <2>3. \A k \in 0 .. Len(a) : k \in T
    BY <1>0, <2>1, <2>2, Counting
  <2> QED
    BY <2>3 DEF T
<1>5. Len(a) = Len(b)
  <2>1. c[Len(a)] = Len(b) + 1 /\ c[Len(a)] = Len(a) + 1
    BY <1>0, <1>1, <1>4 DEF IsCut
  <2> QED
    BY <1>0, <2>1
<1>6. \A m \in 1 .. Len(a) : a[m] = b[m]
  <2> SUFFICES ASSUME NEW m \in 1 .. Len(a) PROVE a[m] = b[m]
    OBVIOUS
  <2>1. m - 1 \in 0 .. Len(a) /\ (m - 1) + 1 = m
    BY <1>0
  <2>2. c[m - 1] = m
    BY <1>4, <2>1
  <2> QED
    BY <1>3, <2>2
<1> QED
  BY <1>5, <1>6, SeqEqual

\* Patterns whose "**" are segments of their own, and that match one path, overlap.
LEMMA MatchingOverlap ==
  ASSUME NEW p \in Seq(Seq(Letter)), NEW q \in Seq(Seq(Letter)), NEW file \in Seq(Seq(Letter)),
         p # <<>>, q # <<>>, file # <<>>,
         \A k \in DOMAIN p : \A m \in DOMAIN p[k] : p[k][m] # "/",
         \A k \in DOMAIN q : \A m \in DOMAIN q[k] : q[k][m] # "/",
         \A k \in DOMAIN file : \A m \in DOMAIN file[k] : file[k][m] # "/",
         \A k \in DOMAIN p : WithoutStars(p[k]) \/ p[k] = <<"**">>,
         \A k \in DOMAIN q : WithoutStars(q[k]) \/ q[k] = <<"**">>,
         globMatch(p, file), globMatch(q, file)
  PROVE  globsOverlap(p, q)
<1>0. Len(p) \in Nat /\ Len(q) \in Nat /\ DOMAIN p = 1 .. Len(p) /\ DOMAIN q = 1 .. Len(q)
  OBVIOUS
<1> SUFFICES ASSUME ~ globsOverlap(p, q) PROVE FALSE
  OBVIOUS
<1> DEFINE shared == 1 .. (IF Len(p) < Len(q) THEN Len(p) ELSE Len(q))
           Apart(i) == segmentsDisjoint(p[i], q[i])
           Spans(j) == p[j] = <<"**">> \/ q[j] = <<"**">>
<1>a. globsOverlap(p, q) <=> \A i \in shared : Apart(i) => \E j \in 1 .. i : Spans(j)
  BY Zenon DEF globsOverlap
<1>b. PICK i \in shared : Apart(i) /\ \A j \in 1 .. i : ~ Spans(j)
  <2> HIDE DEF shared, Apart, Spans
  <2> QED
    BY <1>a
<1>i. /\ i \in 1 .. (IF Len(p) < Len(q) THEN Len(p) ELSE Len(q))
      /\ segmentsDisjoint(p[i], q[i]) /\ \A j \in 1 .. i : p[j] # <<"**">> /\ q[j] # <<"**">>
  BY Zenon, <1>b
<1> HIDE DEF shared, Apart, Spans
<1>1. i \in 1 .. Len(p) /\ i \in 1 .. Len(q) /\ i \in 1 .. i
  BY <1>0, <1>i
<1>2. /\ \A k \in 1 .. i : WithoutStars(p[k])
      /\ \A k \in 1 .. i : WithoutStars(q[k])
  <2>1. \A k \in 1 .. i : k \in DOMAIN p /\ k \in DOMAIN q
    BY <1>0, <1>1
  <2>2. \A k \in 1 .. i : p[k] # <<"**">> /\ q[k] # <<"**">>
    BY <1>i
  <2> QED
    BY Zenon, <2>1, <2>2
<1>3. i \in 1 .. Len(file) /\ Matches(p[i], file[i])
  BY <1>1, <1>2, SegmentsMatch
<1>4. Matches(q[i], file[i])
  BY <1>1, <1>2, SegmentsMatch
<1> DEFINE a == p[i]
           b == q[i]
           t == file[i]
<1>5. a \in Seq(Letter) /\ b \in Seq(Letter) /\ t \in Seq(Letter)
  BY <1>1, <1>3, ElementOfSeq
<1>6. (\A m \in DOMAIN a : a[m] # "/") /\ (\A m \in DOMAIN b : b[m] # "/")
  BY <1>0, <1>1
<1>7. WithoutStars(a) /\ WithoutStars(b) /\ Matches(a, t) /\ Matches(b, t) /\ segmentsDisjoint(a, b)
  BY <1>1, <1>2, <1>3, <1>4, <1>i
<1> HIDE DEF a, b, t
<1>8. segmentMatches(a, b) <=> Matches(a, b)
  <2>1. [k \in DOMAIN a |-> IF a[k] = "**" THEN "*" ELSE a[k]] = a
    <3>1. a \in [1 .. Len(a) -> Letter] /\ DOMAIN a = 1 .. Len(a)
      BY <1>5
    <3>2. \A k \in DOMAIN a : a[k] # "**"
      BY <1>7, <3>1 DEF WithoutStars
    <3> QED
      BY <3>1, <3>2
  <2> QED
    BY Zenon, <2>1 DEF segmentMatches
<1>9. segmentMatches(b, a) <=> Matches(b, a)
  <2>1. [k \in DOMAIN b |-> IF b[k] = "**" THEN "*" ELSE b[k]] = b
    <3>1. b \in [1 .. Len(b) -> Letter] /\ DOMAIN b = 1 .. Len(b)
      BY <1>5
    <3>2. \A k \in DOMAIN b : b[k] # "**"
      BY <1>7, <3>1 DEF WithoutStars
    <3> QED
      BY <3>1, <3>2
  <2> QED
    BY Zenon, <2>1 DEF segmentMatches
<1>10. IsGlob(a) \/ a = t
  BY <1>5, <1>6, <1>7, LiteralMatches
<1>11. IsGlob(b) \/ b = t
  BY <1>5, <1>6, <1>7, LiteralMatches
<1> QED
  BY <1>7, <1>8, <1>9, <1>10, <1>11 DEF segmentsDisjoint

\* Texts of strings are texts of letters, and so are sequences of them.
LEMMA TextsAreLetters ==
  /\ Seq(STRING) \subseteq Seq(Letter)
  /\ Seq(Seq(STRING)) \subseteq Seq(Seq(Letter))
<1>1. ASSUME NEW S, NEW U, S \subseteq U PROVE Seq(S) \subseteq Seq(U)
  <2> SUFFICES ASSUME NEW t \in Seq(S) PROVE t \in Seq(U)
    OBVIOUS
  <2>1. t \in [1 .. Len(t) -> S] /\ Len(t) \in Nat
    OBVIOUS
  <2>2. t \in [1 .. Len(t) -> U]
    BY <1>1, <2>1
  <2> QED
    BY <2>1, <2>2, SeqDef
<1>2. STRING \subseteq Letter
  BY DEF Letter
<1> QED
  BY <1>1, <1>2

\* Every "**" of a declared pattern is a whole segment of it.
StarsAreSegments(c) ==
  \A n \in Node : c.scope[n] # NoScope =>
    \A p \in c.scope[n] : \A k \in DOMAIN p : WithoutStars(p[k]) \/ p[k] = <<"**">>

\* Two branches of a group are never both allowed to write one file, of a loaded
\* config whose "**" are segments of their own (validateDisjointBranchScopes,
\* globsOverlap against globMatch).
THEOREM BranchesStayApart == Spec => [](StarsAreSegments(config) => BranchesKeepApart)
<1>1. LoaderInv /\ StarsAreSegments(config) => BranchesKeepApart
  <2> SUFFICES ASSUME LoaderInv, StarsAreSegments(config), verdict = "levels",
                      NEW n \in Node, NEW m \in Node, DifferentBranches(config, n, m),
                      NEW file \in Files, MayWrite(config, n, file), MayWrite(config, m, file)
               PROVE  FALSE
    BY DEF BranchesKeepApart
  <2> DEFINE c == config
  <2>1. ScopesAreDisjoint(c) /\ ScopesAreParsed(c)
    BY LevelsAreOfALoad DEF Sound, IsParsed
  <2>2. PICK p \in c.scope[n] : c.scope[n] # NoScope /\ globMatch(p, file)
    BY DEF MayWrite
  <2>3. PICK q \in c.scope[m] : c.scope[m] # NoScope /\ globMatch(q, file)
    BY DEF MayWrite
  <2>4. ~ globsOverlap(p, q)
    BY <2>1, <2>2, <2>3 DEF ScopesAreDisjoint
  <2>5. /\ p \in Seq(Seq(Letter)) /\ p # <<>>
        /\ \A k \in DOMAIN p : \A i \in DOMAIN p[k] : p[k][i] # "/"
    BY <2>1, <2>2, TextsAreLetters DEF ScopesAreParsed, IsText, Id
  <2>6. /\ q \in Seq(Seq(Letter)) /\ q # <<>>
        /\ \A k \in DOMAIN q : \A i \in DOMAIN q[k] : q[k][i] # "/"
    BY <2>1, <2>3, TextsAreLetters DEF ScopesAreParsed, IsText, Id
  <2>7. /\ file \in Seq(Seq(Letter)) /\ file # <<>>
        /\ \A k \in DOMAIN file : \A i \in DOMAIN file[k] : file[k][i] # "/"
    BY FilesAreNamed, TextsAreLetters DEF IsText
  <2>8. /\ \A k \in DOMAIN p : WithoutStars(p[k]) \/ p[k] = <<"**">>
        /\ \A k \in DOMAIN q : WithoutStars(q[k]) \/ q[k] = <<"**">>
    BY <2>2, <2>3 DEF StarsAreSegments
  <2> HIDE DEF c
  <2>9. globsOverlap(p, q)
    BY <2>2, <2>3, <2>5, <2>6, <2>7, <2>8, MatchingOverlap
  <2> QED
    BY <2>4, <2>9
<1>2. [](LoaderInv => (StarsAreSegments(config) => BranchesKeepApart))
  BY <1>1, PTL
<1> QED
  BY <1>2, LoaderHolds, PTL

-----------------------------------------------------------------------------
(* Branch membership.                                                      *)

\* What membership can be, and a workflow whose parts are of their types.
Memberships == [Node -> Branch \cup {NoBranch}]
IsWorkflow(g) == /\ g.inputs \in [Node -> SUBSET Node] /\ g.fork \in Memberships
                 /\ g.join \in [Node -> Group \cup {NoGroup}]

\* A pass gives a node without a branch the only branch of its inputs, and takes
\* nothing away.
LEMMA PassAdds ==
  ASSUME NEW g, IsWorkflow(g), NEW m \in Memberships
  PROVE  /\ MembershipPass(g, m) \in Memberships
         /\ \A n \in Node : m[n] # NoBranch => MembershipPass(g, m)[n] = m[n]
         /\ \A n \in Node : MembershipPass(g, m)[n] # m[n] =>
              /\ m[n] = NoBranch /\ MembershipPass(g, m)[n] # NoBranch
              /\ g.fork[n] = NoBranch /\ g.join[n] = NoGroup
              /\ \E i \in g.inputs[n] : m[i] = MembershipPass(g, m)[n]
<1> DEFINE Alone(n) == /\ g.fork[n] = NoBranch /\ g.join[n] = NoGroup /\ m[n] = NoBranch
                       /\ Cardinality(InputBranches(g, m, n)) = 1
           Taken(n) == CHOOSE b \in InputBranches(g, m, n) : TRUE
           p == MembershipPass(g, m)
<1>1. p = [n \in Node |-> IF Alone(n) THEN Taken(n) ELSE m[n]]
  BY DEF MembershipPass
<1>2. ASSUME NEW n \in Node, Alone(n)
      PROVE  /\ Taken(n) \in Branch /\ Taken(n) # NoBranch
             /\ \E i \in g.inputs[n] : m[i] = Taken(n)
  <2>1. InputBranches(g, m, n) # {}
    BY <1>2, FS_EmptySet
  <2> DEFINE b == Taken(n)
  <2>2. b \in InputBranches(g, m, n)
    BY <2>1
  <2> HIDE DEF b
  <2>3. PICK i \in g.inputs[n] : m[i] = b /\ b # NoBranch
    BY <2>2 DEF InputBranches
  <2>4. i \in Node
    BY DEF IsWorkflow
  <2>5. b \in Branch
    BY <2>3, <2>4 DEF Memberships
  <2> QED
    BY <2>3, <2>5 DEF b
<1>3. \A n \in Node : p[n] = IF Alone(n) THEN Taken(n) ELSE m[n]
  <2> HIDE DEF Alone, Taken, p
  <2> QED
    BY <1>1
<1>4. p \in Memberships
  <2> HIDE DEF Alone, Taken, p
  <2> QED
    BY <1>1, <1>2 DEF Memberships
<1>5. \A n \in Node : Alone(n) =>
        m[n] = NoBranch /\ g.fork[n] = NoBranch /\ g.join[n] = NoGroup
  OBVIOUS
<1> HIDE DEF Alone, Taken, p
<1>6. ASSUME NEW n \in Node, p[n] # m[n]
      PROVE  /\ m[n] = NoBranch /\ p[n] # NoBranch /\ g.fork[n] = NoBranch /\ g.join[n] = NoGroup
             /\ \E i \in g.inputs[n] : m[i] = p[n]
  <2>1. Alone(n) /\ p[n] = Taken(n)
    BY <1>3, <1>6
  <2> QED
    BY <1>2, <1>5, <2>1
<1>7. \A n \in Node : m[n] # NoBranch => p[n] = m[n]
  BY <1>6
<1> QED
  BY <1>4, <1>6, <1>7 DEF p

\* Who has a branch has opened it or takes an input from it.
Reached(g, m) ==
  /\ m \in Memberships
  /\ \A n \in Node : g.fork[n] # NoBranch => m[n] = g.fork[n]
  /\ \A n \in Node : m[n] # NoBranch /\ g.fork[n] = NoBranch =>
        g.join[n] = NoGroup /\ \E i \in g.inputs[n] : m[i] = m[n]

\* A pass keeps it so.
LEMMA PassReaches ==
  ASSUME NEW g, IsWorkflow(g), NEW m, Reached(g, m)
  PROVE  Reached(g, MembershipPass(g, m))
<1> DEFINE p == MembershipPass(g, m)
<1>1. /\ p \in Memberships /\ m \in Memberships
      /\ \A n \in Node : m[n] # NoBranch => p[n] = m[n]
      /\ \A n \in Node : p[n] # m[n] =>
           /\ m[n] = NoBranch /\ p[n] # NoBranch /\ g.fork[n] = NoBranch /\ g.join[n] = NoGroup
           /\ \E i \in g.inputs[n] : m[i] = p[n]
  BY PassAdds DEF Reached
<1> HIDE DEF p
<1>2. \A n \in Node : g.inputs[n] \subseteq Node
  BY DEF IsWorkflow
<1>3. \A n \in Node : g.fork[n] # NoBranch => p[n] = g.fork[n]
  BY <1>1 DEF Reached
<1>4. ASSUME NEW n \in Node, p[n] # NoBranch, g.fork[n] = NoBranch
      PROVE  g.join[n] = NoGroup /\ \E i \in g.inputs[n] : p[i] = p[n]
  <2>1. g.join[n] = NoGroup /\ \E i \in g.inputs[n] : m[i] = p[n]
    <3>1. CASE p[n] # m[n]
      BY <1>1, <3>1
    <3>2. CASE p[n] = m[n]
      BY <1>4, <3>2 DEF Reached
    <3> QED
      BY <3>1, <3>2
  <2> QED
    BY <1>1, <1>2, <1>4, <2>1
<1> QED
  BY <1>1, <1>3, <1>4 DEF Reached, p

\* The steps of Membership.
Passes(f, g) == /\ f \in [0 .. Size -> Memberships]
                /\ f[0] = g.fork
                /\ \A k \in 1 .. Size : f[k] = MembershipPass(g, f[k - 1])

\* The recursion of Membership has a solution, so it computes it.
LEMMA MembershipPasses ==
  ASSUME NEW g, IsWorkflow(g)
  PROVE  \E f : Passes(f, g) /\ Membership(g) = f[Size]
<1> DEFINE F == [m \in Memberships |-> MembershipPass(g, m)]
           Step(x) == [k \in 0 .. Cardinality(Node) |->
                         IF k = 0 THEN g.fork ELSE MembershipPass(g, x[k - 1])]
<1>1. F \in [Memberships -> Memberships] /\ g.fork \in Memberships
  BY PassAdds DEF IsWorkflow
<1>2. PICK h : /\ h \in [0 .. Size -> Memberships]
               /\ h[0] = g.fork /\ \A k \in 1 .. Size : h[k] = F[h[k - 1]]
  <2> HIDE DEF F
  <2>1. \E h : Repeats(h, Memberships, F, g.fork, Size)
    BY <1>1, SizeIsNat, Repeating
  <2> QED
    BY <2>1 DEF Repeats
<1>3. \A k \in 1 .. Size : k - 1 \in 0 .. Size /\ h[k] = MembershipPass(g, h[k - 1])
  <2>1. \A k \in 1 .. Size : k - 1 \in 0 .. Size
    BY SizeIsNat
  <2>2. \A m \in Memberships : F[m] = MembershipPass(g, m)
    OBVIOUS
  <2> HIDE DEF F
  <2>3. \A k \in 1 .. Size : h[k - 1] \in Memberships /\ h[k] = F[h[k - 1]]
    BY <1>2, <2>1
  <2> QED
    BY <2>1, <2>2, <2>3
<1>4. h = Step(h)
  <2>1. \A k \in 0 .. Size : h[k] = IF k = 0 THEN g.fork ELSE MembershipPass(g, h[k - 1])
    BY <1>2, <1>3, SizeIsNat
  <2> QED
    BY <1>2, <2>1 DEF Size
<1> DEFINE f == CHOOSE x : x = Step(x)
<1>5. f = Step(f)
  <2> HIDE DEF Step
  <2> QED
    BY <1>4
<1>6. Membership(g) = f[Size]
  BY Zenon DEF Membership, Size
<1> HIDE DEF f
<1>7. \A k \in 0 .. Size : f[k] = IF k = 0 THEN g.fork ELSE MembershipPass(g, f[k - 1])
  BY <1>5 DEF Size
<1>8. \A k \in 0 .. Size : f[k] = h[k]
  <2> DEFINE T == {k \in 0 .. Size : f[k] = h[k]}
  <2>1. 0 \in T
    BY <1>2, <1>7, SizeIsNat
  <2>2. ASSUME NEW k \in 1 .. Size, k - 1 \in T PROVE k \in T
    BY <1>3, <1>7, <2>2, SizeIsNat
  <2> HIDE DEF T
  <2>3. \A k \in 0 .. Size : k \in T
    BY <2>1, <2>2, SizeIsNat, Counting
  <2> QED
    BY <2>3 DEF T
<1>9. Passes(h, g) /\ h[Size] = f[Size]
  BY <1>2, <1>3, <1>8, SizeIsNat DEF Passes
<1> QED
  BY <1>6, <1>9

\* As many passes as there are nodes are enough: one more changes nothing, so the
\* guard of the loop in resolveBranchMembership never ends it early.
THEOREM MembershipIsFixpoint ==
  ASSUME NEW g, IsWorkflow(g)
  PROVE  Reached(g, Membership(g)) /\ MembershipPass(g, Membership(g)) = Membership(g)
<1> DEFINE Members(m) == {n \in Node : m[n] # NoBranch}
           Stable(m) == MembershipPass(g, m) = m
<1>1. PICK f : Passes(f, g) /\ Membership(g) = f[Size]
  BY MembershipPasses
<1>2. /\ f \in [0 .. Size -> Memberships] /\ f[0] = g.fork
      /\ \A k \in 1 .. Size : f[k] = MembershipPass(g, f[k - 1])
  BY <1>1 DEF Passes
<1>3. Size \in Nat /\ \A k \in 1 .. Size : k - 1 \in 0 .. Size
  BY SizeIsNat
<1>4. Reached(g, f[Size])
  <2> DEFINE T == {k \in 0 .. Size : Reached(g, f[k])}
  <2>1. 0 \in T
    BY <1>2, <1>3 DEF Reached, IsWorkflow
  <2>2. ASSUME NEW k \in 1 .. Size, k - 1 \in T PROVE k \in T
    BY <1>2, <2>2, PassReaches
  <2> HIDE DEF T
  <2>3. \A k \in 0 .. Size : k \in T
    BY <1>3, <2>1, <2>2, Counting
  <2> QED
    BY <1>3, <2>3 DEF T
<1>5. \A m \in Memberships : IsFiniteSet(Members(m)) /\ Cardinality(Members(m)) \in Nat
  BY SizeIsNat, FS_Subset, FS_CardinalityType
<1>6. Stable(f[Size]) \/ Cardinality(Members(f[Size])) >= Size
  <2> DEFINE T == {k \in 0 .. Size : Stable(f[k]) \/ Cardinality(Members(f[k])) >= k}
  <2>1. 0 \in T
    <3>1. f[0] \in Memberships
      BY <1>2, <1>3
    <3> HIDE DEF Members, Stable
    <3> QED
      BY <1>3, <1>5, <3>1
  <2>2. ASSUME NEW k \in 1 .. Size, k - 1 \in T PROVE k \in T
    <3> DEFINE m == f[k - 1]
               p == f[k]
    <3>1. p = MembershipPass(g, m) /\ m \in Memberships /\ p \in Memberships
      BY <1>2, <1>3
    <3>2. CASE Stable(m)
      BY <3>1, <3>2
    <3>3. CASE ~ Stable(m)
      <4>1. PICK n \in Node : p[n] # m[n]
        <5> HIDE DEF m, p
        <5> QED
          BY <3>1, <3>3 DEF Memberships
      <4>2. Members(m) \cup {n} \subseteq Members(p) /\ n \notin Members(m)
        <5> HIDE DEF m, p
        <5> QED
          BY <3>1, <4>1, PassAdds
      <4>3. Cardinality(Members(m)) >= k - 1
        BY <2>2, <3>3
      <4> HIDE DEF Members, m, p
      <4>4. /\ Cardinality(Members(m) \cup {n}) = Cardinality(Members(m)) + 1
            /\ Cardinality(Members(m) \cup {n}) <= Cardinality(Members(p))
        BY <1>5, <3>1, <4>2, FS_AddElement, FS_Subset
      <4>5. Cardinality(Members(p)) >= k
        BY <1>3, <1>5, <3>1, <4>3, <4>4
      <4> QED
        BY <4>5 DEF p
    <3> QED
      BY <3>2, <3>3
  <2> HIDE DEF T
  <2>3. \A k \in 0 .. Size : k \in T
    BY <1>3, <2>1, <2>2, Counting
  <2>4. Size \in T
    BY <1>3, <2>3
  <2> QED
    BY <2>4 DEF T
<1>7. Stable(f[Size])
  <2> SUFFICES ASSUME Cardinality(Members(f[Size])) >= Size PROVE Stable(f[Size])
    BY <1>6
  <2> DEFINE m == f[Size]
  <2>1. m \in Memberships
    BY <1>2, <1>3
  <2>2. Members(m) = Node
    <3>1. Members(m) \subseteq Node
      OBVIOUS
    <3> HIDE DEF Members
    <3>2. Cardinality(Members(m)) <= Size /\ (Size = Cardinality(Members(m)) => Members(m) = Node)
      BY <3>1, SizeIsNat, FS_Subset DEF Size
    <3> QED
      BY <1>3, <1>5, <2>1, <3>2
  <2>3. \A n \in Node : MembershipPass(g, m)[n] = m[n]
    <3> HIDE DEF m
    <3> QED
      BY <2>1, <2>2, PassAdds
  <2> HIDE DEF m
  <2>4. MembershipPass(g, m) = m
    BY <2>1, <2>3, PassAdds DEF Memberships
  <2> QED
    BY <2>4 DEF m
<1> QED
  BY <1>1, <1>4, <1>7

\* The dependency map contains the inputs, and a join depends on whatever its
\* group does not pass on (buildDependencies, branchTerminals).
LEMMA CompiledPlansWait ==
  ASSUME NEW g, NEW n \in Node
  PROVE  /\ g.inputs[n] \subseteq Dependencies(g)[n]
         /\ g.join[n] # NoGroup =>
              \A m \in Node : GroupOf(g)[m] = g.join[n] =>
                 \/ m \in Dependencies(g)[n]
                 \/ \E s \in Node : GroupOf(g)[s] = g.join[n] /\ m \in g.inputs[s]
<1> DEFINE own == Membership(g)
<1> HIDE DEF own
<1>1. g.inputs[n] \subseteq Dependencies(g)[n]
  BY DEF Dependencies
<1>2. ASSUME NEW h, h # NoGroup, g.join[n] = h, NEW m \in Node, GroupOf(g)[m] = h,
             m \notin Dependencies(g)[n]
      PROVE  \E s \in Node : GroupOf(g)[s] = h /\ m \in g.inputs[s]
  <2>1. own[m] # NoBranch /\ own[m].group = h
    BY <1>2 DEF GroupOf, own
  <2>2. m \notin BranchTerminals(g, h)
    BY <1>2 DEF Dependencies
  <2>3. PICK s \in Node : m \in g.inputs[s] /\ own[s] = own[m]
    BY <2>1, <2>2 DEF BranchTerminals, own
  <2>4. GroupOf(g)[s] = h
    BY <2>1, <2>3 DEF GroupOf, own
  <2> QED
    BY <2>3, <2>4
<1> QED
  BY <1>1, <1>2

\* The graph of a loaded config is one the passes are about.
LEMMA LoadedWorkflow ==
  ASSUME LoaderInv, verdict = "levels"
  PROVE  /\ IsWorkflow(w) /\ ForkGraphIsValid(w)
         /\ \A n \in Node : w.fork[n] = NoBranch \/ w.join[n] = NoGroup
         /\ \A n \in Node : w.inputs[n] \subseteq deps[n]
         /\ deps = Dependencies(w)
<1>1. Sound(config) /\ w = GraphOf(config) /\ deps = Dependencies(w)
  BY LevelsAreOfALoad DEF LoaderInv
<1>2. Node \subseteq Ids(config) /\ Node \subseteq Id
  BY DEF Ids, Id
<1>3. /\ w.inputs = [n \in Node |-> config.inputs[n]]
      /\ w.fork = [n \in Node |-> config.fork[n]]
      /\ w.join = [n \in Node |-> config.join[n]]
  BY <1>1 DEF GraphOf
<1>4. NodesAreParsed(config)
  BY <1>1 DEF Sound, IsParsed
<1>5. IsWorkflow(w)
  <2>1. \A n \in Node : config.inputs[n] \subseteq Node
    BY <1>1, SoundIsWhole
  <2>2. \A n \in Node : config.fork[n] \in Branch \cup {NoBranch} /\ config.join[n] \in Group \cup {NoGroup}
    BY <1>2, <1>4 DEF NodesAreParsed
  <2> QED
    BY <1>3, <2>1, <2>2 DEF IsWorkflow, Memberships
<1>6. \A n \in Node : w.fork[n] = NoBranch \/ w.join[n] = NoGroup
  <2>1. \A n \in Node : JoinIsWhole(config, n)
    BY <1>1, <1>2 DEF Sound
  <2> QED
    BY <1>3, <2>1 DEF JoinIsWhole
<1>7. \A n \in Node : w.inputs[n] \subseteq deps[n]
  BY <1>1, CompiledPlansWait
<1> QED
  BY <1>1, <1>5, <1>6, <1>7 DEF Sound

\* Who opened the branch of n: the member that comes first.
LEMMA OpenedEarlier ==
  ASSUME LoaderInv, verdict = "levels", NEW n \in Node, NEW own, own = Membership(w),
         own[n] # NoBranch
  PROVE  \E f \in Node : w.fork[f] = own[n] /\ (f = n \/ LevelOf(f) < LevelOf(n))
<1>1. SortInv /\ Placed = Node /\ GraphIsWhole
  BY LevelsAreOfALoad
<1>2. /\ IsWorkflow(w) /\ ForkGraphIsValid(w) /\ \A x \in Node : w.inputs[x] \subseteq deps[x]
  BY LoadedWorkflow
<1>3. Reached(w, own)
  BY <1>2, MembershipIsFixpoint
<1>4. \A x \in Node : \A d \in deps[x] : LevelOf(d) < LevelOf(x) /\ d \in Node
  BY <1>1, DependsLater
<1>5. \A x \in Node : LevelOf(x) \in Nat
  BY <1>1, LevelOfIs
<1> DEFINE Mates == {x \in Node : own[x] = own[n]}
           T == {LevelOf(x) : x \in Mates}
<1>6. T \in SUBSET Nat /\ T # {}
  BY <1>5
<1>7. PICK low \in T : \A y \in T : low <= y
  BY <1>6, LeastNumber
<1>8. PICK f \in Mates : LevelOf(f) = low
  BY <1>7
<1>9. \A x \in Mates : LevelOf(f) <= LevelOf(x)
  BY <1>7, <1>8
<1>10. ASSUME NEW x \in Mates, LevelOf(x) = LevelOf(f) PROVE w.fork[x] = own[n]
  <2> SUFFICES ASSUME w.fork[x] = NoBranch PROVE FALSE
    BY <1>3 DEF Reached
  <2>1. PICK i \in w.inputs[x] : own[i] = own[x]
    BY <1>3 DEF Reached
  <2>2. i \in Node /\ LevelOf(i) < LevelOf(x)
    BY <1>2, <1>4, <2>1
  <2>3. LevelOf(f) <= LevelOf(i)
    BY <1>9, <2>1, <2>2
  <2> QED
    BY <1>5, <1>10, <2>2, <2>3
<1>11. w.fork[f] = own[n]
  BY <1>10
<1>12. ASSUME f # n PROVE LevelOf(f) < LevelOf(n)
  <2>1. LevelOf(f) # LevelOf(n)
    BY <1>2, <1>10, <1>11, <1>12 DEF ForkGraphIsValid
  <2> QED
    BY <1>5, <1>9, <2>1
<1> QED
  BY <1>11, <1>12

\* The inputs of a node that neither opens nor joins are of its branch or of none.
LEMMA InputsStayInside ==
  ASSUME LoaderInv, verdict = "levels", NEW n \in Node, NEW own, own = Membership(w),
         w.fork[n] = NoBranch, w.join[n] = NoGroup, NEW i \in w.inputs[n], own[i] # NoBranch
  PROVE  own[i] = own[n]
<1>1. IsWorkflow(w) /\ ForkGraphIsValid(w)
  BY LoadedWorkflow
<1>2. Reached(w, own) /\ MembershipPass(w, own) = own
  BY <1>1, MembershipIsFixpoint
<1> DEFINE Of == InputBranches(w, own, n)
<1>3. Cardinality(Of) <= 1 \/ ~ (Cardinality(Of) \in Nat)
  <2>1. ~ (Cardinality(Of) > 1)
    BY <1>1 DEF ForkGraphIsValid, ReadsTwoBranches
  <2> QED
    BY <2>1
<1>4. IsFiniteSet(Of) /\ Cardinality(Of) \in Nat
  <2>1. w.inputs[n] \subseteq Node
    BY <1>1 DEF IsWorkflow
  <2>2. IsFiniteSet(w.inputs[n])
    BY <2>1, SizeIsNat, FS_Subset
  <2> DEFINE All == {own[x] : x \in w.inputs[n]}
             f == [x \in w.inputs[n] |-> own[x]]
  <2>3. f \in Surjection(w.inputs[n], All)
    BY DEF Surjection
  <2>4. IsFiniteSet(All)
    BY <2>2, <2>3, FS_Surjection
  <2>5. Of \subseteq All
    BY DEF InputBranches
  <2>6. IsFiniteSet(Of)
    BY <2>4, <2>5, FS_Subset
  <2> QED
    BY <2>6, FS_CardinalityType
<1>5. own[i] \in Of
  BY DEF InputBranches
<1>6. Cardinality(Of) = 1
  <2>1. Cardinality(Of) # 0
    BY <1>4, <1>5, FS_EmptySet
  <2> QED
    BY <1>3, <1>4, <2>1
<1>7. Of = {own[i]}
  BY <1>4, <1>5, <1>6, FS_Singleton
<1>8. CASE own[n] = NoBranch
  <2>1. MembershipPass(w, own)[n] = CHOOSE b \in Of : TRUE
    BY <1>6, <1>8 DEF MembershipPass
  <2>2. own[n] \in Of
    BY <1>2, <1>5, <2>1
  <2> QED
    BY <1>7, <2>2
<1>9. CASE own[n] # NoBranch
  <2>1. PICK j \in w.inputs[n] : own[j] = own[n]
    BY <1>2, <1>9 DEF Reached
  <2>2. own[n] \in Of
    BY <1>9, <2>1 DEF InputBranches
  <2> QED
    BY <1>7, <2>2
<1> QED
  BY <1>8, <1>9

\* Every member of a branch comes after the node that opened it, and who takes an
\* input from a branch is in it, opens one of its own or joins (config.ts).
THEOREM BranchesStayClosed == Spec => []BranchesAreClosed
<1>1. LoaderInv => BranchesAreClosed
  <2> DEFINE own == Membership(w)
  <2> HIDE DEF own
  <2> SUFFICES ASSUME LoaderInv, verdict = "levels", NEW n \in Node
               PROVE  /\ own[n] # NoBranch =>
                           \E f \in Node : w.fork[f] = own[n] /\ (f = n \/ LevelOf(f) < LevelOf(n))
                      /\ \A i \in w.inputs[n] :
                           own[i] \notin {NoBranch, own[n]} => w.fork[n] # NoBranch \/ w.join[n] # NoGroup
    BY DEF BranchesAreClosed, own
  <2>1. own = Membership(w)
    BY DEF own
  <2>2. ASSUME own[n] # NoBranch
        PROVE  \E f \in Node : w.fork[f] = own[n] /\ (f = n \/ LevelOf(f) < LevelOf(n))
    BY <2>1, <2>2, OpenedEarlier
  <2>3. ASSUME NEW i \in w.inputs[n], own[i] \notin {NoBranch, own[n]}
        PROVE  w.fork[n] # NoBranch \/ w.join[n] # NoGroup
    BY <2>1, <2>3, InputsStayInside
  <2> QED
    BY <2>2, <2>3
<1>2. [](LoaderInv => BranchesAreClosed)
  BY <1>1, PTL
<1> QED
  BY <1>2, LoaderHolds, PTL

\* Wherever one looks in an accepted graph a node waits for nobody there and one is
\* waited for by nobody there, and a join is in no group and waits for its own
\* (buildDependencies, branchTerminals and detectCycles over what was accepted).
THEOREM DependenciesAlwaysSuffice == Spec => []DependenciesSuffice
<1>1. ASSUME LoaderInv, verdict = "levels", NEW S \in (SUBSET Node) \ {{}}
      PROVE  /\ \E n \in S : deps[n] \cap S = {}
             /\ \E n \in S : \A m \in S : n \notin deps[m]
  <2>1. SortInv /\ Placed = Node /\ GraphIsWhole
    BY <1>1, LevelsAreOfALoad
  <2>2. \A n \in Node : \A d \in deps[n] : LevelOf(d) < LevelOf(n)
    BY <2>1, DependsLater
  <2>3. Len(levels) \in Nat /\ \A n \in S : LevelOf(n) \in 0 .. Len(levels)
    BY <2>1, LevelOfIs
  <2> DEFINE T == {LevelOf(n) : n \in S}
  <2>4. T \in SUBSET (0 .. Len(levels)) /\ T \in SUBSET Nat /\ T # {}
    BY <2>3
  <2>5. PICK low \in T : \A y \in T : low <= y
    BY <2>4, LeastNumber
  <2>6. PICK top \in T : \A y \in T : y <= top
    BY <2>3, <2>4, GreatestNumber
  <2>7. PICK a \in S, z \in S : LevelOf(a) = low /\ LevelOf(z) = top
    BY <2>5, <2>6
  <2>8. \A n \in S : LevelOf(a) <= LevelOf(n) /\ LevelOf(n) <= LevelOf(z)
    BY <2>5, <2>6, <2>7
  <2>9. \A d \in S : d \notin deps[a]
    BY <2>2, <2>3, <2>8
  <2>10. \A m \in S : z \notin deps[m]
    BY <2>2, <2>3, <2>8
  <2> QED
    BY <2>9, <2>10
<1>2. ASSUME LoaderInv, verdict = "levels", NEW n \in Node
      PROVE  /\ w.inputs[n] \subseteq deps[n]
             /\ w.join[n] # NoGroup =>
                  /\ GroupOf(w)[n] = NoGroup
                  /\ \A m \in Node : GroupOf(w)[m] = w.join[n] =>
                       m \in deps[n] \/ \E s \in Node : GroupOf(w)[s] = w.join[n] /\ m \in w.inputs[s]
  <2>1. /\ IsWorkflow(w) /\ (w.fork[n] = NoBranch \/ w.join[n] = NoGroup)
        /\ w.inputs[n] \subseteq deps[n] /\ deps = Dependencies(w)
    BY <1>2, LoadedWorkflow
  <2>2. Reached(w, Membership(w))
    BY <2>1, MembershipIsFixpoint
  <2>3. ASSUME w.join[n] # NoGroup PROVE GroupOf(w)[n] = NoGroup
    <3>1. Membership(w)[n] = NoBranch
      BY <2>1, <2>2, <2>3 DEF Reached
    <3> QED
      BY <3>1 DEF GroupOf
  <2> QED
    BY <2>1, <2>3, CompiledPlansWait
<1>3. LoaderInv => DependenciesSuffice
  BY <1>1, <1>2 DEF DependenciesSuffice
<1>4. [](LoaderInv => DependenciesSuffice)
  BY <1>3, PTL
<1> QED
  BY <1>4, LoaderHolds, PTL

\* The assumptions of Scheduler on its plans hold of what the loader lets through
\* (loadConfig, buildLevels).
THEOREM AcceptedGraphsCanRun == Spec => []GraphsCanBeScheduled
<1>1. BranchesAreClosed /\ DependenciesSuffice => GraphsCanBeScheduled
  BY DEF GraphsCanBeScheduled
<1> QED
  BY <1>1, BranchesStayClosed, DependenciesAlwaysSuffice, PTL

\* What a loop's body reads, and the numbers a question counts by, are there in
\* every workflow that is accepted (loadConfig).
THEOREM NodesStayComplete == Spec => []NodesAreComplete
<1>1. LoopBodyIsFed /\ QuestionsCanBeAwaited => NodesAreComplete
  BY DEF NodesAreComplete
<1> QED
  BY <1>1, LoopBodyStaysFed, QuestionsStayAwaited, PTL

=============================================================================
