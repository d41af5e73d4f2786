--------------------------- MODULE JournalProofs ---------------------------
(***************************************************************************)
(* Proofs about the journal of a run (Journal), for any nodes and for as   *)
(* many records as one likes: what a reader finds in it can be trusted,    *)
(* and it gives the engine a durable state (DurableState), across writes   *)
(* that land out of order, crashes and resumes.  Both need that no write   *)
(* is cut exactly between its record and its newline: Journal, Crash.      *)
(***************************************************************************)
EXTENDS Journal, SequenceTheorems, FiniteSetTheorems, WellFoundedInduction, TLAPS

\* No write is cut exactly between its record and its newline.
CutsShowInTheRecord == Tears \subseteq {"record"}

\* The writers with an append under way, and its record.
Busy == {v \in Writer : appending[v] # <<>>}
\* The record that a writer appends.
Rec(v) == Head(appending[v])

\* Every variable holds a value of its type, nobody appends to a run that is held
\* by no engine, and the journal never ends in anything worse than half a record.
ShapeInv ==
  /\ stage \in {"start", "declare", "work", "ended"} /\ toDeclare \subseteq Node
  /\ run \in [status : Statuses, attempt : Nat]
  /\ mem \in [Node -> Snapshot]
  /\ alive \in BOOLEAN /\ overlapped \in BOOLEAN
  /\ nextSeq \in Nat /\ prevHash \in Nat /\ stamp \in 0 .. MaxStamps
  /\ DOMAIN appending = Writer
  /\ \A v \in Busy : appending[v] = <<Rec(v)>> /\ Rec(v) \in Record
  /\ hashed \subseteq Busy
  /\ file \in Seq(Record)
  /\ ~ alive => Busy = {}
  /\ tail \in {"none", "record"} /\ (alive => tail = "none")

\* No number is given out twice.
SeqInv ==
  /\ \A i \in DOMAIN file : file[i].seq < nextSeq
  /\ \A i, j \in DOMAIN file : file[i].seq = file[j].seq => i = j
  /\ \A v \in Busy : /\ Rec(v).seq < nextSeq
                     /\ \A i \in DOMAIN file : file[i].seq # Rec(v).seq
  /\ \A u, v \in Busy : Rec(u).seq = Rec(v).seq => u = v

\* The append under way declares the node.
Declaring(n) == Run \in Busy /\ Rec(Run).kind = "node_declared" /\ Rec(Run).node = n

\* Who appends what, and when.
AppendInv ==
  alive =>
  /\ toDeclare # {} => stage \in {"start", "declare"}
  /\ \A n \in Node : n \in Busy =>
       /\ stage \in {"work", "ended"}
       /\ Rec(n).kind = "node" /\ Rec(n).node = n /\ Rec(n).snapshot = mem[n]
  /\ Run \in Busy =>
       \/ stage = "declare" /\ Rec(Run).kind \in {"run_started", "node_declared"}
       \/ stage = "work" /\ Rec(Run).kind = "run_attempt_started"
       \/ stage = "ended" /\ Rec(Run).kind = "run_ended"
  /\ \A n \in Node : n \in toDeclare \/ Declaring(n) =>
       /\ mem[n] = Declared /\ ~ (n \in toDeclare /\ Declaring(n))
       /\ \A i \in DOMAIN file : file[i].kind = "node" => file[i].node # n

\* A node that no append tells of is on disk as it is in memory.
DiskInv ==
  alive => \A n \in Node : n \notin toDeclare /\ n \notin Busy /\ ~ Declaring(n) =>
             Replayed(n) = mem[n]

\* The attempts on disk go up line by line, to the one the run is at; once its
\* start or its end is written, the replay finds it.
AttemptInv ==
  /\ \A i, j \in DOMAIN file :
        file[i].kind = "run_attempt_started" /\ file[j].kind = "run_attempt_started" /\ i < j =>
        file[i].attempt < file[j].attempt
  /\ alive => \A i \in DOMAIN file : file[i].kind = "run_attempt_started" =>
                 file[i].attempt <= run.attempt
  /\ alive /\ Run \in Busy /\ Rec(Run).kind = "run_attempt_started" =>
       /\ Rec(Run).attempt = run.attempt
       /\ \A i \in DOMAIN file : file[i].kind = "run_attempt_started" => file[i].attempt < run.attempt
  /\ alive /\ stage \in {"work", "ended"} /\ ~ (Run \in Busy /\ stage = "work") =>
       ReplayedAttempt = run.attempt
  /\ alive /\ stage = "ended" /\ Run \in Busy => Rec(Run).snapshot.status = run.status
  /\ alive /\ stage = "ended" /\ Run \notin Busy => ReplayedStatus = run.status

\* While appends have never overlapped, the next record links to the last line.
ChainInv ==
  ~ overlapped =>
    /\ ChainVerifies
    /\ \A u, v \in Busy : u = v
    /\ alive /\ hashed = {} => prevHash = LastHash
    /\ \A v \in Busy : Rec(v).prev_hash = LastHash
    /\ \A v \in hashed : prevHash = Hash(Rec(v))

-----------------------------------------------------------------------------
(* Numbers, lines and records.                                             *)

\* The order of the numbers, as a set of pairs.
Less == {p \in Nat \X Nat : p[1] < p[2]}

\* The least-number principle, from the library's well-foundedness of Nat.
LEMMA LeastNumber ==
  ASSUME NEW T \in SUBSET Nat, T # {}
  PROVE  \E x \in T : \A y \in T : x <= y
<1>1. IsWellFoundedOn(Less, Nat)
  BY NatLessThanWellFounded DEF OpToRel, Less
<1>2. PICK x \in T : \A y \in T : ~ (<<y, x>> \in Less)
  BY <1>1, WFMin
<1>3. ASSUME NEW y \in T PROVE x <= y
  <2>1. x \in Nat /\ y \in Nat /\ ~ (<<y, x>> \in Less)
    BY <1>2
  <2>2. <<y, x>> \in Nat \X Nat /\ <<y, x>>[1] = y /\ <<y, x>>[2] = x
    BY <2>1
  <2>3. ~ (y < x)
    BY <2>1, <2>2 DEF Less
  <2> QED
    BY <2>1, <2>3
<1> QED
  BY <1>3

\* Max is the greatest of some numbers below a bound.
LEMMA GreatestNumber ==
  ASSUME NEW N \in Nat, NEW T \in SUBSET (0 .. N), T # {}
  PROVE  /\ Max(T) \in T
         /\ \A y \in T : y <= Max(T)
<1> DEFINE U == {u \in 0 .. N : N - u \in T}
<1>1. U \in SUBSET Nat
  OBVIOUS
<1>2. U # {}
  <2>1. PICK x \in T : TRUE
    OBVIOUS
  <2>2. N - x \in 0 .. N /\ N - (N - x) = x
    OBVIOUS
  <2> QED
    BY <2>1, <2>2
<1>3. PICK u \in U : \A v \in U : u <= v
  BY <1>1, <1>2, LeastNumber
<1>4. N - u \in T /\ u \in 0 .. N
  BY <1>3
<1>5. ASSUME NEW y \in T PROVE N - u >= y
  <2>1. y \in 0 .. N /\ N - y \in 0 .. N /\ N - (N - y) = y
    OBVIOUS
  <2>2. N - y \in U
    BY <2>1
  <2>3. u <= N - y
    BY <1>3, <2>2
  <2> QED
    BY <1>4, <2>1, <2>3
<1>6. \E x \in T : \A y \in T : x >= y
  BY <1>4, <1>5
<1>7. Max(T) \in T /\ \A y \in T : Max(T) >= y
  BY <1>6 DEF Max
<1>8. \A x, y \in T : x >= y => y <= x
  OBVIOUS
<1> QED
  BY <1>7, <1>8

\* The lines, numbered.
LEMMA Lines ==
  ASSUME ShapeInv
  PROVE  /\ Len(file) \in Nat /\ DOMAIN file = 1 .. Len(file)
         /\ \A i \in DOMAIN file : file[i] \in Record
  BY DEF ShapeInv

\* The fields of a record have their types.
LEMMA Fields ==
  ASSUME NEW r \in Record
  PROVE  /\ r.seq \in Nat /\ r.kind \in Kinds /\ r.node \in Writer
         /\ r.snapshot \in Snapshot /\ r.attempt \in Nat
         /\ r.stamp \in Nat /\ r.prev_hash \in Nat
  BY MaxStampsAssumption DEF Record

\* The snapshots that the operations take are snapshots.
LEMMA Snapshots ==
  /\ Undeclared \in Snapshot /\ Declared \in Snapshot
  /\ \A status \in Statuses, s \in 0 .. MaxStamps : [status |-> status, stamp |-> s] \in Snapshot
  BY MaxStampsAssumption DEF Snapshot, Undeclared, Declared, Statuses

\* A record is appended.
LEMMA Issued ==
  ASSUME ShapeInv, NEW w \in Writer, NEW kind \in Kinds, NEW n \in Writer,
         NEW snapshot \in Snapshot, NEW attempt \in Nat,
         Issue(w, kind, n, snapshot, attempt)
  PROVE  /\ alive /\ w \notin Busy /\ Busy' = Busy \cup {w}
         /\ DOMAIN appending' = Writer
         /\ appending'[w] = <<Rec(w)'>> /\ Rec(w)' \in Record
         /\ Rec(w)'.seq = nextSeq /\ Rec(w)'.kind = kind /\ Rec(w)'.node = n
         /\ Rec(w)'.snapshot = snapshot /\ Rec(w)'.attempt = attempt
         /\ Rec(w)'.prev_hash = prevHash
         /\ \A v \in Writer \ {w} : appending'[v] = appending[v] /\ Rec(v)' = Rec(v)
         /\ nextSeq' = nextSeq + 1 /\ stamp' = stamp + 1 /\ stamp' \in 0 .. MaxStamps
         /\ overlapped' = (overlapped \/ Busy # {})
         /\ UNCHANGED <<alive, prevHash, hashed, file, tail>>
<1> DEFINE r == [seq |-> nextSeq, kind |-> kind, node |-> n, snapshot |-> snapshot,
                 attempt |-> attempt, stamp |-> stamp', prev_hash |-> prevHash]
<1>1. stamp' = stamp + 1 /\ stamp' \in 0 .. MaxStamps
  BY MaxStampsAssumption DEF Issue, ShapeInv
<1>2. r \in Record
  BY <1>1 DEF Record, ShapeInv
<1>3. /\ r.seq = nextSeq /\ r.kind = kind /\ r.node = n /\ r.snapshot = snapshot
      /\ r.attempt = attempt /\ r.prev_hash = prevHash
  OBVIOUS
<1>4. appending' = [appending EXCEPT ![w] = <<r>>]
  BY DEF Issue
<1>n. nextSeq' = nextSeq + 1 /\ alive /\ appending[w] = <<>>
      /\ UNCHANGED <<alive, prevHash, hashed, file, tail>>
  BY DEF Issue
<1>o. overlapped' = (overlapped \/ Busy # {})
  BY DEF Issue, Busy
<1> HIDE DEF r
<1>5. /\ DOMAIN appending' = Writer /\ appending'[w] = <<r>>
      /\ \A v \in Writer \ {w} : appending'[v] = appending[v]
  BY <1>4 DEF ShapeInv
<1>6. Rec(w)' = r
  BY <1>5 DEF Rec
<1>7. \A v \in Writer \ {w} : Rec(v)' = Rec(v)
  BY <1>5 DEF Rec
<1>8. Busy' = Busy \cup {w} /\ w \notin Busy
  <2>1. <<r>> # <<>>
    OBVIOUS
  <2> QED
    BY <1>5, <1>n, <2>1 DEF Busy
<1> QED
  BY <1>1, <1>2, <1>3, <1>5, <1>6, <1>7, <1>8, <1>n, <1>o

\* A line is written.
LEMMA LineWritten ==
  ASSUME ShapeInv, NEW w \in Writer, Written(w)
  PROVE  /\ alive /\ w \in Busy /\ w \in hashed /\ Busy' = Busy \ {w}
         /\ hashed' = hashed \ {w}
         /\ DOMAIN appending' = Writer
         /\ \A v \in Writer \ {w} : appending'[v] = appending[v] /\ Rec(v)' = Rec(v)
         /\ Rec(w) \in Record /\ file' \in Seq(Record)
         /\ Len(file') = Len(file) + 1
         /\ \A i \in DOMAIN file : file'[i] = file[i]
         /\ file'[Len(file) + 1] = Rec(w)
         /\ UNCHANGED <<state, alive, writer, stamp, overlapped, tail>>
<1>1. alive /\ w \in Busy /\ Rec(w) \in Record /\ tail = "none" /\ file \in Seq(Record)
  BY DEF Written, ShapeInv
<1>2. file' = Append(file, Rec(w)) /\ tail' = tail
  BY <1>1 DEF Written, Rec
<1>3. /\ file' \in Seq(Record) /\ Len(file') = Len(file) + 1
      /\ \A i \in 1 .. Len(file) : file'[i] = file[i]
      /\ file'[Len(file) + 1] = Rec(w)
  BY <1>1, <1>2, AppendProperties
<1>4. /\ DOMAIN appending' = Writer /\ appending'[w] = <<>>
      /\ \A v \in Writer \ {w} : appending'[v] = appending[v]
  BY DEF Written, ShapeInv
<1>5. \A v \in Writer \ {w} : Rec(v)' = Rec(v)
  BY <1>4 DEF Rec
<1>6. Busy' = Busy \ {w}
  BY <1>4 DEF Busy
<1> QED
  BY <1>1, <1>2, <1>3, <1>4, <1>5, <1>6, Lines DEF Written

-----------------------------------------------------------------------------
(* What a reader finds in a file whose numbers are all different.          *)

\* The lines of a kind, and those of a node.
OfKind(f, kind) == {i \in DOMAIN f : f[i].kind = kind}
OwnIn(f, n)     == {i \in OfKind(f, "node") : f[i].node = n}

\* What the replay makes of a file: the state of a node, the attempt and the
\* status of the run.
StateIn(f, n) ==
  IF OwnIn(f, n) # {} THEN f[Max(OwnIn(f, n))].snapshot
  ELSE IF \E i \in OfKind(f, "node_declared") : f[i].node = n THEN Declared
  ELSE Undeclared

AttemptIn(f) == IF OfKind(f, "run_attempt_started") = {} THEN 1
                ELSE f[Max(OfKind(f, "run_attempt_started"))].attempt
StatusIn(f)  == IF OfKind(f, "run_ended") = {} THEN "running"
                ELSE f[Max(OfKind(f, "run_ended"))].snapshot.status

\* No two lines have the same number.
NumbersDiffer == \A i, j \in DOMAIN file : file[i].seq = file[j].seq => i = j

\* The replay keeps every record of such a file.
ReadsEverything ==
  /\ \A n \in Node : Replayed(n) = StateIn(file, n)
  /\ ReplayedAttempt = AttemptIn(file)
  /\ ReplayedStatus = StatusIn(file)

\* Lines with different numbers have different event ids, so the replay drops none.
LEMMA NothingIsDropped == file \in Seq(Record) /\ NumbersDiffer => ReadsEverything
<1> SUFFICES ASSUME file \in Seq(Record), NumbersDiffer
             PROVE  ReadsEverything
  OBVIOUS
<1>1. ASSUME NEW i \in DOMAIN file PROVE IsFirst(i)
  <2>1. ASSUME NEW j \in 1 .. i - 1 PROVE EventId(file[j]) # EventId(file[i])
    <3>1. j \in DOMAIN file /\ j # i
      OBVIOUS
    <3>2. file[j].seq # file[i].seq
      BY <3>1 DEF NumbersDiffer
    <3> QED
      BY <3>2 DEF EventId
  <2> QED
    BY <2>1 DEF IsFirst
<1>2. \A kind : Applied(kind) = OfKind(file, kind)
  BY <1>1 DEF Applied, OfKind
<1>3. ASSUME NEW n \in Node PROVE Replayed(n) = StateIn(file, n)
  <2>1. {i \in Applied("node") : file[i].node = n} = OwnIn(file, n)
    BY <1>2 DEF OwnIn
  <2> QED
    BY <1>2, <2>1 DEF Replayed, StateIn
<1>4. ReplayedAttempt = AttemptIn(file) /\ ReplayedStatus = StatusIn(file)
  BY <1>2 DEF ReplayedAttempt, AttemptIn, ReplayedStatus, StatusIn
<1> QED
  BY <1>3, <1>4 DEF ReadsEverything

\* And so it does after a step.
LEMMA NothingWillBeDropped ==
  (file \in Seq(Record))' /\ NumbersDiffer' => ReadsEverything'
  BY NothingIsDropped, PTL

\* The last of some lines.
LEMMA LastOfLines ==
  ASSUME NEW f \in Seq(Record), NEW S \in SUBSET DOMAIN f, S # {}
  PROVE  /\ Max(S) \in S /\ Max(S) \in DOMAIN f /\ f[Max(S)] \in Record
         /\ \A i \in S : i <= Max(S)
<1>1. Len(f) \in Nat /\ DOMAIN f = 1 .. Len(f)
  OBVIOUS
<1>2. \A i \in DOMAIN f : f[i] \in Record
  OBVIOUS
<1>3. S \in SUBSET (0 .. Len(f))
  BY <1>1
<1>4. Max(S) \in S /\ \A i \in S : i <= Max(S)
  BY <1>1, <1>3, GreatestNumber
<1> QED
  BY <1>2, <1>4

\* What is read has its type.
LEMMA ReadTypes ==
  ASSUME NEW f \in Seq(Record)
  PROVE  /\ \A n \in Node : StateIn(f, n) \in Snapshot
         /\ AttemptIn(f) \in Nat /\ StatusIn(f) \in Statuses
<1>1. ASSUME NEW n \in Node PROVE StateIn(f, n) \in Snapshot
  <2>1. CASE OwnIn(f, n) # {}
    <3>1. f[Max(OwnIn(f, n))] \in Record
      BY <2>1, LastOfLines DEF OwnIn, OfKind
    <3> QED
      BY <2>1, <3>1, Fields DEF StateIn
  <2>2. CASE OwnIn(f, n) = {}
    BY <2>2, Snapshots DEF StateIn
  <2> QED
    BY <2>1, <2>2
<1>2. AttemptIn(f) \in Nat
  <2>1. CASE OfKind(f, "run_attempt_started") # {}
    <3>1. f[Max(OfKind(f, "run_attempt_started"))] \in Record
      BY <2>1, LastOfLines DEF OfKind
    <3> QED
      BY <2>1, <3>1, Fields DEF AttemptIn
  <2>2. CASE OfKind(f, "run_attempt_started") = {}
    BY <2>2 DEF AttemptIn
  <2> QED
    BY <2>1, <2>2
<1>3. StatusIn(f) \in Statuses
  <2>1. CASE OfKind(f, "run_ended") # {}
    <3>1. f[Max(OfKind(f, "run_ended"))] \in Record
      BY <2>1, LastOfLines DEF OfKind
    <3>2. f[Max(OfKind(f, "run_ended"))].snapshot \in Snapshot
      BY <3>1, Fields
    <3> QED
      BY <2>1, <3>2 DEF StatusIn, Snapshot
  <2>2. CASE OfKind(f, "run_ended") = {}
    BY <2>2 DEF StatusIn, Statuses
  <2> QED
    BY <2>1, <2>2
<1> QED
  BY <1>1, <1>2, <1>3

-----------------------------------------------------------------------------
(* One line more.                                                          *)

\* g is f and one line more.
Longer(f, g, r) == /\ f \in Seq(Record) /\ g \in Seq(Record) /\ r \in Record
                   /\ Len(g) = Len(f) + 1
                   /\ \A i \in DOMAIN f : g[i] = f[i]
                   /\ g[Len(f) + 1] = r

\* The lines of the longer file.
LEMMA LongerLines ==
  ASSUME NEW f, NEW g, NEW r, Longer(f, g, r)
  PROVE  /\ DOMAIN f = 1 .. Len(f) /\ DOMAIN g = 1 .. Len(g) /\ Len(f) \in Nat
         /\ DOMAIN g = DOMAIN f \cup {Len(f) + 1} /\ Len(f) + 1 \notin DOMAIN f
         /\ \A i \in DOMAIN f : g[i] = f[i]
         /\ g[Len(f) + 1] = r
  BY DEF Longer

\* The new line joins those of its kind.
LEMMA LongerKinds ==
  ASSUME NEW f, NEW g, NEW r, Longer(f, g, r), NEW kind
  PROVE  /\ r.kind = kind => OfKind(g, kind) = OfKind(f, kind) \cup {Len(f) + 1}
         /\ r.kind # kind => OfKind(g, kind) = OfKind(f, kind)
<1> DEFINE k == Len(f) + 1
<1>1. DOMAIN g = DOMAIN f \cup {k} /\ k \notin DOMAIN f /\ g[k] = r
      /\ \A i \in DOMAIN f : g[i] = f[i]
  BY LongerLines
<1> HIDE DEF k
<1>2. ASSUME r.kind = kind PROVE OfKind(g, kind) = OfKind(f, kind) \cup {k}
  BY <1>1, <1>2 DEF OfKind
<1>3. ASSUME r.kind # kind PROVE OfKind(g, kind) = OfKind(f, kind)
  BY <1>1, <1>3 DEF OfKind
<1> QED
  BY <1>2, <1>3 DEF k

\* The new line joins those of its node.
LEMMA LongerOwn ==
  ASSUME NEW f, NEW g, NEW r, Longer(f, g, r), NEW n
  PROVE  /\ r.kind = "node" /\ r.node = n => OwnIn(g, n) = OwnIn(f, n) \cup {Len(f) + 1}
         /\ ~ (r.kind = "node" /\ r.node = n) => OwnIn(g, n) = OwnIn(f, n)
<1> DEFINE k == Len(f) + 1
<1>1. DOMAIN g = DOMAIN f \cup {k} /\ k \notin DOMAIN f /\ g[k] = r
      /\ \A i \in DOMAIN f : g[i] = f[i]
  BY LongerLines
<1> HIDE DEF k
<1>2. ASSUME r.kind = "node", r.node = n PROVE OwnIn(g, n) = OwnIn(f, n) \cup {k}
  BY <1>1, <1>2 DEF OfKind, OwnIn
<1>3. ASSUME ~ (r.kind = "node" /\ r.node = n) PROVE OwnIn(g, n) = OwnIn(f, n)
  BY <1>1, <1>3 DEF OfKind, OwnIn
<1> QED
  BY <1>2, <1>3 DEF k

\* The new line is the last of its kind.
LEMMA NewLineIsLast ==
  ASSUME NEW f, NEW g, NEW r, Longer(f, g, r), NEW S \in SUBSET DOMAIN f
  PROVE  Max(S \cup {Len(f) + 1}) = Len(f) + 1
<1> DEFINE T == S \cup {Len(f) + 1}
<1>1. T \in SUBSET DOMAIN g /\ T # {} /\ Len(f) + 1 \in T
  BY LongerLines
<1>2. Max(T) \in T /\ Len(f) + 1 <= Max(T)
  BY <1>1, LastOfLines DEF Longer
<1>3. \A i \in T : i \in 1 .. Len(f) + 1
  BY LongerLines
<1> HIDE DEF T
<1>4. Max(T) \in 1 .. Len(f) + 1
  BY <1>2, <1>3
<1>5. Max(T) = Len(f) + 1
  BY <1>2, <1>4, LongerLines
<1> QED
  BY <1>5 DEF T

\* The last of some old lines reads as it did.
LEMMA OldLinesStay ==
  ASSUME NEW f, NEW g, NEW r, Longer(f, g, r), NEW S \in SUBSET DOMAIN f, S # {}
  PROVE  g[Max(S)] = f[Max(S)]
  BY LastOfLines DEF Longer

\* A line changes the state of the node it tells of, and of no other.
LEMMA StateAfter ==
  ASSUME NEW f, NEW g, NEW r, Longer(f, g, r), NEW n \in Node
  PROVE  /\ r.kind = "node" /\ r.node = n => StateIn(g, n) = r.snapshot
         /\ ~ (r.kind \in {"node", "node_declared"} /\ r.node = n) => StateIn(g, n) = StateIn(f, n)
         /\ r.kind = "node_declared" /\ r.node = n /\ OwnIn(f, n) = {} => StateIn(g, n) = Declared
<1>0. OwnIn(f, n) \subseteq DOMAIN f
  BY DEF OwnIn, OfKind
<1>1. ASSUME r.kind = "node", r.node = n PROVE StateIn(g, n) = r.snapshot
  <2>1. OwnIn(g, n) = OwnIn(f, n) \cup {Len(f) + 1}
    BY <1>1, LongerOwn
  <2>2. Max(OwnIn(g, n)) = Len(f) + 1
    BY <1>0, <2>1, NewLineIsLast
  <2>3. g[Max(OwnIn(g, n))] = r
    BY <2>2 DEF Longer
  <2>4. OwnIn(g, n) # {}
    BY <2>1
  <2> QED
    BY <2>3, <2>4 DEF StateIn
<1>2. ASSUME ~ (r.kind \in {"node", "node_declared"} /\ r.node = n)
      PROVE  StateIn(g, n) = StateIn(f, n)
  <2>1. OwnIn(g, n) = OwnIn(f, n)
    BY <1>2, LongerOwn
  <2>2. OwnIn(f, n) # {} => g[Max(OwnIn(f, n))] = f[Max(OwnIn(f, n))]
    BY <1>0, OldLinesStay
  <2>3. (\E i \in OfKind(g, "node_declared") : g[i].node = n)
        <=> (\E i \in OfKind(f, "node_declared") : f[i].node = n)
    <3>1. DOMAIN g = DOMAIN f \cup {Len(f) + 1} /\ g[Len(f) + 1] = r
          /\ \A i \in DOMAIN f : g[i] = f[i]
      BY LongerLines DEF Longer
    <3> QED
      BY <1>2, <3>1 DEF OfKind
  <2> QED
    BY <2>1, <2>2, <2>3 DEF StateIn
<1>3. ASSUME r.kind = "node_declared", r.node = n, OwnIn(f, n) = {}
      PROVE  StateIn(g, n) = Declared
  <2>1. OwnIn(g, n) = {}
    BY <1>3, LongerOwn
  <2>2. Len(f) + 1 \in OfKind(g, "node_declared")
    BY <1>3, LongerKinds
  <2>3. g[Len(f) + 1] = r
    BY DEF Longer
  <2>4. \E i \in OfKind(g, "node_declared") : g[i].node = n
    BY <1>3, <2>2, <2>3
  <2> QED
    BY <2>1, <2>4 DEF StateIn
<1> QED
  BY <1>1, <1>2, <1>3

\* A line that starts an attempt, or ends the run, is what the replay finds.
LEMMA RunAfter ==
  ASSUME NEW f, NEW g, NEW r, Longer(f, g, r)
  PROVE  /\ AttemptIn(g) = IF r.kind = "run_attempt_started" THEN r.attempt ELSE AttemptIn(f)
         /\ StatusIn(g) = IF r.kind = "run_ended" THEN r.snapshot.status ELSE StatusIn(f)
<1>0. \A kind : OfKind(f, kind) \subseteq DOMAIN f
  BY DEF OfKind
<1>1. ASSUME NEW kind, r.kind = kind
      PROVE  OfKind(g, kind) # {} /\ g[Max(OfKind(g, kind))] = r
  <2>1. OfKind(g, kind) = OfKind(f, kind) \cup {Len(f) + 1}
    BY <1>1, LongerKinds
  <2>2. Max(OfKind(g, kind)) = Len(f) + 1
    BY <1>0, <2>1, NewLineIsLast
  <2>3. g[Len(f) + 1] = r
    BY DEF Longer
  <2> QED
    BY <2>1, <2>2, <2>3
<1>2. ASSUME NEW kind, r.kind # kind
      PROVE  /\ OfKind(g, kind) = OfKind(f, kind)
             /\ OfKind(f, kind) # {} => g[Max(OfKind(f, kind))] = f[Max(OfKind(f, kind))]
  BY <1>0, <1>2, LongerKinds, OldLinesStay
<1>3. AttemptIn(g) = IF r.kind = "run_attempt_started" THEN r.attempt ELSE AttemptIn(f)
  BY <1>1, <1>2 DEF AttemptIn
<1>4. StatusIn(g) = IF r.kind = "run_ended" THEN r.snapshot.status ELSE StatusIn(f)
  BY <1>1, <1>2 DEF StatusIn
<1> QED
  BY <1>3, <1>4

-----------------------------------------------------------------------------
(* Types, and the numbers of the records.                                  *)

\* A crash loses the appends under way and at most tears a record.
LEMMA Crashed ==
  ASSUME CutsShowInTheRecord, Crash
  PROVE  /\ alive /\ alive' = FALSE /\ Busy' = {} /\ DOMAIN appending' = Writer
         /\ hashed' = {} /\ file' = file /\ tail' \in {tail, "record"}
         /\ UNCHANGED <<state, writer, stamp, overlapped>>
<1>1. file' = file /\ tail' \in {tail, "record"}
  BY DEF Crash, CutsShowInTheRecord
<1>2. DOMAIN appending' = Writer /\ \A v \in Writer : appending'[v] = <<>>
  BY DEF Crash
<1>3. Busy' = {}
  BY <1>2 DEF Busy
<1> QED
  BY <1>1, <1>2, <1>3 DEF Crash

\* The kinds of the records that each operation appends.
LEMMA KindsAre ==
  /\ "run_started" \in Kinds /\ "node_declared" \in Kinds /\ "node" \in Kinds
  /\ "run_attempt_started" \in Kinds /\ "run_ended" \in Kinds
  /\ Run \in Writer /\ Node \subseteq Writer
  BY DEF Kinds, Writer

\* The types hold at first.
LEMMA ShapeInit == Init => ShapeInv
<1> SUFFICES ASSUME Init PROVE ShapeInv
  OBVIOUS
<1>1. Busy = {} /\ DOMAIN appending = Writer
  BY DEF Init, Busy
<1>2. mem \in [Node -> Snapshot] /\ run \in [status : Statuses, attempt : Nat]
  BY Snapshots DEF Init, Statuses
<1>3. file \in Seq(Record) /\ 0 \in 0 .. MaxStamps
  BY MaxStampsAssumption DEF Init
<1> QED
  BY <1>1, <1>2, <1>3 DEF Init, ShapeInv

\* The numbers differ at first.
LEMMA SeqInit == Init => SeqInv
  BY DEF Init, SeqInv, Busy

\* The number that a resumed writer starts with is a new one.
LEMMA NextNumber ==
  ASSUME ShapeInv, SeqInv
  PROVE  /\ NextSeqOnDisk \in Nat
         /\ \A i \in DOMAIN file : file[i].seq < NextSeqOnDisk
<1> DEFINE T == {0} \cup {file[i].seq : i \in DOMAIN file}
<1>1. \A i \in DOMAIN file : file[i].seq \in 0 .. nextSeq
  BY Lines, Fields DEF SeqInv, ShapeInv
<1>2. nextSeq \in Nat
  BY DEF ShapeInv
<1>3. T \in SUBSET (0 .. nextSeq) /\ T # {}
  BY <1>1, <1>2
<1>4. Max(T) \in T /\ \A y \in T : y <= Max(T)
  BY <1>2, <1>3, GreatestNumber
<1>5. \A i \in DOMAIN file : file[i].seq \in T
  OBVIOUS
<1>6. NextSeqOnDisk = 1 + Max(T)
  BY DEF NextSeqOnDisk
<1>n. \A x \in T : x \in Nat
  BY <1>1, <1>2
<1> HIDE DEF T
<1>7. Max(T) \in Nat
  BY <1>4, <1>n
<1>8. ASSUME NEW i \in DOMAIN file PROVE file[i].seq < 1 + Max(T)
  BY <1>1, <1>2, <1>4, <1>5, <1>7
<1> QED
  BY <1>6, <1>7, <1>8

\* Every step keeps the types.
LEMMA ShapeStep ==
  ASSUME CutsShowInTheRecord, ShapeInv, SeqInv, [Next]_vars
  PROVE  ShapeInv'
<1>s. \A s \in Statuses : stamp < MaxStamps => [status |-> s, stamp |-> stamp + 1] \in Snapshot
  BY MaxStampsAssumption, Snapshots DEF ShapeInv
<1>i. ASSUME NEW w \in Writer, NEW kind \in Kinds, NEW n \in Writer,
             NEW snapshot \in Snapshot, NEW attempt \in Nat,
             Issue(w, kind, n, snapshot, attempt),
             stage' \in {"start", "declare", "work", "ended"}, toDeclare' \subseteq Node,
             run' \in [status : Statuses, attempt : Nat], mem' \in [Node -> Snapshot]
      PROVE  ShapeInv'
  <2>1. /\ alive /\ Busy' = Busy \cup {w} /\ DOMAIN appending' = Writer
        /\ appending'[w] = <<Rec(w)'>> /\ Rec(w)' \in Record
        /\ \A v \in Writer \ {w} : appending'[v] = appending[v] /\ Rec(v)' = Rec(v)
        /\ nextSeq' = nextSeq + 1 /\ stamp' \in 0 .. MaxStamps
        /\ overlapped' = (overlapped \/ Busy # {})
        /\ UNCHANGED <<alive, prevHash, hashed, file, tail>>
    BY <1>i, Issued
  <2>2. \A v \in Busy' : appending'[v] = <<Rec(v)'>> /\ Rec(v)' \in Record
    BY <2>1 DEF ShapeInv, Busy
  <2>3. overlapped' \in BOOLEAN
    BY <2>1 DEF ShapeInv
  <2> QED
    BY <1>i, <2>1, <2>2, <2>3 DEF ShapeInv
<1>0. CASE UNCHANGED vars
  BY <1>0 DEF vars, state, ShapeInv, Busy, Rec
<1>1. CASE StartRun
  BY <1>1, <1>i, KindsAre, Snapshots DEF StartRun, ShapeInv
<1>2. ASSUME NEW n \in Node, Declare(n) PROVE ShapeInv'
  BY <1>2, <1>i, KindsAre, Snapshots DEF Declare, ShapeInv
<1>3. CASE StartAttempt
  <2>1. NextAttempt \in Nat /\ run' \in [status : Statuses, attempt : Nat]
    BY <1>3 DEF StartAttempt, NextAttempt, ShapeInv
  <2>2. Issue(Run, "run_attempt_started", Run, Declared, NextAttempt)
        /\ stage' = "work" /\ UNCHANGED <<toDeclare, mem>>
    BY <1>3 DEF StartAttempt
  <2> QED
    BY <2>1, <2>2, <1>i, KindsAre, Snapshots DEF ShapeInv
<1>4. ASSUME NEW n \in Node, NEW to \in Statuses, Transit(n, to) PROVE ShapeInv'
  <2> DEFINE snapshot == [status |-> to, stamp |-> stamp + 1]
  <2>1. Issue(n, "node", n, snapshot, 0) /\ mem' = [mem EXCEPT ![n] = snapshot]
        /\ UNCHANGED <<stage, toDeclare, run>>
    BY <1>4 DEF Transit
  <2>2. snapshot \in Snapshot
    BY <1>s, <2>1 DEF Issue
  <2> HIDE DEF snapshot
  <2>3. mem' \in [Node -> Snapshot]
    BY <2>1, <2>2 DEF ShapeInv
  <2> QED
    BY <2>1, <2>2, <2>3, <1>i, KindsAre DEF ShapeInv
<1>5. ASSUME NEW status \in {"completed", "failed"}, EndRun(status) PROVE ShapeInv'
  <2> DEFINE snapshot == [status |-> status, stamp |-> stamp + 1]
  <2>1. Issue(Run, "run_ended", Run, snapshot, 0) /\ run' = [run EXCEPT !.status = status]
        /\ stage' = "ended" /\ UNCHANGED <<toDeclare, mem>>
    BY <1>5 DEF EndRun
  <2>2. snapshot \in Snapshot
    BY <1>s, <2>1 DEF Issue, Statuses
  <2> HIDE DEF snapshot
  <2>3. run' \in [status : Statuses, attempt : Nat]
    BY <2>1 DEF ShapeInv, Statuses
  <2> QED
    BY <2>1, <2>2, <2>3, <1>i, KindsAre DEF ShapeInv
<1>6. ASSUME NEW w \in Writer, Hashed(w) PROVE ShapeInv'
  <2>1. w \in Busy /\ prevHash' = Hash(Rec(w))
    BY <1>6 DEF Hashed, Busy, Rec
  <2>2. prevHash' \in Nat
    BY <2>1, Fields DEF ShapeInv, Hash
  <2> QED
    BY <1>6, <2>1, <2>2 DEF Hashed, state, ShapeInv, Busy, Rec
<1>7. ASSUME NEW w \in Writer, Written(w) PROVE ShapeInv'
  <2>1. /\ alive /\ w \in Busy /\ Busy' = Busy \ {w}
        /\ hashed' = hashed \ {w} /\ DOMAIN appending' = Writer
        /\ \A v \in Writer \ {w} : appending'[v] = appending[v] /\ Rec(v)' = Rec(v)
        /\ file' \in Seq(Record)
        /\ UNCHANGED <<state, alive, writer, stamp, overlapped, tail>>
    BY <1>7, LineWritten
  <2>2. \A v \in Busy' : appending'[v] = <<Rec(v)'>> /\ Rec(v)' \in Record
    BY <2>1 DEF ShapeInv, Busy
  <2> QED
    BY <2>1, <2>2 DEF ShapeInv, state, writer
<1>8. CASE Crash
  BY <1>8, Crashed DEF ShapeInv, state, writer
<1>9. CASE Resume
  <2>1. \A n \in Node : Replayed(n) \in Snapshot
    BY NothingIsDropped, ReadTypes DEF ShapeInv, SeqInv, NumbersDiffer, ReadsEverything
  <2>2. ReplayedAttempt \in Nat
    BY NothingIsDropped, ReadTypes DEF ShapeInv, SeqInv, NumbersDiffer, ReadsEverything
  <2>3. mem' \in [Node -> Snapshot] /\ run' \in [status : Statuses, attempt : Nat]
    BY <1>9, <2>1, <2>2 DEF Resume, Statuses
  <2>4. Busy' = {} /\ DOMAIN appending' = Writer /\ tail' = "none" /\ alive' = TRUE
    BY <1>9 DEF Resume, ShapeInv, Busy, Truncated
  <2>5. nextSeq' \in Nat
    BY <1>9, NextNumber DEF Resume
  <2>6. prevHash' \in Nat
    <3>1. CASE file = <<>>
      BY <1>9, <3>1 DEF Resume, LastHash
    <3>2. CASE file # <<>>
      <4>1. Last(file) \in Record
        BY <3>2 DEF Last, ShapeInv
      <4> QED
        BY <1>9, <3>2, <4>1, Fields DEF Resume, LastHash, Hash
    <3> QED
      BY <3>1, <3>2
  <2> QED
    BY <1>9, <2>3, <2>4, <2>5, <2>6 DEF Resume, ShapeInv
<1> QED
  BY <1>0, <1>1, <1>2, <1>3, <1>4, <1>5, <1>6, <1>7, <1>8, <1>9 DEF Next

\* Every operation that appends, in one: its writer, and what it appends.
IssuesBy(w) == \E kind \in Kinds, n \in Writer, snapshot \in Snapshot, attempt \in Nat :
                 Issue(w, kind, n, snapshot, attempt)

\* A step that neither writes nor crashes nor resumes appends one record.
LEMMA WhoIssues ==
  ASSUME ShapeInv, Next, ~ Crash, ~ Resume,
         ~ \E w \in Writer : Hashed(w) \/ Written(w)
  PROVE  \E w \in Writer : IssuesBy(w)
<1>s. \A s \in Statuses : stamp < MaxStamps => [status |-> s, stamp |-> stamp + 1] \in Snapshot
  BY MaxStampsAssumption, Snapshots DEF ShapeInv
<1>1. CASE StartRun
  BY <1>1, KindsAre, Snapshots DEF StartRun, IssuesBy
<1>2. ASSUME NEW n \in Node, Declare(n) PROVE \E w \in Writer : IssuesBy(w)
  BY <1>2, KindsAre, Snapshots DEF Declare, IssuesBy
<1>3. CASE StartAttempt
  <2>1. NextAttempt \in Nat
    BY <1>3 DEF NextAttempt, ShapeInv
  <2> QED
    BY <1>3, <2>1, KindsAre, Snapshots DEF StartAttempt, IssuesBy
<1>4. ASSUME NEW n \in Node, NEW to \in Statuses, Transit(n, to)
      PROVE  \E w \in Writer : IssuesBy(w)
  <2>1. Issue(n, "node", n, [status |-> to, stamp |-> stamp + 1], 0)
    BY <1>4 DEF Transit
  <2>2. [status |-> to, stamp |-> stamp + 1] \in Snapshot
    BY <1>s, <2>1 DEF Issue
  <2> QED
    BY <2>1, <2>2, KindsAre DEF IssuesBy
<1>5. ASSUME NEW status \in {"completed", "failed"}, EndRun(status)
      PROVE  \E w \in Writer : IssuesBy(w)
  <2>1. Issue(Run, "run_ended", Run, [status |-> status, stamp |-> stamp + 1], 0)
    BY <1>5 DEF EndRun
  <2>2. [status |-> status, stamp |-> stamp + 1] \in Snapshot
    BY <1>s, <2>1 DEF Issue, Statuses
  <2> QED
    BY <2>1, <2>2, KindsAre DEF IssuesBy
<1> QED
  BY <1>1, <1>2, <1>3, <1>4, <1>5 DEF Next

\* Every step keeps the numbers different, a resumed writer's first one too.
LEMMA SeqStep ==
  ASSUME CutsShowInTheRecord, ShapeInv, SeqInv, [Next]_vars
  PROVE  SeqInv'
<1>i. ASSUME NEW w \in Writer, IssuesBy(w) PROVE SeqInv'
  <2>1. PICK kind \in Kinds, n \in Writer, snapshot \in Snapshot, attempt \in Nat :
          Issue(w, kind, n, snapshot, attempt)
    BY <1>i DEF IssuesBy
  <2>2. /\ alive /\ Busy' = Busy \cup {w} /\ w \notin Busy
        /\ Rec(w)'.seq = nextSeq
        /\ \A v \in Writer \ {w} : Rec(v)' = Rec(v)
        /\ nextSeq' = nextSeq + 1 /\ UNCHANGED file
    BY <2>1, Issued
  <2>3. \A v \in Busy : v \in Writer /\ v # w /\ Rec(v) \in Record /\ Rec(v).seq \in Nat
    BY <2>2, Fields DEF Busy, ShapeInv
  <2>4. nextSeq \in Nat /\ \A i \in DOMAIN file : file[i].seq \in Nat
    BY Lines, Fields DEF ShapeInv
  <2>5. \A i \in DOMAIN file : file[i].seq < nextSeq'
    BY <2>2, <2>4 DEF SeqInv
  <2>6. \A v \in Busy' : /\ Rec(v)'.seq < nextSeq'
                         /\ \A i \in DOMAIN file : file[i].seq # Rec(v)'.seq
    BY <2>2, <2>3, <2>4 DEF SeqInv
  <2>7. \A u, v \in Busy' : Rec(u)'.seq = Rec(v)'.seq => u = v
    BY <2>2, <2>3, <2>4 DEF SeqInv
  <2> QED
    BY <2>2, <2>5, <2>6, <2>7 DEF SeqInv
<1>0. CASE UNCHANGED vars
  BY <1>0 DEF vars, SeqInv, Busy, Rec
<1>6. ASSUME NEW w \in Writer, Hashed(w) PROVE SeqInv'
  BY <1>6 DEF Hashed, SeqInv, Busy, Rec
<1>7. ASSUME NEW w \in Writer, Written(w) PROVE SeqInv'
  <2>1. /\ alive /\ w \in Busy /\ Busy' = Busy \ {w}
        /\ \A v \in Writer \ {w} : Rec(v)' = Rec(v)
        /\ UNCHANGED <<alive, nextSeq>>
    BY <1>7, LineWritten DEF writer
  <2>2. Longer(file, file', Rec(w))
    BY <1>7, LineWritten DEF Longer, ShapeInv
  <2>3. /\ DOMAIN file' = DOMAIN file \cup {Len(file) + 1} /\ Len(file) + 1 \notin DOMAIN file
        /\ \A i \in DOMAIN file : file'[i] = file[i]
        /\ file'[Len(file) + 1] = Rec(w)
    BY <2>2, LongerLines
  <2>4. \A v \in Busy' : v \in Busy /\ v # w /\ Rec(v)' = Rec(v)
    BY <2>1 DEF Busy
  <2> DEFINE k == Len(file) + 1
  <2>5. DOMAIN file' = DOMAIN file \cup {k} /\ k \notin DOMAIN file /\ file'[k] = Rec(w)
    BY <2>3
  <2> HIDE DEF k
  <2>6. \A i \in DOMAIN file' : file'[i].seq < nextSeq
    BY <2>1, <2>3, <2>5 DEF SeqInv
  <2>7. \A i, j \in DOMAIN file' : file'[i].seq = file'[j].seq => i = j
    BY <2>1, <2>3, <2>5 DEF SeqInv
  <2>8. \A v \in Busy' : /\ Rec(v)'.seq < nextSeq
                         /\ \A i \in DOMAIN file' : file'[i].seq # Rec(v)'.seq
    BY <2>1, <2>3, <2>4, <2>5 DEF SeqInv
  <2>9. \A u, v \in Busy' : Rec(u)'.seq = Rec(v)'.seq => u = v
    BY <2>4 DEF SeqInv
  <2> QED
    BY <2>1, <2>6, <2>7, <2>8, <2>9 DEF SeqInv
<1>8. CASE Crash
  BY <1>8, Crashed DEF SeqInv, writer
<1>9. CASE Resume
  <2>1. Busy' = {} /\ file' = file /\ nextSeq' = NextSeqOnDisk
    BY <1>9 DEF Resume, ShapeInv, Busy
  <2> QED
    BY <2>1, NextNumber DEF SeqInv
<1> QED
  BY <1>0, <1>i, <1>6, <1>7, <1>8, <1>9, WhoIssues

-----------------------------------------------------------------------------
(* Who appends what.                                                       *)

\* Nobody appends at first.
LEMMA AppendInit == Init => AppendInv
<1> SUFFICES ASSUME Init PROVE AppendInv
  OBVIOUS
<1>1. Busy = {} /\ \A n \in Node : ~ Declaring(n)
  BY DEF Init, Busy, Declaring
<1>2. \A n \in Node : mem[n] = Declared
  BY DEF Init
<1>3. \A i \in DOMAIN file : FALSE
  BY DEF Init
<1> QED
  BY <1>1, <1>2, <1>3, KindsAre DEF Init, AppendInv

\* The record of the run cannot tell of two nodes, and only of a node once it is
\* declared; nodes are not the run.
LEMMA NodesAreNotTheRun == \A n \in Node : n # Run /\ n \in Writer
  BY RunAssumption DEF Writer

\* Every step keeps to who appends what, and when.
LEMMA AppendStep ==
  ASSUME CutsShowInTheRecord, ShapeInv, SeqInv, AppendInv, [Next]_vars
  PROVE  AppendInv'
<1> SUFFICES ASSUME alive' PROVE AppendInv'
  BY DEF AppendInv
<1>0. CASE UNCHANGED vars
  BY <1>0 DEF vars, state, AppendInv, Busy, Rec, Declaring
\* The run appends: a fact of the bootstrap, the start of an attempt or its end.
<1>r. ASSUME NEW kind \in Kinds, NEW n \in Writer, NEW snapshot \in Snapshot,
             NEW attempt \in Nat, Issue(Run, kind, n, snapshot, attempt), UNCHANGED mem,
             toDeclare' \subseteq toDeclare,
             toDeclare' # {} => stage' \in {"start", "declare"},
             stage \in {"work", "ended"} => stage' \in {"work", "ended"},
             \/ stage' = "declare" /\ kind \in {"run_started", "node_declared"}
             \/ stage' = "work" /\ kind = "run_attempt_started"
             \/ stage' = "ended" /\ kind = "run_ended",
             kind = "node_declared" => n \in toDeclare /\ n \notin toDeclare'
      PROVE  AppendInv'
  <2>1. /\ alive /\ Busy' = Busy \cup {Run} /\ Run \notin Busy
        /\ Rec(Run)'.kind = kind /\ Rec(Run)'.node = n
        /\ \A v \in Writer \ {Run} : Rec(v)' = Rec(v)
        /\ UNCHANGED file
    BY <1>r, Issued, KindsAre
  <2>2. \A m \in Node : Declaring(m)' => m \in toDeclare
    BY <1>r, <2>1 DEF Declaring
  <2>3. \A m \in Node : m \in Busy' =>
          /\ stage' \in {"work", "ended"}
          /\ Rec(m)'.kind = "node" /\ Rec(m)'.node = m /\ Rec(m)'.snapshot = mem[m]
    BY <1>r, <2>1, NodesAreNotTheRun DEF AppendInv
  <2>4. \A m \in Node : m \in toDeclare' \/ Declaring(m)' =>
          /\ mem[m] = Declared /\ ~ (m \in toDeclare' /\ Declaring(m)')
          /\ \A i \in DOMAIN file : file[i].kind = "node" => file[i].node # m
    <3>1. ASSUME NEW m \in Node, m \in toDeclare', Declaring(m)' PROVE FALSE
      BY <1>r, <2>1, <3>1 DEF Declaring
    <3> QED
      BY <1>r, <2>1, <2>2, <3>1 DEF AppendInv
  <2> QED
    BY <1>r, <2>1, <2>3, <2>4 DEF AppendInv
<1>1. CASE StartRun
  BY <1>1, <1>r, KindsAre, Snapshots DEF StartRun
<1>2. ASSUME NEW n \in Node, Declare(n) PROVE AppendInv'
  BY <1>2, <1>r, KindsAre, Snapshots DEF Declare
<1>3. CASE StartAttempt
  <2>1. NextAttempt \in Nat
    BY <1>3 DEF NextAttempt, ShapeInv
  <2> QED
    BY <1>3, <2>1, <1>r, KindsAre, Snapshots DEF StartAttempt
<1>s. \A s \in Statuses : stamp < MaxStamps => [status |-> s, stamp |-> stamp + 1] \in Snapshot
  BY MaxStampsAssumption, Snapshots DEF ShapeInv
<1>4. ASSUME NEW n \in Node, NEW to \in Statuses, Transit(n, to) PROVE AppendInv'
  <2>1. PICK snapshot \in Snapshot :
          Issue(n, "node", n, snapshot, 0) /\ mem' = [mem EXCEPT ![n] = snapshot]
    BY <1>4, <1>s DEF Transit, Issue
  <2>2. stage \in {"work", "ended"} /\ UNCHANGED <<stage, toDeclare, run>>
    BY <1>4 DEF Transit
  <2>3. /\ alive /\ Busy' = Busy \cup {n} /\ n \notin Busy
        /\ Rec(n)'.kind = "node" /\ Rec(n)'.node = n /\ Rec(n)'.snapshot = snapshot
        /\ \A v \in Writer \ {n} : Rec(v)' = Rec(v)
        /\ UNCHANGED file
    <3>1. n \in Writer /\ "node" \in Kinds /\ 0 \in Nat
      BY NodesAreNotTheRun, KindsAre
    <3>2. Issue(n, "node", n, snapshot, 0)
      BY <2>1
    <3>3. /\ alive /\ Busy' = Busy \cup {n} /\ n \notin Busy
          /\ \A v \in Writer \ {n} : Rec(v)' = Rec(v)
          /\ UNCHANGED file
      BY <3>1, <3>2, Issued
    <3>4. Rec(n)' = [seq |-> nextSeq, kind |-> "node", node |-> n, snapshot |-> snapshot,
                     attempt |-> 0, stamp |-> stamp', prev_hash |-> prevHash]
      BY <3>1, <3>2 DEF Issue, Rec, ShapeInv
    <3> QED
      BY <3>3, <3>4
  <2>4. mem'[n] = snapshot /\ \A m \in Node \ {n} : mem'[m] = mem[m]
    BY <2>1 DEF ShapeInv
  <2>5. n # Run /\ Rec(Run)' = Rec(Run) /\ (Run \in Busy' <=> Run \in Busy)
    BY <2>3, NodesAreNotTheRun, KindsAre
  <2>6. \A m \in Node : ~ Declaring(m)' /\ m \notin toDeclare'
    BY <2>1, <2>2, <2>3, <2>5 DEF Declaring, AppendInv
  <2>7. \A m \in Node : m \in Busy' =>
          /\ stage' \in {"work", "ended"}
          /\ Rec(m)'.kind = "node" /\ Rec(m)'.node = m /\ Rec(m)'.snapshot = mem'[m]
    BY <2>1, <2>2, <2>3, <2>4, NodesAreNotTheRun DEF AppendInv
  <2> QED
    BY <2>1, <2>2, <2>3, <2>5, <2>6, <2>7 DEF AppendInv
<1>5. ASSUME NEW status \in {"completed", "failed"}, EndRun(status) PROVE AppendInv'
  <2>1. Issue(Run, "run_ended", Run, [status |-> status, stamp |-> stamp + 1], 0)
        /\ stage = "work" /\ stage' = "ended" /\ UNCHANGED <<toDeclare, mem>>
    BY <1>5 DEF EndRun
  <2>2. [status |-> status, stamp |-> stamp + 1] \in Snapshot /\ alive
    BY <1>s, <2>1 DEF Issue, Statuses
  <2>3. toDeclare = {}
    BY <2>1, <2>2 DEF AppendInv
  <2> QED
    BY <2>1, <2>2, <2>3, <1>r, KindsAre
<1>6. ASSUME NEW w \in Writer, Hashed(w) PROVE AppendInv'
  BY <1>6 DEF Hashed, state, AppendInv, Busy, Rec, Declaring
<1>7. ASSUME NEW w \in Writer, Written(w) PROVE AppendInv'
  <2>1. /\ alive /\ w \in Busy /\ Busy' = Busy \ {w}
        /\ \A v \in Writer \ {w} : Rec(v)' = Rec(v)
        /\ UNCHANGED <<stage, toDeclare, run, mem>>
    BY <1>7, LineWritten DEF state
  <2>2. Longer(file, file', Rec(w))
    BY <1>7, LineWritten DEF Longer, ShapeInv
  <2>3. /\ DOMAIN file' = DOMAIN file \cup {Len(file) + 1}
        /\ \A i \in DOMAIN file : file'[i] = file[i]
        /\ file'[Len(file) + 1] = Rec(w)
    BY <2>2, LongerLines
  <2>4. \A v \in Busy' : v \in Busy /\ v # w /\ Rec(v)' = Rec(v)
    BY <2>1 DEF Busy
  <2>5. \A m \in Node : Declaring(m)' => Declaring(m)
    BY <2>4 DEF Declaring
  <2>6. ASSUME NEW m \in Node, m \in toDeclare \/ Declaring(m), NEW i \in DOMAIN file',
               file'[i].kind = "node"
        PROVE  file'[i].node # m
    <3>1. CASE i \in DOMAIN file
      BY <2>1, <2>3, <2>6, <3>1 DEF AppendInv
    <3>2. CASE i \notin DOMAIN file
      <4>1. file'[i] = Rec(w)
        BY <2>3, <3>2
      <4>2. w \in Node => stage \in {"work", "ended"}
        BY <2>1 DEF AppendInv
      <4>3. stage \in {"start", "declare"}
        <5>1. CASE m \in toDeclare
          BY <2>1, <5>1 DEF AppendInv
        <5>2. CASE Declaring(m)
          BY <2>1, <5>2 DEF AppendInv, Declaring
        <5> QED
          BY <2>6, <5>1, <5>2
      <4>4. w = Run
        BY <2>1, <4>2, <4>3 DEF Busy, Writer
      <4>5. Rec(w).kind # "node"
        BY <2>1, <4>4 DEF AppendInv
      <4> QED
        BY <2>6, <4>1, <4>5
    <3> QED
      BY <3>1, <3>2
  <2> QED
    BY <2>1, <2>4, <2>5, <2>6 DEF AppendInv
<1>8. CASE Crash
  BY <1>8, Crashed
<1>9. CASE Resume
  <2>1. Busy' = {} /\ toDeclare' = {}
    BY <1>9 DEF Resume, ShapeInv, Busy
  <2>2. \A m \in Node : ~ Declaring(m)'
    BY <2>1 DEF Declaring
  <2> QED
    BY <2>1, <2>2, KindsAre DEF AppendInv
<1> QED
  BY <1>0, <1>1, <1>2, <1>3, <1>4, <1>5, <1>6, <1>7, <1>8, <1>9 DEF Next

-----------------------------------------------------------------------------
(* The disk follows the memory.                                            *)

\* What is read of the file before a step.
LEMMA Reads ==
  ShapeInv /\ SeqInv => ReadsEverything /\ file \in Seq(Record)
  BY NothingIsDropped DEF ShapeInv, SeqInv, NumbersDiffer

\* And of the file after it.
LEMMA WillRead ==
  ShapeInv' /\ SeqInv' => ReadsEverything' /\ (file \in Seq(Record))'
  BY Reads, PTL

\* A step that writes no line changes nothing that is read.
LEMMA SameFileSameState ==
  ASSUME ShapeInv, SeqInv, ShapeInv', SeqInv', UNCHANGED file
  PROVE  /\ \A n \in Node : Replayed(n)' = Replayed(n) /\ Replayed(n) \in Snapshot
         /\ ReplayedAttempt' = ReplayedAttempt /\ ReplayedStatus' = ReplayedStatus
<1>1. ReadsEverything /\ ReadsEverything' /\ file \in Seq(Record)
  BY Reads, WillRead
<1>2. \A n \in Node : StateIn(file, n)' = StateIn(file, n)
  BY DEF StateIn, OwnIn, OfKind
<1>3. AttemptIn(file)' = AttemptIn(file) /\ StatusIn(file)' = StatusIn(file)
  BY DEF AttemptIn, StatusIn, OfKind
<1> QED
  BY <1>1, <1>2, <1>3, ReadTypes DEF ReadsEverything

\* A line that is written changes the state of at most the node it tells of.
LEMMA StateWritten ==
  ASSUME ShapeInv, SeqInv, AppendInv, ShapeInv', SeqInv', NEW w \in Writer, Written(w)
  PROVE  /\ \A n \in Node : n # w /\ ~ (w = Run /\ Declaring(n)) => Replayed(n)' = Replayed(n)
         /\ \A n \in Node : n = w \/ (w = Run /\ Declaring(n)) => Replayed(n)' = mem[n]
         /\ \A n \in Node : Replayed(n) \in Snapshot /\ Replayed(n)' \in Snapshot
         /\ ReplayedAttempt' = IF w = Run /\ Rec(w).kind = "run_attempt_started"
                               THEN Rec(w).attempt ELSE ReplayedAttempt
         /\ ReplayedStatus' = IF w = Run /\ Rec(w).kind = "run_ended"
                              THEN Rec(w).snapshot.status ELSE ReplayedStatus
<1>1. ReadsEverything /\ ReadsEverything' /\ file \in Seq(Record) /\ file' \in Seq(Record)
  BY Reads, WillRead
<1>2. Longer(file, file', Rec(w)) /\ alive /\ w \in Busy
  BY LineWritten DEF Longer, ShapeInv
<1>3. w \in Node => Rec(w).kind = "node" /\ Rec(w).node = w /\ Rec(w).snapshot = mem[w]
  BY <1>2 DEF AppendInv
<1>4. w = Run => Rec(w).kind \in {"run_started", "node_declared", "run_attempt_started", "run_ended"}
  BY <1>2 DEF AppendInv
<1>5. w \in Node \/ w = Run
  BY DEF Writer
<1>6. ASSUME NEW n \in Node, n # w, ~ (w = Run /\ Declaring(n))
      PROVE  StateIn(file', n) = StateIn(file, n)
  <2>1. ~ (Rec(w).kind \in {"node", "node_declared"} /\ Rec(w).node = n)
    BY <1>2, <1>3, <1>4, <1>5, <1>6 DEF Declaring
  <2> QED
    BY <1>2, <2>1, StateAfter
<1>7. ASSUME NEW n \in Node, n = w
      PROVE  StateIn(file', n) = mem[n]
  BY <1>2, <1>3, <1>7, StateAfter
<1>8. ASSUME NEW n \in Node, w = Run, Declaring(n)
      PROVE  StateIn(file', n) = mem[n]
  <2>1. OwnIn(file, n) = {} /\ mem[n] = Declared
    BY <1>2, <1>8 DEF AppendInv, OwnIn, OfKind
  <2>2. Rec(w).kind = "node_declared" /\ Rec(w).node = n
    BY <1>8 DEF Declaring
  <2> QED
    BY <1>2, <2>1, <2>2, StateAfter
<1>9. \A n \in Node : StateIn(file, n)' = StateIn(file', n)
  BY DEF StateIn, OwnIn, OfKind
<1>10. AttemptIn(file)' = AttemptIn(file') /\ StatusIn(file)' = StatusIn(file')
  BY DEF AttemptIn, StatusIn, OfKind
<1>11. \A n \in Node : Replayed(n) = StateIn(file, n) /\ Replayed(n)' = StateIn(file', n)
  BY <1>1, <1>9 DEF ReadsEverything
<1>12. /\ ReplayedAttempt = AttemptIn(file) /\ ReplayedAttempt' = AttemptIn(file')
       /\ ReplayedStatus = StatusIn(file) /\ ReplayedStatus' = StatusIn(file')
  BY <1>1, <1>10 DEF ReadsEverything
<1>13. /\ ReplayedAttempt' = IF w = Run /\ Rec(w).kind = "run_attempt_started"
                             THEN Rec(w).attempt ELSE ReplayedAttempt
       /\ ReplayedStatus' = IF w = Run /\ Rec(w).kind = "run_ended"
                            THEN Rec(w).snapshot.status ELSE ReplayedStatus
  <2>1. w # Run => Rec(w).kind \notin {"run_attempt_started", "run_ended"}
    BY <1>3, <1>5
  <2> QED
    BY <1>2, <1>12, <2>1, RunAfter
<1>14. \A n \in Node : StateIn(file, n) \in Snapshot /\ StateIn(file', n) \in Snapshot
  BY <1>1, ReadTypes
<1> QED
  BY <1>6, <1>7, <1>8, <1>11, <1>13, <1>14

\* Nothing is declared at first, so nothing need be on disk.
LEMMA DiskInit == Init => DiskInv
  BY DEF Init, DiskInv

\* Every step leaves the nodes that no append tells of on disk.
LEMMA DiskStep ==
  ASSUME CutsShowInTheRecord, ShapeInv, SeqInv, AppendInv, DiskInv,
         ShapeInv', SeqInv', AppendInv', [Next]_vars
  PROVE  DiskInv'
<1> SUFFICES ASSUME alive', NEW m \in Node, m \notin toDeclare', m \notin Busy', ~ Declaring(m)'
             PROVE  Replayed(m)' = mem'[m]
  BY DEF DiskInv
\* Nothing was written, and the node stands as it stood.
<1>s. ASSUME alive, UNCHANGED file, m \notin toDeclare, m \notin Busy, ~ Declaring(m), mem'[m] = mem[m]
      PROVE  Replayed(m)' = mem'[m]
  BY <1>s, SameFileSameState DEF DiskInv
<1>0. CASE UNCHANGED vars
  BY <1>0, <1>s DEF vars, state, Busy, Rec, Declaring
<1>i. ASSUME NEW w \in Writer, NEW kind \in Kinds, NEW n \in Writer,
             NEW snapshot \in Snapshot, NEW attempt \in Nat,
             Issue(w, kind, n, snapshot, attempt),
             m # w => mem'[m] = mem[m],
             m \in toDeclare => m \in toDeclare' \/ (w = Run /\ kind = "node_declared" /\ n = m)
      PROVE  Replayed(m)' = mem'[m]
  <2>1. /\ alive /\ Busy' = Busy \cup {w} /\ w \notin Busy
        /\ Rec(w)'.kind = kind /\ Rec(w)'.node = n
        /\ \A v \in Writer \ {w} : Rec(v)' = Rec(v)
        /\ UNCHANGED file
    BY <1>i, Issued
  <2>2. m # w /\ m \notin Busy
    BY <2>1
  <2>3. m \notin toDeclare
    BY <1>i, <2>1 DEF Declaring
  <2>4. ~ Declaring(m)
    BY <2>1, KindsAre DEF Declaring
  <2> QED
    BY <1>i, <1>s, <2>1, <2>2, <2>3, <2>4
<1>1. CASE StartRun
  BY <1>1, <1>i, KindsAre, Snapshots DEF StartRun
<1>2. ASSUME NEW n \in Node, Declare(n) PROVE Replayed(m)' = mem'[m]
  BY <1>2, <1>i, KindsAre, Snapshots DEF Declare
<1>3. CASE StartAttempt
  <2>1. NextAttempt \in Nat
    BY <1>3 DEF NextAttempt, ShapeInv
  <2> QED
    BY <1>3, <2>1, <1>i, KindsAre, Snapshots DEF StartAttempt
<1>t. \A s \in Statuses : stamp < MaxStamps => [status |-> s, stamp |-> stamp + 1] \in Snapshot
  BY MaxStampsAssumption, Snapshots DEF ShapeInv
<1>4. ASSUME NEW n \in Node, NEW to \in Statuses, Transit(n, to) PROVE Replayed(m)' = mem'[m]
  <2> DEFINE snapshot == [status |-> to, stamp |-> stamp + 1]
  <2>1. Issue(n, "node", n, snapshot, 0) /\ mem' = [mem EXCEPT ![n] = snapshot]
        /\ UNCHANGED <<stage, toDeclare, run>>
    BY <1>4 DEF Transit
  <2>2. snapshot \in Snapshot
    BY <1>t, <2>1 DEF Issue
  <2> HIDE DEF snapshot
  <2>3. m # n => mem'[m] = mem[m]
    BY <2>1 DEF ShapeInv
  <2>4. n \in Writer /\ "node" \in Kinds /\ 0 \in Nat
    BY NodesAreNotTheRun, KindsAre
  <2> QED
    BY <2>1, <2>2, <2>3, <2>4, <1>i
<1>5. ASSUME NEW status \in {"completed", "failed"}, EndRun(status) PROVE Replayed(m)' = mem'[m]
  <2>1. Issue(Run, "run_ended", Run, [status |-> status, stamp |-> stamp + 1], 0)
        /\ UNCHANGED <<toDeclare, mem>>
    BY <1>5 DEF EndRun
  <2>2. [status |-> status, stamp |-> stamp + 1] \in Snapshot
    BY <1>t, <2>1 DEF Issue, Statuses
  <2> QED
    BY <2>1, <2>2, <1>i, KindsAre
<1>6. ASSUME NEW w \in Writer, Hashed(w) PROVE Replayed(m)' = mem'[m]
  BY <1>6, <1>s DEF Hashed, state, Busy, Rec, Declaring
<1>7. ASSUME NEW w \in Writer, Written(w) PROVE Replayed(m)' = mem'[m]
  <2>1. /\ alive /\ w \in Busy /\ Busy' = Busy \ {w}
        /\ \A v \in Writer \ {w} : Rec(v)' = Rec(v)
        /\ UNCHANGED <<stage, toDeclare, run, mem>>
    BY <1>7, LineWritten DEF state
  <2>2. CASE m = w \/ (w = Run /\ Declaring(m))
    BY <1>7, <2>1, <2>2, StateWritten
  <2>3. CASE m # w /\ ~ (w = Run /\ Declaring(m))
    <3>1. m \notin Busy /\ m \notin toDeclare
      BY <2>1, <2>3
    <3>2. ~ Declaring(m)
      BY <2>1, <2>3, KindsAre DEF Declaring
    <3>3. Replayed(m) = mem[m]
      BY <2>1, <3>1, <3>2 DEF DiskInv
    <3> QED
      BY <1>7, <2>1, <2>3, <3>3, StateWritten
  <2> QED
    BY <2>2, <2>3
<1>8. CASE Crash
  BY <1>8, Crashed
<1>9. CASE Resume
  <2>1. mem'[m] = Replayed(m) /\ UNCHANGED file
    BY <1>9 DEF Resume
  <2> QED
    BY <2>1, SameFileSameState
<1> QED
  BY <1>0, <1>1, <1>2, <1>3, <1>4, <1>5, <1>6, <1>7, <1>8, <1>9 DEF Next

-----------------------------------------------------------------------------
(* The journal gives the engine a durable state.                           *)

\* What DurableState sees of the memory.
MemSeen == [n \in Node |-> IF alive /\ n \notin toDeclare THEN mem[n] ELSE Replayed(n)]
\* What DurableState sees of the disk.
DiskSeen == [n \in Node |-> Replayed(n)]

\* An initial state of the journal is one of DurableState.
LEMMA DurableInit ==
  ASSUME Init, ShapeInv, SeqInv
  PROVE  Durable!Init
<1>1. \A n \in Node : Replayed(n) \in Snapshot
  BY Reads, ReadTypes DEF ReadsEverything
<1>2. toDeclare = Node
  BY DEF Init
<1> QED
  BY <1>1, <1>2 DEF Durable!Init

\* A transition or a declaration changes a node, a line written persists one, a
\* crash restarts; the other steps change nothing that DurableState sees.
LEMMA DurableStep ==
  ASSUME CutsShowInTheRecord, ShapeInv, SeqInv, AppendInv, DiskInv,
         ShapeInv', SeqInv', [Next]_vars
  PROVE  [Durable!Next]_(Durable!vars)
<1> USE DEF MemSeen, DiskSeen
<1>v. MemSeen' = MemSeen /\ DiskSeen' = DiskSeen => [Durable!Next]_(Durable!vars)
  BY DEF Durable!vars
<1>c. ASSUME NEW n \in Node, MemSeen[n] = DiskSeen[n], DiskSeen' = DiskSeen,
             NEW s \in Snapshot, MemSeen' = [MemSeen EXCEPT ![n] = s]
      PROVE  [Durable!Next]_(Durable!vars)
  BY <1>c DEF Durable!Next, Durable!Change
<1>p. ASSUME NEW n \in Node, DiskSeen' = [DiskSeen EXCEPT ![n] = MemSeen[n]], MemSeen' = MemSeen
      PROVE  [Durable!Next]_(Durable!vars)
  BY <1>p DEF Durable!Next, Durable!Persist
<1>r. ASSUME MemSeen' = DiskSeen, DiskSeen' = DiskSeen
      PROVE  [Durable!Next]_(Durable!vars)
  BY <1>r DEF Durable!Next, Durable!Restart
\* Nothing is written and no node changes.
<1>s. ASSUME UNCHANGED <<file, mem, toDeclare, alive>>
      PROVE  [Durable!Next]_(Durable!vars)
  BY <1>s, <1>v, SameFileSameState
<1>0. CASE UNCHANGED vars
  BY <1>0, <1>s DEF vars, state
<1>1. CASE StartRun
  BY <1>1, <1>s DEF StartRun, Issue
<1>2. ASSUME NEW n \in Node, Declare(n) PROVE [Durable!Next]_(Durable!vars)
  <2>1. /\ alive /\ alive' /\ n \in toDeclare /\ toDeclare' = toDeclare \ {n}
        /\ UNCHANGED <<file, mem>>
    BY <1>2 DEF Declare, Issue
  <2>2. \A m \in Node : Replayed(m)' = Replayed(m)
    BY <2>1, SameFileSameState
  <2>3. DiskSeen' = DiskSeen /\ MemSeen[n] = DiskSeen[n]
    BY <2>1, <2>2
  <2>4. MemSeen' = [MemSeen EXCEPT ![n] = mem[n]]
    BY <2>1, <2>2
  <2>5. mem[n] \in Snapshot
    BY DEF ShapeInv
  <2> QED
    BY <2>3, <2>4, <2>5, <1>c
<1>3. CASE StartAttempt
  BY <1>3, <1>s DEF StartAttempt, Issue
<1>4. ASSUME NEW n \in Node, NEW to \in Statuses, Transit(n, to)
      PROVE  [Durable!Next]_(Durable!vars)
  <2>1. PICK s \in Snapshot : mem' = [mem EXCEPT ![n] = s]
    BY <1>4, MaxStampsAssumption, Snapshots DEF Transit, Issue, ShapeInv
  <2>2. /\ alive /\ alive' /\ stage \in {"work", "ended"} /\ n \notin Busy
        /\ stage = "work" => Run \notin Busy
        /\ UNCHANGED <<file, toDeclare>>
    BY <1>4 DEF Transit, Issue, Busy
  <2>3. toDeclare = {} /\ ~ Declaring(n)
    BY <2>2 DEF AppendInv, Declaring
  <2>4. Replayed(n) = mem[n]
    BY <2>2, <2>3 DEF DiskInv
  <2>5. \A m \in Node : Replayed(m)' = Replayed(m)
    BY <2>2, SameFileSameState
  <2>6. DiskSeen' = DiskSeen /\ MemSeen[n] = DiskSeen[n]
    BY <2>2, <2>3, <2>4, <2>5
  <2>7. MemSeen' = [MemSeen EXCEPT ![n] = s]
    BY <2>1, <2>2, <2>3 DEF ShapeInv
  <2> QED
    BY <2>6, <2>7, <1>c
<1>5. ASSUME NEW status \in {"completed", "failed"}, EndRun(status)
      PROVE  [Durable!Next]_(Durable!vars)
  BY <1>5, <1>s DEF EndRun, Issue
<1>6. ASSUME NEW w \in Writer, Hashed(w) PROVE [Durable!Next]_(Durable!vars)
  BY <1>6, <1>s DEF Hashed, state
<1>7. ASSUME NEW w \in Writer, Written(w) PROVE [Durable!Next]_(Durable!vars)
  <2>1. alive /\ alive' /\ w \in Busy /\ UNCHANGED <<mem, toDeclare>>
    BY <1>7, LineWritten DEF state
  <2>2. \A n \in Node : n = w \/ (w = Run /\ Declaring(n)) => n \notin toDeclare
    BY <2>1 DEF AppendInv
  <2>3. \A n \in Node : n \in toDeclare => Replayed(n)' = Replayed(n)
    BY <1>7, <2>2, StateWritten
  <2>4. MemSeen' = MemSeen
    BY <2>1, <2>3
  <2>5. ASSUME NEW n \in Node, n = w \/ (w = Run /\ Declaring(n))
        PROVE  [Durable!Next]_(Durable!vars)
    <3>1. \A m \in Node \ {n} : m # w /\ ~ (w = Run /\ Declaring(m))
      BY <2>5, NodesAreNotTheRun DEF Declaring
    <3>2. Replayed(n)' = mem[n] /\ \A m \in Node \ {n} : Replayed(m)' = Replayed(m)
      BY <1>7, <2>5, <3>1, StateWritten
    <3>3. MemSeen[n] = mem[n]
      BY <2>1, <2>2, <2>5
    <3>4. DiskSeen' = [DiskSeen EXCEPT ![n] = MemSeen[n]]
      BY <3>2, <3>3
    <3> QED
      BY <2>4, <3>4, <1>p
  <2>6. ASSUME \A n \in Node : n # w /\ ~ (w = Run /\ Declaring(n))
        PROVE  [Durable!Next]_(Durable!vars)
    <3>1. \A n \in Node : Replayed(n)' = Replayed(n)
      BY <1>7, <2>6, StateWritten
    <3> QED
      BY <2>4, <3>1, <1>v
  <2> QED
    BY <2>5, <2>6
<1>8. CASE Crash
  <2>1. ~ alive' /\ UNCHANGED file
    BY <1>8, Crashed
  <2>2. \A n \in Node : Replayed(n)' = Replayed(n)
    BY <2>1, SameFileSameState
  <2> QED
    BY <2>1, <2>2, <1>r
<1>9. CASE Resume
  <2>1. ~ alive /\ alive' /\ toDeclare' = {} /\ UNCHANGED file
        /\ \A n \in Node : mem'[n] = Replayed(n)
    BY <1>9 DEF Resume
  <2>2. \A n \in Node : Replayed(n)' = Replayed(n)
    BY <2>1, SameFileSameState
  <2> QED
    BY <2>1, <2>2, <1>v
<1> QED
  BY <1>0, <1>1, <1>2, <1>3, <1>4, <1>5, <1>6, <1>7, <1>8, <1>9 DEF Next

-----------------------------------------------------------------------------
(* The attempts of the run, and how it ended.                              *)

\* No attempt has started at first.
LEMMA AttemptInit == Init => AttemptInv
  BY DEF Init, AttemptInv, Busy

\* A line more leaves the lines of the attempts as they were, but for one of an
\* attempt that starts.
LEMMA AttemptStep ==
  ASSUME CutsShowInTheRecord, ShapeInv, SeqInv, AppendInv, AttemptInv,
         ShapeInv', SeqInv', [Next]_vars
  PROVE  AttemptInv'
<1>t. run.attempt \in Nat /\ \A i \in DOMAIN file : file[i].attempt \in Nat
  BY Lines, Fields DEF ShapeInv
\* The run goes on as it was, and nothing is written.
<1>s. ASSUME UNCHANGED <<file, run>>, alive' => alive /\ stage' = stage,
             alive' => (Run \in Busy' <=> Run \in Busy) /\ (Run \in Busy => Rec(Run)' = Rec(Run))
      PROVE  AttemptInv'
  <2>1. ReplayedAttempt' = ReplayedAttempt /\ ReplayedStatus' = ReplayedStatus
    BY <1>s, SameFileSameState
  <2> QED
    BY <1>s, <2>1 DEF AttemptInv
<1>0. CASE UNCHANGED vars
  BY <1>0, <1>s DEF vars, state, Busy, Rec
\* A fact of the bootstrap is appended.
<1>b. ASSUME NEW kind \in Kinds, NEW n \in Writer, kind # "run_attempt_started",
             Issue(Run, kind, n, Declared, 0), UNCHANGED run, stage' = "declare"
      PROVE  AttemptInv'
  <2>1. alive /\ Rec(Run)'.kind = kind /\ UNCHANGED file
    BY <1>b, Issued, Snapshots, KindsAre
  <2> QED
    BY <1>b, <2>1 DEF AttemptInv
<1>1. CASE StartRun
  BY <1>1, <1>b, KindsAre DEF StartRun
<1>2. ASSUME NEW n \in Node, Declare(n) PROVE AttemptInv'
  BY <1>2, <1>b, KindsAre DEF Declare
<1>3. CASE StartAttempt
  <2>1. Issue(Run, "run_attempt_started", Run, Declared, NextAttempt)
        /\ run'.attempt = NextAttempt /\ stage' = "work"
    BY <1>3 DEF StartAttempt, ShapeInv
  <2>2. NextAttempt = run.attempt + 1 /\ NextAttempt \in Nat
    BY <1>t DEF NextAttempt
  <2>3. /\ alive /\ Run \in Busy' /\ UNCHANGED file
        /\ Rec(Run)'.attempt = NextAttempt
    BY <2>1, <2>2, Issued, Snapshots, KindsAre
  <2>4. \A i \in DOMAIN file : file[i].kind = "run_attempt_started" =>
           file[i].attempt < run'.attempt /\ file[i].attempt <= run'.attempt
    BY <1>t, <2>1, <2>2, <2>3 DEF AttemptInv
  <2> QED
    BY <2>1, <2>3, <2>4 DEF AttemptInv
<1>4. ASSUME NEW n \in Node, NEW to \in Statuses, Transit(n, to) PROVE AttemptInv'
  <2>1. /\ alive /\ \A v \in Writer \ {n} : appending'[v] = appending[v]
        /\ UNCHANGED <<file, stage, run>>
    BY <1>4 DEF Transit, Issue, ShapeInv
  <2>2. (Run \in Busy' <=> Run \in Busy) /\ (Run \in Busy => Rec(Run)' = Rec(Run))
    BY <2>1, NodesAreNotTheRun, KindsAre DEF Busy, Rec
  <2> QED
    BY <2>1, <2>2, <1>s
<1>5. ASSUME NEW status \in {"completed", "failed"}, EndRun(status) PROVE AttemptInv'
  <2>1. PICK snapshot \in Snapshot :
          snapshot.status = status /\ Issue(Run, "run_ended", Run, snapshot, 0)
    <3>1. Issue(Run, "run_ended", Run, [status |-> status, stamp |-> stamp + 1], 0)
      BY <1>5 DEF EndRun
    <3>2. [status |-> status, stamp |-> stamp + 1] \in Snapshot
      BY <3>1, MaxStampsAssumption, Snapshots DEF Issue, Statuses, ShapeInv
    <3> QED
      BY <3>1, <3>2
  <2>2. /\ stage = "work" /\ stage' = "ended"
        /\ run'.status = status /\ run'.attempt = run.attempt
    BY <1>5 DEF EndRun, ShapeInv
  <2>3. /\ alive /\ Run \notin Busy /\ Run \in Busy' /\ UNCHANGED file
        /\ Rec(Run)'.kind = "run_ended" /\ Rec(Run)'.snapshot = snapshot
    <3>1. "run_ended" \in Kinds /\ Run \in Writer /\ 0 \in Nat
      BY KindsAre
    <3> QED
      BY <2>1, <3>1, Issued
  <2>4. ReplayedAttempt' = ReplayedAttempt
    BY <2>3, SameFileSameState
  <2>5. Rec(Run)'.snapshot.status = run'.status
    BY <2>1, <2>2, <2>3
  <2>6. ReplayedAttempt = run.attempt
    BY <2>2, <2>3 DEF AttemptInv
  <2> QED
    BY <2>2, <2>3, <2>4, <2>5, <2>6 DEF AttemptInv
<1>6. ASSUME NEW w \in Writer, Hashed(w) PROVE AttemptInv'
  BY <1>6, <1>s DEF Hashed, state, Busy, Rec
<1>7. ASSUME NEW w \in Writer, Written(w) PROVE AttemptInv'
  <2>1. /\ alive /\ w \in Busy /\ Busy' = Busy \ {w}
        /\ \A v \in Writer \ {w} : Rec(v)' = Rec(v)
        /\ UNCHANGED <<alive, stage, run>>
    BY <1>7, LineWritten DEF state
  <2>2. Longer(file, file', Rec(w))
    BY <1>7, LineWritten DEF Longer, ShapeInv
  <2>3. /\ DOMAIN file = 1 .. Len(file) /\ Len(file) \in Nat
        /\ DOMAIN file' = DOMAIN file \cup {Len(file) + 1}
        /\ \A i \in DOMAIN file : file'[i] = file[i]
        /\ file'[Len(file) + 1] = Rec(w)
    BY <2>2, LongerLines
  <2>k. Rec(w).kind = "run_attempt_started" => w = Run /\ stage = "work"
    <3>1. w \in Node => Rec(w).kind = "node"
      BY <2>1 DEF AppendInv
    <3>2. w = Run \/ w \in Node
      BY DEF Writer
    <3>3. w = Run /\ Rec(w).kind = "run_attempt_started" => stage = "work"
      BY <2>1 DEF AppendInv
    <3> QED
      BY <3>1, <3>2, <3>3
  <2>4. Rec(w).kind = "run_attempt_started" =>
          /\ Rec(w).attempt = run.attempt
          /\ \A i \in DOMAIN file : file[i].kind = "run_attempt_started" => file[i].attempt < run.attempt
    BY <2>1, <2>k DEF AttemptInv
  <2>5. \A i, j \in DOMAIN file' :
          file'[i].kind = "run_attempt_started" /\ file'[j].kind = "run_attempt_started" /\ i < j =>
          file'[i].attempt < file'[j].attempt
    <3> SUFFICES ASSUME NEW i \in DOMAIN file', NEW j \in DOMAIN file', i < j,
                        file'[i].kind = "run_attempt_started", file'[j].kind = "run_attempt_started"
                 PROVE  file'[i].attempt < file'[j].attempt
      OBVIOUS
    <3>1. i \in DOMAIN file
      BY <2>3
    <3>2. CASE j \in DOMAIN file
      BY <2>3, <3>1, <3>2 DEF AttemptInv
    <3>3. CASE j \notin DOMAIN file
      BY <2>3, <2>4, <3>1, <3>3
    <3> QED
      BY <3>2, <3>3
  <2>6. \A i \in DOMAIN file' : file'[i].kind = "run_attempt_started" => file'[i].attempt <= run.attempt
    <3> SUFFICES ASSUME NEW i \in DOMAIN file', file'[i].kind = "run_attempt_started"
                 PROVE  file'[i].attempt <= run.attempt
      OBVIOUS
    <3>1. CASE i \in DOMAIN file
      BY <2>1, <2>3, <3>1 DEF AttemptInv
    <3>2. CASE i \notin DOMAIN file
      BY <1>t, <2>3, <2>4, <3>2
    <3> QED
      BY <3>1, <3>2
  <2>7. ReplayedAttempt' = (IF w = Run /\ Rec(w).kind = "run_attempt_started"
                            THEN Rec(w).attempt ELSE ReplayedAttempt)
        /\ ReplayedStatus' = (IF w = Run /\ Rec(w).kind = "run_ended"
                              THEN Rec(w).snapshot.status ELSE ReplayedStatus)
    BY <1>7, StateWritten
  <2>8. CASE w # Run
    <3>1. Run \in Busy' <=> Run \in Busy
      BY <2>1, <2>8
    <3>2. Rec(Run)' = Rec(Run)
      BY <2>1, <2>8, KindsAre
    <3>3. ReplayedAttempt' = ReplayedAttempt /\ ReplayedStatus' = ReplayedStatus
      BY <2>7, <2>8
    <3>4. Rec(w).kind # "run_attempt_started"
      BY <2>k, <2>8
    <3>5. \A i \in DOMAIN file' : file'[i].kind = "run_attempt_started" => i \in DOMAIN file /\ file'[i] = file[i]
      BY <2>3, <3>4
    <3> QED
      BY <2>1, <2>5, <2>6, <3>1, <3>2, <3>3, <3>5 DEF AttemptInv
  <2>9. CASE w = Run
    <3>1. Run \notin Busy'
      BY <2>1, <2>9
    <3>2. stage = "work" => ReplayedAttempt' = run.attempt
      <4>1. stage = "work" => Rec(w).kind = "run_attempt_started"
        BY <2>1, <2>9 DEF AppendInv
      <4> QED
        BY <2>4, <2>7, <2>9, <4>1
    <3>3. stage = "ended" => ReplayedAttempt' = run.attempt /\ ReplayedStatus' = run.status
      <4>1. stage = "ended" => Rec(w).kind = "run_ended"
        BY <2>1, <2>9 DEF AppendInv
      <4>2. stage = "ended" => ReplayedAttempt = run.attempt /\ Rec(w).snapshot.status = run.status
        BY <2>1, <2>9 DEF AttemptInv
      <4> QED
        BY <2>7, <2>9, <4>1, <4>2
    <3> QED
      BY <2>1, <2>5, <2>6, <3>1, <3>2, <3>3 DEF AttemptInv
  <2> QED
    BY <2>8, <2>9
<1>8. CASE Crash
  <2>1. ~ alive' /\ UNCHANGED <<file, run>>
    BY <1>8, Crashed DEF state
  <2> QED
    BY <2>1, <1>s
<1>9. CASE Resume
  <2>1. /\ stage' = "declare" /\ run'.attempt = ReplayedAttempt /\ UNCHANGED <<file, appending>>
        /\ ~ alive
    BY <1>9 DEF Resume
  <2>2. Run \notin Busy'
    BY <2>1 DEF ShapeInv, Busy
  <2>3. ReplayedAttempt = AttemptIn(file) /\ file \in Seq(Record)
    BY Reads DEF ReadsEverything
  <2>4. ASSUME NEW i \in DOMAIN file, file[i].kind = "run_attempt_started"
        PROVE  file[i].attempt <= run'.attempt
    <3> DEFINE S == OfKind(file, "run_attempt_started")
    <3>1. i \in S /\ S \in SUBSET DOMAIN file /\ S # {}
      BY <2>4 DEF OfKind
    <3>2. Max(S) \in S /\ i <= Max(S) /\ run'.attempt = file[Max(S)].attempt
      BY <2>1, <2>3, <3>1, LastOfLines DEF AttemptIn
    <3>3. Max(S) \in DOMAIN file /\ file[Max(S)].kind = "run_attempt_started"
      BY <3>2 DEF OfKind
    <3>4. CASE i = Max(S)
      BY <1>t, <3>2, <3>4
    <3>5. CASE i # Max(S)
      <4>1. i < Max(S)
        BY <3>2, <3>3, <3>5, Lines
      <4>2. file[i].attempt < file[Max(S)].attempt
        BY <2>4, <3>3, <4>1 DEF AttemptInv
      <4> QED
        BY <1>t, <3>2, <3>3, <4>2
    <3> QED
      BY <3>4, <3>5
  <2>5. \A i, j \in DOMAIN file :
          file[i].kind = "run_attempt_started" /\ file[j].kind = "run_attempt_started" /\ i < j =>
          file[i].attempt < file[j].attempt
    BY DEF AttemptInv
  <2> QED
    BY <2>1, <2>2, <2>4, <2>5 DEF AttemptInv
<1> QED
  BY <1>0, <1>1, <1>2, <1>3, <1>4, <1>5, <1>6, <1>7, <1>8, <1>9 DEF Next

-----------------------------------------------------------------------------
(* The chain of the hashes.                                                *)

\* There is no chain at first.
LEMMA ChainInit == Init => ChainInv
<1> SUFFICES ASSUME Init PROVE ChainInv
  OBVIOUS
<1>1. Busy = {} /\ hashed = {} /\ file = <<>> /\ prevHash = 0
  BY DEF Init, Busy
<1>2. ChainVerifies /\ LastHash = 0
  BY <1>1 DEF ChainVerifies, LastHash
<1> QED
  BY <1>1, <1>2 DEF ChainInv

\* Every step keeps the chain, while appends do not overlap.
LEMMA ChainStep ==
  ASSUME CutsShowInTheRecord, ShapeInv, SeqInv, ChainInv, [Next]_vars
  PROVE  ChainInv'
<1> SUFFICES ASSUME ~ overlapped' PROVE ChainInv'
  BY DEF ChainInv
<1>f. UNCHANGED file => LastHash' = LastHash /\ ChainVerifies' = ChainVerifies
  BY DEF LastHash, ChainVerifies
<1>0. CASE UNCHANGED vars
  BY <1>0, <1>f DEF vars, state, ChainInv, Busy, Rec
\* An append that overlaps with no other links to the last line.
<1>i. ASSUME \E w \in Writer : IssuesBy(w) PROVE ChainInv'
  <2>1. PICK w \in Writer :
          /\ alive /\ Busy' = Busy \cup {w} /\ Rec(w)'.prev_hash = prevHash
          /\ overlapped' = (overlapped \/ Busy # {})
          /\ UNCHANGED <<alive, prevHash, hashed, file>>
    BY <1>i, Issued DEF IssuesBy
  <2>2. ~ overlapped /\ Busy = {} /\ hashed = {} /\ Busy' = {w}
    BY <2>1 DEF ShapeInv
  <2>3. prevHash = LastHash /\ ChainVerifies
    BY <2>1, <2>2 DEF ChainInv
  <2> QED
    BY <2>1, <2>2, <2>3, <1>f DEF ChainInv
<1>6. ASSUME NEW w \in Writer, Hashed(w) PROVE ChainInv'
  <2>1. /\ w \in Busy /\ hashed' = hashed \cup {w} /\ prevHash' = Hash(Rec(w))
        /\ UNCHANGED <<appending, file, alive, overlapped>>
    BY <1>6 DEF Hashed, Busy, Rec
  <2>2. Busy' = Busy /\ \A v \in Writer : Rec(v)' = Rec(v)
    BY <2>1 DEF Busy, Rec
  <2>3. \A v \in Busy : v = w
    BY <2>1 DEF ChainInv
  <2>4. \A v \in hashed' : v = w
    BY <2>1, <2>3 DEF ShapeInv
  <2>5. prevHash' = Hash(Rec(w)')
    BY <2>1, <2>2
  <2> QED
    BY <2>1, <2>2, <2>4, <2>5, <1>f DEF ChainInv, Busy
<1>7. ASSUME NEW w \in Writer, Written(w) PROVE ChainInv'
  <2>1. /\ alive /\ w \in Busy /\ w \in hashed /\ Busy' = Busy \ {w} /\ hashed' = hashed \ {w}
        /\ UNCHANGED <<alive, prevHash, overlapped>>
    BY <1>7, LineWritten DEF writer
  <2>2. Longer(file, file', Rec(w))
    BY <1>7, LineWritten DEF Longer, ShapeInv
  <2>3. /\ DOMAIN file = 1 .. Len(file) /\ Len(file) \in Nat
        /\ DOMAIN file' = DOMAIN file \cup {Len(file) + 1}
        /\ \A i \in DOMAIN file : file'[i] = file[i]
        /\ file'[Len(file) + 1] = Rec(w)
    BY <2>2, LongerLines
  <2>4. Busy' = {} /\ prevHash = Hash(Rec(w)) /\ Rec(w).prev_hash = LastHash
    BY <2>1 DEF ChainInv
  <2>5. LastHash' = Hash(Rec(w))
    <3>1. Len(file') = Len(file) + 1
      BY <2>2 DEF Longer
    <3>2. file' # <<>>
      BY <2>3, <3>1
    <3>3. Last(file') = Rec(w)
      BY <2>3, <3>1 DEF Last
    <3> QED
      BY <3>2, <3>3 DEF LastHash, Hash
  <2>6. ASSUME NEW i \in DOMAIN file', i > 1
        PROVE  file'[i].prev_hash = Hash(file'[i - 1])
    <3>1. CASE i \in DOMAIN file
      <4>1. i - 1 \in DOMAIN file
        BY <2>3, <2>6, <3>1
      <4>2. file[i].prev_hash = Hash(file[i - 1])
        BY <2>1, <2>6, <3>1 DEF ChainInv, ChainVerifies
      <4> QED
        BY <2>3, <3>1, <4>1, <4>2
    <3>2. CASE i \notin DOMAIN file
      <4>1. i = Len(file) + 1 /\ i - 1 = Len(file) /\ Len(file) \in DOMAIN file
        BY <2>3, <2>6, <3>2
      <4>2. LastHash = Hash(file[Len(file)])
        BY <2>3, <4>1 DEF LastHash, Last
      <4>3. file'[i - 1] = file[Len(file)]
        BY <2>3, <4>1
      <4> QED
        BY <2>3, <2>4, <4>1, <4>2, <4>3
    <3> QED
      BY <3>1, <3>2
  <2>7. ChainVerifies'
    BY <2>6 DEF ChainVerifies
  <2> QED
    BY <2>1, <2>4, <2>5, <2>7, ShapeStep DEF ChainInv, Busy, ShapeInv
<1>8. CASE Crash
  <2>1. ~ alive' /\ Busy' = {} /\ hashed' = {} /\ UNCHANGED <<file, overlapped>>
    BY <1>8, Crashed
  <2> QED
    BY <2>1, <1>f DEF ChainInv
<1>9. CASE Resume
  <2>1. /\ ~ alive /\ prevHash' = LastHash /\ UNCHANGED <<file, overlapped, appending, hashed>>
    BY <1>9 DEF Resume
  <2>2. Busy' = {} /\ hashed' = {}
    BY <2>1 DEF ShapeInv, Busy
  <2> QED
    BY <2>1, <2>2, <1>f DEF ChainInv
<1> QED
  <2>1. CASE Next /\ ~ Crash /\ ~ Resume /\ ~ \E w \in Writer : Hashed(w) \/ Written(w)
    BY <2>1, <1>i, WhoIssues
  <2> QED
    BY <1>0, <1>6, <1>7, <1>8, <1>9, <2>1

-----------------------------------------------------------------------------

\* The inductive invariant.
JournalInv == ShapeInv /\ SeqInv /\ AppendInv /\ DiskInv /\ AttemptInv /\ ChainInv

\* It holds in every state of every run.
LEMMA JournalInvHolds == CutsShowInTheRecord => (Spec => []JournalInv)
<1>1. Init => JournalInv
  BY ShapeInit, SeqInit, AppendInit, DiskInit, AttemptInit, ChainInit DEF JournalInv
<1>2. CutsShowInTheRecord /\ JournalInv /\ [Next]_vars => JournalInv'
  <2> SUFFICES ASSUME CutsShowInTheRecord, JournalInv, [Next]_vars PROVE JournalInv'
    OBVIOUS
  <2>1. ShapeInv /\ SeqInv /\ AppendInv /\ DiskInv /\ AttemptInv /\ ChainInv
    BY DEF JournalInv
  <2>2. ShapeInv' /\ SeqInv'
    BY <2>1, ShapeStep, SeqStep
  <2>3. AppendInv'
    BY <2>1, AppendStep
  <2> QED
    BY <2>1, <2>2, <2>3, DiskStep, AttemptStep, ChainStep DEF JournalInv
<1> QED
  <2> SUFFICES ASSUME CutsShowInTheRecord PROVE Spec => []JournalInv
    OBVIOUS
  <2>1. JournalInv /\ [Next]_vars => JournalInv'
    BY <1>2
  <2> QED
    BY <1>1, <2>1, PTL DEF Spec

\* A node that awaits no append, beside a run that awaits none, is on disk as it
\* is in memory.
LEMMA TrustFollows == JournalInv => JournalCanBeTrusted
<1> SUFFICES ASSUME JournalInv PROVE JournalCanBeTrusted
  OBVIOUS
<1>1. JournalStaysReadable
  BY DEF JournalInv, ShapeInv, JournalStaysReadable, Malformed
<1>2. SettledNodesAreOnDisk
  <2> SUFFICES ASSUME alive, stage \in {"work", "ended"}, NEW n \in Node,
                      appending[n] = <<>>, appending[Run] = <<>>
               PROVE  Replayed(n) = mem[n]
    BY DEF SettledNodesAreOnDisk
  <2>1. n \notin Busy /\ Run \notin Busy
    BY DEF Busy
  <2>2. toDeclare = {} /\ ~ Declaring(n)
    BY <2>1 DEF JournalInv, AppendInv, Declaring
  <2> QED
    BY <2>1, <2>2 DEF JournalInv, DiskInv
<1>3. AttemptsAreCounted
  <2>1. ASSUME NEW i \in Applied("run_attempt_started"), NEW j \in Applied("run_attempt_started"),
               file[i].attempt = file[j].attempt
        PROVE  i = j
    <3>1. /\ i \in DOMAIN file /\ j \in DOMAIN file
          /\ file[i].kind = "run_attempt_started" /\ file[j].kind = "run_attempt_started"
      BY DEF Applied
    <3>2. ~ (i < j) /\ ~ (j < i)
      BY <2>1, <3>1, Lines, Fields DEF JournalInv, AttemptInv
    <3> QED
      BY <3>1, <3>2, Lines DEF JournalInv
  <2>2. ASSUME alive, stage \in {"work", "ended"}, appending[Run] = <<>>
        PROVE  ReplayedAttempt = run.attempt /\ (stage = "ended" => ReplayedStatus = run.status)
    BY <2>2 DEF JournalInv, AttemptInv, Busy
  <2> QED
    BY <2>1, <2>2 DEF AttemptsAreCounted
<1>4. SequentialChainVerifies
  BY DEF JournalInv, ChainInv, SequentialChainVerifies
<1> QED
  BY <1>1, <1>2, <1>3, <1>4 DEF JournalCanBeTrusted

\* What a reader finds in the journal can be trusted (run-journal.ts), as long as
\* no write is cut exactly before its newline.
THEOREM JournalStaysTrusted ==
  ASSUME CutsShowInTheRecord PROVE Spec => []JournalCanBeTrusted
  BY JournalInvHolds, TrustFollows, PTL

\* A change of a node reaches the disk before the next one, and a restart finds
\* every node in its last state but one at worst (DurableState): every step of
\* the journal is a step of it, or none.
THEOREM StateIsDurable ==
  ASSUME CutsShowInTheRecord PROVE Spec => KeepsStateDurable
<1>1. Init => Durable!Init
  BY DurableInit, ShapeInit, SeqInit
<1>2. JournalInv /\ JournalInv' /\ [Next]_vars => [Durable!Next]_(Durable!vars)
  BY DurableStep DEF JournalInv
<1>3. Spec => []JournalInv
  BY JournalInvHolds
<1> QED
  BY <1>1, <1>2, <1>3, PTL DEF Spec, KeepsStateDurable, Durable!Spec

=============================================================================
