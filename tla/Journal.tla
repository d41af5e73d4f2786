------------------------------ MODULE Journal ------------------------------
(***************************************************************************)
(* The run journal (run-journal.ts) under the run that writes to it: the   *)
(* bootstrap facts, the lifecycle transitions of its nodes                 *)
(* (node-lifecycle.ts) and its end.  A transition changes the node in      *)
(* memory and appends a snapshot of it; RunJournalWriter.append numbers    *)
(* and links the record, awaits its hash, and then awaits the write, so    *)
(* the appends of nodes that run together interleave.  The process may die *)
(* at any moment, even with half a line written; a resumed run replays the *)
(* journal, opens it and goes on, as one attempt more.                     *)
(*                                                                         *)
(* A snapshot is its status and the time it was taken.  The hash of a      *)
(* record is modelled by the time it was made: it is as unique as the      *)
(* record, which is what SHA-256 over the canonical JSON is taken to give. *)
(* Records that change no state (workflow_loaded, node_directory_declared, *)
(* branches_expanded) are left out; those of attempts and iterations are   *)
(* in Loop.                                                                *)
(***************************************************************************)
EXTENDS Naturals, SequencesExt, FiniteSetsExt

CONSTANTS Node, Run,   \* the nodes, and the run itself as a writer
          MaxStamps,   \* bound on the records of a run
          Tears        \* how the last line may be cut: see Crash

ASSUME MaxStampsAssumption == MaxStamps \in Nat
ASSUME TearsAssumption == Tears \subseteq {"record", "newline"}
ASSUME RunAssumption == Run \notin Node

Writer   == Node \cup {Run}
Statuses == {"undeclared", "pending", "running", "completed", "failed"}
Snapshot == [status : Statuses, stamp : 0 .. MaxStamps]
Kinds    == {"run_started", "node_declared", "run_attempt_started", "node", "run_ended"}
Record   == [seq : Nat, kind : Kinds, node : Writer, snapshot : Snapshot,
             attempt : Nat, stamp : 0 .. MaxStamps, prev_hash : Nat]

Undeclared == [status |-> "undeclared", stamp |-> 0]
Declared   == [status |-> "pending", stamp |-> 0]
Hash(r)    == r.stamp

VARIABLES
  stage,       \* where the engine stands: see Next
  toDeclare,   \* the nodes the bootstrap has still to declare
  run,         \* state.status and state.attempt
  mem,         \* state.nodes
  alive,       \* an engine holds the run
  nextSeq, prevHash,  \* of the writer
  appending,   \* the append each writer awaits: none or one record
  hashed,      \* those whose append awaits the write, not the hash
  file,        \* the lines of journal.jsonl that parse
  tail,        \* what else there is at its end
  stamp,       \* the clock
  overlapped   \* history: two appends of the run have been under way at once

state  == <<stage, toDeclare, run, mem>>
writer == <<nextSeq, prevHash>>
vars == <<state, alive, nextSeq, prevHash, appending, hashed, file, tail, stamp, overlapped>>

-----------------------------------------------------------------------------
(* Reading.                                                                *)

\* buildEventId: the sequence number, the kind and the node; the kind of a
\* lifecycle record, and of the last one of a run, tells the status.
EventId(r) == <<r.seq, r.kind, r.snapshot.status, r.node>>

\* replayRunJournal keeps the first of the records with the same event id.
IsFirst(i) == \A j \in 1 .. i - 1 : EventId(file[j]) # EventId(file[i])

\* The records of one kind that the replay applies.
Applied(kind) == {i \in DOMAIN file : file[i].kind = kind /\ IsFirst(i)}

\* applyJournalEvents: without run_started there is no state to apply to.
Replayable == file # <<>> /\ file[1].kind = "run_started"

\* applyJournalEvents: the last record of a node replaces its state, and a
\* declared node is pending until then.
Replayed(n) ==
  LET own == {i \in Applied("node") : file[i].node = n}
  IN CASE own # {} -> file[Max(own)].snapshot
       [] own = {} /\ \E i \in Applied("node_declared") : file[i].node = n -> Declared
       [] OTHER -> Undeclared

ReplayedAttempt ==
  LET own == Applied("run_attempt_started")
  IN IF own = {} THEN 1 ELSE file[Max(own)].attempt

ReplayedStatus ==
  LET own == Applied("run_ended")
  IN IF own = {} THEN "running" ELSE file[Max(own)].snapshot.status

\* parseJournal throws: a line that is not the last does not parse.
Malformed == tail = "malformed"

\* verifyJournalChain: every record but the first links to the one before it.
ChainVerifies ==
  \A i \in DOMAIN file : i > 1 => file[i].prev_hash = Hash(file[i - 1])

-----------------------------------------------------------------------------

Init == /\ stage = "start" /\ toDeclare = Node
        /\ run = [status |-> "running", attempt |-> 0]
        /\ mem = [n \in Node |-> Declared]
        /\ alive = TRUE
        /\ nextSeq = 1 /\ prevHash = 0
        /\ appending = [w \in Writer |-> <<>>]
        /\ hashed = {}
        /\ file = <<>> /\ tail = "none"
        /\ stamp = 0
        /\ overlapped = FALSE

\* append, up to the await of the hash.
Issue(w, kind, n, snapshot, attempt) ==
  /\ alive /\ appending[w] = <<>> /\ stamp < MaxStamps
  /\ stamp' = stamp + 1
  /\ appending' = [appending EXCEPT ![w] =
       <<[seq |-> nextSeq, kind |-> kind, node |-> n, snapshot |-> snapshot,
          attempt |-> attempt, stamp |-> stamp', prev_hash |-> prevHash]>>]
  /\ nextSeq' = nextSeq + 1
  /\ overlapped' = (overlapped \/ \E m \in Writer : appending[m] # <<>>)
  /\ UNCHANGED <<alive, prevHash, hashed, file, tail>>

\* emitBootstrapJournal: each record is awaited before the next.
StartRun ==
  /\ stage = "start"
  /\ Issue(Run, "run_started", Run, Declared, 0)
  /\ stage' = "declare"
  /\ UNCHANGED <<toDeclare, run, mem>>

Declare(n) ==
  /\ stage = "declare" /\ n \in toDeclare
  /\ Issue(Run, "node_declared", n, Declared, 0)
  /\ toDeclare' = toDeclare \ {n}
  /\ UNCHANGED <<stage, run, mem>>

\* Mutant: an attempt that was cut short does not count.
NextAttemptIfEnded == IF ReplayedStatus = "running" /\ run.attempt > 0 THEN run.attempt
                      ELSE run.attempt + 1

NextAttempt == run.attempt + 1

\* runWithLock: one attempt more, fresh or resumed.
StartAttempt ==
  /\ stage = "declare" /\ toDeclare = {}
  /\ run' = [run EXCEPT !.attempt = NextAttempt]
  /\ Issue(Run, "run_attempt_started", Run, Declared, NextAttempt)
  /\ stage' = "work"
  /\ UNCHANGED <<toDeclare, mem>>

\* The transitions of a node: it starts, again after a restart, and ends.
Follows(to, from) == IF to = "running" THEN TRUE
                     ELSE from = "running" /\ to \in {"completed", "failed"}

\* markNode... (updateNodeState throws for a node the state does not have) and
\* emitNodeLifecycle.  Nodes go on while a signal handler ends the run.
Transit(n, to) ==
  /\ stage = "work" => appending[Run] = <<>>
  /\ stage \in {"work", "ended"}
  /\ mem[n].status # "undeclared" /\ Follows(to, mem[n].status)
  /\ LET snapshot == [status |-> to, stamp |-> stamp + 1]
     IN /\ mem' = [mem EXCEPT ![n] = snapshot]
        /\ Issue(n, "node", n, snapshot, 0)
  /\ UNCHANGED <<stage, toDeclare, run>>

\* markRunCompleted, markRunFailed, markRunAborted and recordRunTerminal, at the
\* end of the run or by a signal.
EndRun(status) ==
  /\ stage = "work"
  /\ run' = [run EXCEPT !.status = status]
  /\ Issue(Run, "run_ended", Run, [status |-> status, stamp |-> stamp + 1], 0)
  /\ stage' = "ended"
  /\ UNCHANGED <<toDeclare, mem>>

\* The hash of the record is there: the next append links to it.
Hashed(n) ==
  /\ alive /\ appending[n] # <<>> /\ n \notin hashed
  /\ hashed' = hashed \cup {n}
  /\ prevHash' = Hash(Head(appending[n]))
  /\ UNCHANGED <<state, alive, nextSeq, appending, file, tail, stamp, overlapped>>

\* The line is written.  Writes that are under way together land in any order.
\* After a line without its newline it makes one line that does not parse.
Written(n) ==
  /\ alive /\ n \in hashed
  /\ IF tail = "none"
     THEN file' = Append(file, Head(appending[n])) /\ UNCHANGED tail
     ELSE tail' = "malformed" /\ UNCHANGED file
  /\ appending' = [appending EXCEPT ![n] = <<>>]
  /\ hashed' = hashed \ {n}
  /\ UNCHANGED <<state, alive, writer, stamp, overlapped>>

\* The process dies.  A write under way may leave a line that is cut short, in
\* its record or just before its newline.
Crash ==
  /\ alive
  /\ alive' = FALSE
  /\ \/ UNCHANGED <<file, tail>>
     \/ \E n \in hashed :
          /\ tail = "none"
          /\ tail' \in Tears
          /\ file' = IF tail' = "newline" THEN Append(file, Head(appending[n])) ELSE file
  /\ appending' = [w \in Writer |-> <<>>]
  /\ hashed' = {}
  /\ UNCHANGED <<state, writer, stamp, overlapped>>

\* One more than the greatest number on disk.
NextSeqOnDisk == 1 + Max({0} \cup {file[i].seq : i \in DOMAIN file})

\* Mutant: the cut line stays.
TruncatedNot == tail

\* open truncates a last line that does not parse.
Truncated == IF tail = "record" THEN "none" ELSE tail

LastHash == IF file = <<>> THEN 0 ELSE Hash(Last(file))

\* replayRunJournal and RunJournalWriter.open.
Resume ==
  /\ ~ alive /\ ~ Malformed /\ Replayable
  /\ alive' = TRUE
  /\ stage' = "declare" /\ toDeclare' = {}
  /\ run' = [status |-> "running", attempt |-> ReplayedAttempt]
  /\ mem' = [n \in Node |-> Replayed(n)]
  /\ tail' = Truncated
  /\ nextSeq' = NextSeqOnDisk
  /\ prevHash' = LastHash
  /\ UNCHANGED <<appending, hashed, file, stamp, overlapped>>

Next == \/ StartRun \/ StartAttempt
        \/ \E n \in Node : Declare(n) \/ \E to \in Statuses : Transit(n, to)
        \/ \E status \in {"completed", "failed"} : EndRun(status)
        \/ \E w \in Writer : Hashed(w) \/ Written(w)
        \/ Crash \/ Resume

Spec == Init /\ [][Next]_vars

-----------------------------------------------------------------------------
(* Properties.                                                             *)

\* Every variable holds a value of its type; the records on disk and those on
\* their way there carry numbers that the writer has given out.
TypeOK ==
  /\ stage \in {"start", "declare", "work", "ended"} /\ toDeclare \subseteq Node
  /\ run \in [status : Statuses, attempt : Nat]
  /\ mem \in [Node -> Snapshot]
  /\ alive \in BOOLEAN /\ overlapped \in BOOLEAN
  /\ nextSeq \in Nat /\ prevHash \in Nat /\ stamp \in 0 .. MaxStamps
  /\ \A w \in Writer : appending[w] = <<>> \/ appending[w] \in [{1} -> Record]
  /\ hashed \subseteq {w \in Writer : appending[w] # <<>>}
  /\ file \in Seq(Record)
  /\ alive => \A r \in ToSet(file) \cup {Head(appending[w]) : w \in {m \in Writer : appending[m] # <<>>}} :
                r.seq < nextSeq
  /\ tail \in {"none", "record", "newline", "malformed"}

\* While the engine runs, a node that awaits no append is on disk as it is in
\* memory: out-of-order writes of other nodes, lost records and reused numbers
\* notwithstanding (emitNodeLifecycle awaits the journal).
SettledNodesAreOnDisk ==
  alive /\ stage \in {"work", "ended"} =>
    \A n \in Node : appending[n] = <<>> /\ appending[Run] = <<>> => Replayed(n) = mem[n]

\* FR-E99: a resumed run learns from the journal which attempt it is, no attempt
\* is counted twice, and the run that has ended is on disk as it ended.
AttemptsAreCounted ==
  /\ \A i, j \in Applied("run_attempt_started") : file[i].attempt = file[j].attempt => i = j
  /\ alive /\ stage \in {"work", "ended"} /\ appending[Run] = <<>> =>
       /\ ReplayedAttempt = run.attempt
       /\ stage = "ended" => ReplayedStatus = run.status

\* A crash at any moment leaves a journal that parses (parseJournal, open).
JournalStaysReadable == ~ Malformed

\* As long as appends do not overlap, the audit finds the chain intact across
\* crashes and resumes (FR-E92).
SequentialChainVerifies == ~ overlapped => ChainVerifies

\* What a reader finds in the journal, at any moment: it parses, it is as new as
\* what the engine has settled, and its chain holds (run-journal.ts).
JournalCanBeTrusted ==
  /\ JournalStaysReadable /\ SettledNodesAreOnDisk
  /\ AttemptsAreCounted /\ SequentialChainVerifies

\* The journal gives the engine a durable state.
\* A node is a part of it from its declaration on.
Durable == INSTANCE DurableState WITH disk <- [n \in Node |-> Replayed(n)],
             mem <- [n \in Node |-> IF alive /\ n \notin toDeclare THEN mem[n] ELSE Replayed(n)]

\* Transitions, writes, crashes and resumes keep it (run-journal.ts).
KeepsStateDurable == Durable!Spec

-----------------------------------------------------------------------------
(* What a document says and the code does not do.                          *)

\* The audit reports a mismatch for a record that "was edited, removed or
\* inserted" (FR-E92), and here nobody edits, removes or inserts one.
UntouchedChainVerifies == ChainVerifies

\* emitBootstrapJournal: "ordered bootstrap facts before executable node
\* transitions"; an engine at work has a state of every node.
EveryNodeIsDeclared == stage = "work" => \A n \in Node : mem[n].status # "undeclared"

\* A reader of the journal sees a run that is at work as running (RunState.status).
WorkingRunIsRunning ==
  alive /\ stage = "work" /\ appending[Run] = <<>> => ReplayedStatus = run.status

=============================================================================
