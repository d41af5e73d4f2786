------------------------------ MODULE RunLock ------------------------------
(***************************************************************************)
(* Which engine owns a workflow folder: the kernel lock on runs/.lock and  *)
(* the record in that file (lock.ts, FR-E54, FR-E102), as the invocations  *)
(* of Engine.run use it, with the probes of the command layer              *)
(* (liveLockHolder: start_run, resume_node, cancel_run, answer) and the    *)
(* shutdown callbacks.  An invocation is a process; it resumes a run whose *)
(* journal has records and starts any other.  A process may be killed at   *)
(* any moment: the kernel then drops its lock, and its record stays.       *)
(***************************************************************************)
EXTENDS Naturals, SequencesExt, FiniteSetsExt

CONSTANTS Engine,   \* invocations of Engine.run
          Asker,    \* invocations of liveLockHolder
          Run,      \* the runs of the folder
          Fact,     \* what a run records, as far as event ids tell it apart
          None, Empty,  \* no process or file, and an empty lock file
          MaxRecords  \* bound on the records of a run

ASSUME NoneAssumption == None \notin Engine /\ Empty \notin Engine \cup {None}
ASSUME FactAssumption == Fact \cap {"run_completed", "run_failed"} = {}
ASSUME MaxRecordsAssumption == MaxRecords \in Nat

What   == Fact \cup {"run_completed", "run_failed"}
Record == [seq : Nat, what : What, by : Engine]

VARIABLES
  lock,       \* the process that has the exclusive lock, or None
  shared,     \* the probes that have a shared lock
  content,    \* of the lock file: the engine of the record, or Empty; None, no file
  journal,    \* of each run
  stage,      \* where an invocation is
  runOf,      \* its run
  view,       \* the journal it has replayed
  nextSeq,    \* of its writer
  tries,      \* how often it has asked for the lock
  blockers,   \* the probes that kept it from the lock the last time
  callbacks,  \* the shutdown callbacks it has not run yet
  signalled,  \* the engines that shut down
  asker,      \* where a probe is
  met,        \* history: engines that another engine has kept from the lock
  late        \* history: engines that started while another had the lock

probes  == <<shared, asker>>
history == <<met, late>>
vars == <<lock, shared, content, journal, stage, runOf, view, nextSeq, tries,
          blockers, callbacks, signalled, asker, met, late>>
\* What only the command layer and the lock change.
attempts == <<tries, blockers>>

AtWork   == {e \in Engine : stage[e] \in {"locked", "truncated", "working", "ending"}}
Starting == {e \in Engine : stage[e] \in {"replayed", "opened"}}

Go(e, s) == stage' = [stage EXCEPT ![e] = s]

Init == /\ lock = None /\ shared = {} /\ content = None
        /\ journal = [r \in Run |-> <<>>]
        /\ stage = [e \in Engine |-> "idle"]
        /\ runOf = [e \in Engine |-> None]
        /\ view = [e \in Engine |-> <<>>]
        /\ nextSeq = [e \in Engine |-> 0]
        /\ tries = [e \in Engine |-> 0]
        /\ blockers = [e \in Engine |-> {}]
        /\ callbacks = [e \in Engine |-> {}]
        /\ signalled = {}
        /\ asker = [a \in Asker |-> "idle"]
        /\ met = {} /\ late = {}

-----------------------------------------------------------------------------
(* Engine.run, up to the lock.                                             *)

\* Mutant: the last record is not replayed.
ReplayedButLast(r) == IF journal[r] = <<>> THEN <<>> ELSE Front(journal[r])

Replayed(r) == journal[r]

StartsOn(e, r) ==
  /\ stage[e] = "idle"
  /\ Go(e, "replayed")
  /\ runOf' = [runOf EXCEPT ![e] = r]
  /\ late' = IF lock # None THEN late \cup {e} ELSE late
  /\ UNCHANGED <<lock, content, journal, nextSeq, attempts, callbacks, signalled,
                 probes, met>>

\* A new run, under an id of its own.
Create(e, r) ==
  /\ StartsOn(e, r)
  /\ \A other \in Engine : runOf[other] # r
  /\ UNCHANGED view

\* A resume; it replays the journal before it asks for the lock.
Replay(e, r) ==
  /\ StartsOn(e, r)
  /\ journal[r] # <<>>
  /\ view' = [view EXCEPT ![e] = Replayed(r)]

SeqsOnDisk(r) == {journal[r][i].seq : i \in DOMAIN journal[r]}

\* RunJournalWriter.open.
NextSeqOnDisk(r) == 1 + Max({0} \cup SeqsOnDisk(r))

Open(e) ==
  /\ stage[e] = "replayed"
  /\ Go(e, "opened")
  /\ nextSeq' = [nextSeq EXCEPT ![e] = NextSeqOnDisk(runOf[e])]
  /\ UNCHANGED <<lock, content, journal, runOf, view, attempts, callbacks, signalled,
                 probes, history>>

\* Mutant: the lock is asked for once.
OneAttempt == 1

AcquireAttempts == 3

\* takeWithRetries, on a file that acquireLock creates if there is none: the
\* exclusive lock conflicts with every other lock.  A probe has its lock for microseconds, the attempts are 50 ms apart.
TryLock(e) ==
  /\ stage[e] = "opened" /\ blockers[e] \cap shared = {}
  /\ IF lock = None /\ shared = {}
     THEN /\ lock' = e
          /\ Go(e, "locked")
          /\ tries' = [tries EXCEPT ![e] = 0]
          /\ blockers' = [blockers EXCEPT ![e] = {}]
          /\ met' = met \ {e}
          /\ callbacks' = [callbacks EXCEPT ![e] = {"release", "record"}]
          /\ late' = late \cup (Starting \ {e})
     ELSE /\ tries' = [tries EXCEPT ![e] = @ + 1]
          /\ blockers' = [blockers EXCEPT ![e] = shared]
          /\ Go(e, IF tries'[e] = AcquireAttempts THEN "refused" ELSE "opened")
          /\ met' = IF lock # None THEN met \cup {e} ELSE met
          /\ UNCHANGED <<lock, callbacks, late>>
  /\ content' = IF content = None THEN Empty ELSE content
  /\ UNCHANGED <<journal, runOf, view, nextSeq, signalled, probes>>

-----------------------------------------------------------------------------
(* The engine that has the lock.                                           *)

\* publish: the record is overwritten in place.
Truncate(e) ==
  /\ stage[e] = "locked"
  /\ Go(e, "truncated")
  /\ content' = Empty
  /\ UNCHANGED <<lock, journal, runOf, view, nextSeq, attempts, callbacks, signalled,
                 probes, history>>

\* Mutant: the record is staged and renamed over the locked file.
LockAfterRename == None

LockAfterWrite == lock

Publish(e) ==
  /\ stage[e] = "truncated"
  /\ Go(e, "working")
  /\ content' = e
  /\ lock' = LockAfterWrite
  /\ UNCHANGED <<journal, runOf, view, nextSeq, attempts, callbacks, signalled,
                 probes, history>>

\* RunJournalWriter.append.
Append1(e, w) ==
  /\ Len(journal[runOf[e]]) < MaxRecords
  /\ journal' = [journal EXCEPT ![runOf[e]] =
                   Append(@, [seq |-> nextSeq[e], what |-> w, by |-> e])]
  /\ nextSeq' = [nextSeq EXCEPT ![e] = @ + 1]

Work(e, f) ==
  /\ stage[e] = "working"
  /\ Append1(e, f)
  /\ UNCHANGED <<lock, content, stage, runOf, view, attempts, callbacks, signalled,
                 probes, history>>

\* The terminal record, of whatever kind, and then the `finally` of run.
Conclude(e, w) ==
  /\ stage[e] = "working"
  /\ Append1(e, w)
  /\ Go(e, "ending")
  /\ UNCHANGED <<lock, content, runOf, view, attempts, callbacks, signalled, probes,
                 history>>

\* HeldLock.release: the lock of a descriptor that is closed already stays put.
Released(e) == IF lock = e THEN None ELSE lock

Release(e) ==
  /\ stage[e] = "ending"
  /\ Go(e, "over")
  /\ lock' = Released(e)
  /\ callbacks' = [callbacks EXCEPT ![e] = {}]
  /\ UNCHANGED <<content, journal, runOf, view, nextSeq, attempts, signalled, probes,
                 history>>

-----------------------------------------------------------------------------
(* Shutdown: the main flow goes on until the process exits.                *)

\* A signal to an engine that has registered its callbacks.
Signal(e) ==
  /\ stage[e] \in {"working", "ending"} /\ e \notin signalled
  /\ signalled' = signalled \cup {e}
  /\ UNCHANGED <<lock, content, journal, stage, runOf, view, nextSeq, attempts,
                 callbacks, probes, history>>

CallRelease(e) ==
  /\ e \in signalled /\ "release" \in callbacks[e]
  /\ lock' = Released(e)
  /\ callbacks' = [callbacks EXCEPT ![e] = @ \ {"release"}]
  /\ UNCHANGED <<content, journal, stage, runOf, view, nextSeq, attempts, signalled,
                 probes, history>>

\* Only a run that is still running gets a run_failed.
CallRecord(e) ==
  /\ e \in signalled /\ "record" \in callbacks[e]
  /\ callbacks' = [callbacks EXCEPT ![e] = @ \ {"record"}]
  /\ IF stage[e] = "working" THEN Append1(e, "run_failed")
                             ELSE UNCHANGED <<journal, nextSeq>>
  /\ UNCHANGED <<lock, content, stage, runOf, view, attempts, signalled, probes,
                 history>>

\* The process ends: killed, or, when its callbacks are done, by Deno.exit.
\* The kernel drops its lock.
Die(e) ==
  /\ stage[e] \in {"replayed", "opened", "locked", "truncated", "working", "ending"}
  /\ Go(e, "over")
  /\ lock' = Released(e)
  /\ callbacks' = [callbacks EXCEPT ![e] = {}]
  /\ UNCHANGED <<content, journal, runOf, view, nextSeq, attempts, signalled, probes,
                 history>>

-----------------------------------------------------------------------------
(* liveLockHolder.                                                         *)

\* No lock file: the folder is free.
FindNoFile(a) ==
  /\ asker[a] = "idle" /\ content = None
  /\ asker' = [asker EXCEPT ![a] = "free"]
  /\ UNCHANGED <<lock, shared, content, journal, stage, runOf, view, nextSeq, attempts,
                 callbacks, signalled, history>>

\* A shared lock conflicts with an engine's, not with another probe's.
Probe(a) ==
  /\ asker[a] = "idle" /\ content # None
  /\ IF lock = None
     THEN /\ asker' = [asker EXCEPT ![a] = "sharing"]
          /\ shared' = shared \cup {a}
     ELSE /\ asker' = [asker EXCEPT ![a] = "refused"]
          /\ UNCHANGED shared
  /\ UNCHANGED <<lock, content, journal, stage, runOf, view, nextSeq, attempts,
                 callbacks, signalled, history>>

Unlock(a) ==
  /\ asker[a] = "sharing"
  /\ asker' = [asker EXCEPT ![a] = "free"]
  /\ shared' = shared \ {a}
  /\ UNCHANGED <<lock, content, journal, stage, runOf, view, nextSeq, attempts,
                 callbacks, signalled, history>>

\* readLockInfo; an empty file is no record and throws.
ReadRecord(a) ==
  /\ asker[a] = "refused"
  /\ asker' = [asker EXCEPT ![a] = IF content = Empty THEN "unread" ELSE "named"]
  /\ UNCHANGED <<lock, shared, content, journal, stage, runOf, view, nextSeq, attempts,
                 callbacks, signalled, history>>

Next == \/ \E e \in Engine :
             \/ \E r \in Run : Create(e, r) \/ Replay(e, r)
             \/ Open(e) \/ TryLock(e) \/ Truncate(e) \/ Publish(e)
             \/ \E f \in Fact : Work(e, f)
             \/ \E w \in {"run_completed", "run_failed"} : Conclude(e, w)
             \/ Release(e) \/ Signal(e) \/ CallRelease(e) \/ CallRecord(e) \/ Die(e)
        \/ \E a \in Asker : FindNoFile(a) \/ Probe(a) \/ Unlock(a) \/ ReadRecord(a)

Spec == Init /\ [][Next]_vars

-----------------------------------------------------------------------------
(* Properties.                                                             *)

Stages == {"idle", "replayed", "opened", "locked", "truncated", "working",
           "ending", "over", "refused"}

\* Every variable holds a value of its type; whoever has the lock is alive and
\* at work, and shuts down properly once it has registered its callbacks.
TypeOK ==
  /\ lock \in AtWork \cup {None}
  /\ shared \subseteq Asker /\ shared = {a \in Asker : asker[a] = "sharing"}
  /\ content \in Engine \cup {None, Empty}
  /\ journal \in [Run -> Seq(Record)]
  /\ stage \in [Engine -> Stages]
  /\ runOf \in [Engine -> Run \cup {None}]
  /\ view \in [Engine -> Seq(Record)]
  /\ nextSeq \in [Engine -> Nat] /\ tries \in [Engine -> 0 .. AcquireAttempts]
  /\ blockers \in [Engine -> SUBSET Asker]
  /\ callbacks \in [Engine -> SUBSET {"release", "record"}]
  /\ signalled \subseteq Engine /\ met \subseteq Engine /\ late \subseteq Engine
  /\ asker \in [Asker -> {"idle", "sharing", "refused", "free", "named", "unread"}]

\* Two engines are at work in a folder only while one of them shuts down, its
\* lock released and its main flow not yet stopped (FR-E54; onShutdown in run).
OneAtWork ==
  \A e1, e2 \in AtWork : e1 = e2 \/ e1 \in signalled \/ e2 \in signalled

\* Probes alone never make an engine give up, as long as there are fewer of
\* them than attempts (comment on ACQUIRE_ATTEMPTS).
RefusedByARun == \A e \in Engine : stage[e] = "refused" => e \in met

\* Nobody shuts down or has shut down while the lock was his.
Undisturbed == signalled = {}

\* An engine that started while the folder was free acts on all there is: its
\* run's journal is what it has replayed and what it has recorded since.
SeesItsWholeRun ==
  Undisturbed => \A e \in AtWork \ late :
     \A i \in DOMAIN journal[runOf[e]] :
        i > Len(view[e]) => journal[runOf[e]][i].by = e

\* ... and then no record is lost to another one with the same event id.
NoRecordIsIgnored ==
  Undisturbed /\ late = {} => \A r \in Run : \A i, j \in DOMAIN journal[r] :
     journal[r][i].seq = journal[r][j].seq /\ journal[r][i].what = journal[r][j].what
     => i = j

\* Together: an engine at work acts on the whole journal of its run, and what it
\* adds is read by the next one (run, replayRunJournal, FR-E54).
ActsOnWholeRun == SeesItsWholeRun /\ NoRecordIsIgnored

-----------------------------------------------------------------------------
(* What documents and comments say and the code does not do.               *)

\* Concurrent resumes of one run "are serialised by the existing per-workflow
\* run lock" (07-mcp-and-plugin-runtime.md): the second one acts on what the
\* first one recorded.
ResumesAreSerial ==
  Undisturbed => \A e \in AtWork : \A i \in DOMAIN journal[runOf[e]] :
     i > Len(view[e]) => journal[runOf[e]][i].by = e

=============================================================================
