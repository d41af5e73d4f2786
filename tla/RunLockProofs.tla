--------------------------- MODULE RunLockProofs ---------------------------
(***************************************************************************)
(* Proof that the lock of a workflow folder (RunLock) keeps engines apart, *)
(* for any number of engines, probes and runs.                             *)
(***************************************************************************)
EXTENDS RunLock, FiniteSetTheorems, TLAPS

\* What the argument needs to know of the types.
Shape == /\ lock \in Engine \cup {None}
         /\ stage \in [Engine -> Stages]

\* An engine at work has the lock, or has let it go in its shutdown.
HasLock == \A e \in AtWork : lock = e \/ e \in signalled

IInv == Shape /\ HasLock

\* Before anyone starts nobody is at work.
LEMMA StartsFree == Init => IInv
BY DEF Init, IInv, Shape, HasLock, AtWork, Stages

\* An engine that is not at work before a step and is after it has just taken
\* a free lock.
LEMMA StepKeeps == IInv /\ [Next]_vars => IInv'
<1> SUFFICES ASSUME IInv, [Next]_vars PROVE IInv'
    OBVIOUS
<1> USE NoneAssumption DEF IInv, Shape, HasLock, AtWork, Stages, Go
<1>1. CASE UNCHANGED vars
      BY <1>1 DEF vars
<1>2. ASSUME NEW e \in Engine, NEW r \in Run, StartsOn(e, r) PROVE IInv'
      BY <1>2 DEF StartsOn
<1>3. ASSUME NEW e \in Engine, NEW r \in Run, Create(e, r) \/ Replay(e, r) PROVE IInv'
      BY <1>2, <1>3 DEF Create, Replay
<1>4. ASSUME NEW e \in Engine, Open(e) PROVE IInv'
      BY <1>4 DEF Open
<1>5. ASSUME NEW e \in Engine, TryLock(e) PROVE IInv'
  <2>1. CASE lock = None /\ shared = {}
    <3>1. lock' = e /\ signalled' = signalled /\ stage' = [stage EXCEPT ![e] = "locked"]
          BY <1>5, <2>1 DEF TryLock
    <3>2. \A f \in AtWork : f \in signalled
          BY <2>1
    <3> QED
        BY <3>1, <3>2
  <2>2. CASE ~(lock = None /\ shared = {})
    <3>1. /\ lock' = lock /\ signalled' = signalled
          /\ \E s \in {"refused", "opened"} : stage' = [stage EXCEPT ![e] = s]
          BY <1>5, <2>2 DEF TryLock
    <3> QED
        BY <3>1
  <2> QED
      BY <2>1, <2>2
<1>6. ASSUME NEW e \in Engine, Truncate(e) PROVE IInv'
      BY <1>6 DEF Truncate
<1>7. ASSUME NEW e \in Engine, Publish(e) PROVE IInv'
      BY <1>7 DEF Publish, LockAfterWrite
<1>8. ASSUME NEW e \in Engine, NEW f \in Fact, Work(e, f) PROVE IInv'
      BY <1>8 DEF Work
<1>9. ASSUME NEW e \in Engine, NEW w \in {"run_completed", "run_failed"}, Conclude(e, w)
      PROVE IInv'
      BY <1>9 DEF Conclude
<1>10. ASSUME NEW e \in Engine, Release(e) PROVE IInv'
       BY <1>10 DEF Release, Released
<1>11. ASSUME NEW e \in Engine, Signal(e) PROVE IInv'
       BY <1>11 DEF Signal, probes
<1>12. ASSUME NEW e \in Engine, CallRelease(e) PROVE IInv'
       BY <1>12 DEF CallRelease, Released
<1>13. ASSUME NEW e \in Engine, CallRecord(e) PROVE IInv'
       BY <1>13 DEF CallRecord
<1>14. ASSUME NEW e \in Engine, Die(e) PROVE IInv'
       BY <1>14 DEF Die, Released
<1>15. ASSUME NEW a \in Asker, FindNoFile(a) \/ Probe(a) \/ Unlock(a) \/ ReadRecord(a)
       PROVE IInv'
       BY <1>15 DEF FindNoFile, Probe, Unlock, ReadRecord
<1> QED
    BY <1>1, <1>3, <1>4, <1>5, <1>6, <1>7, <1>8, <1>9, <1>10, <1>11, <1>12, <1>13,
       <1>14, <1>15 DEF Next

\* Two engines are at work in a folder only while one of them shuts down,
\* however many processes contend for it, die or probe it (lock.ts, FR-E54).
THEOREM LockKeepsApart == Spec => []OneAtWork
<1>1. IInv => OneAtWork
      BY DEF IInv, Shape, HasLock, OneAtWork, AtWork
<1> QED
    BY StartsFree, StepKeeps, <1>1, PTL DEF Spec

-----------------------------------------------------------------------------
(* The types.                                                              *)

\* The event ids of a run have a largest one, which is what a writer that
\* opens the journal goes on from.
HasTop(r) == \E m \in {0} \cup SeqsOnDisk(r) : \A x \in {0} \cup SeqsOnDisk(r) : x <= m

Types == /\ lock \in Engine \cup {None}
         /\ stage \in [Engine -> Stages]
         /\ runOf \in [Engine -> Run \cup {None}]
         /\ journal \in [Run -> Seq(Record)]
         /\ view \in [Engine -> Seq(Record)]
         /\ nextSeq \in [Engine -> Nat]
         /\ \A e \in Engine : stage[e] # "idle" => runOf[e] \in Run
         /\ \A r \in Run : HasTop(r)

\* A journal that does not change keeps its ids.
LEMMA SameIds ==
  ASSUME NEW r \in Run, journal'[r] = journal[r]
  PROVE  SeqsOnDisk(r)' = SeqsOnDisk(r) /\ HasTop(r)' = HasTop(r)
<1>1. SeqsOnDisk(r)' = {journal'[r][i].seq : i \in DOMAIN journal'[r]}
      BY DEF SeqsOnDisk
<1>2. SeqsOnDisk(r)' = SeqsOnDisk(r)
      BY <1>1 DEF SeqsOnDisk
<1> QED
    BY <1>2 DEF HasTop

\* What a record appended to a journal changes.
LEMMA AppendGrows ==
  ASSUME Types, NEW e \in Engine, NEW r \in Run, runOf[e] = r, NEW w \in What,
         Append1(e, w)
  PROVE  /\ journal' \in [Run -> Seq(Record)] /\ nextSeq' \in [Engine -> Nat]
         /\ nextSeq'[e] = nextSeq[e] + 1
         /\ \A f \in Engine \ {e} : nextSeq'[f] = nextSeq[f]
         /\ \A q \in Run \ {r} : journal'[q] = journal[q]
         /\ Len(journal'[r]) = Len(journal[r]) + 1
         /\ \A i \in 1 .. Len(journal[r]) : journal'[r][i] = journal[r][i]
         /\ journal'[r][Len(journal[r]) + 1].seq = nextSeq[e]
         /\ journal'[r][Len(journal[r]) + 1].by = e
         /\ SeqsOnDisk(r)' = SeqsOnDisk(r) \cup {nextSeq[e]}
<1> DEFINE new == [seq |-> nextSeq[e], what |-> w, by |-> e]
<1>1. nextSeq[e] \in Nat /\ journal[r] \in Seq(Record)
      BY DEF Types
<1>2. new \in Record /\ new.seq = nextSeq[e] /\ new.by = e
      BY <1>1 DEF Record
<1>4. journal' = [journal EXCEPT ![r] = Append(@, new)]
      BY DEF Append1
<1> HIDE DEF new
<1>5. journal'[r] = Append(journal[r], new)
      BY <1>1, <1>4 DEF Types
<1>6. /\ Append(journal[r], new) \in Seq(Record)
      /\ Len(journal'[r]) = Len(journal[r]) + 1
      /\ \A i \in 1 .. Len(journal[r]) : journal'[r][i] = journal[r][i]
      /\ journal'[r][Len(journal[r]) + 1] = new
      BY <1>1, <1>2, <1>5
<1>7. journal' \in [Run -> Seq(Record)] /\ \A q \in Run \ {r} : journal'[q] = journal[q]
      BY <1>1, <1>4, <1>6 DEF Types
<1>8. /\ nextSeq' \in [Engine -> Nat] /\ nextSeq'[e] = nextSeq[e] + 1
      /\ \A f \in Engine \ {e} : nextSeq'[f] = nextSeq[f]
      BY DEF Types, Append1
<1>9. SeqsOnDisk(r)' = SeqsOnDisk(r) \cup {nextSeq[e]}
  <2>1. /\ DOMAIN journal'[r] = 1 .. Len(journal[r]) + 1
        /\ DOMAIN journal[r] = 1 .. Len(journal[r]) /\ Len(journal[r]) \in Nat
        BY <1>1, <1>5, <1>6
  <2>2. SeqsOnDisk(r)' = {journal'[r][i].seq : i \in DOMAIN journal'[r]}
        BY DEF SeqsOnDisk
  <2>3. \A x \in SeqsOnDisk(r)' : x \in SeqsOnDisk(r) \cup {nextSeq[e]}
        BY <2>1, <2>2, <1>2, <1>6 DEF SeqsOnDisk
  <2>4. \A x \in SeqsOnDisk(r) \cup {nextSeq[e]} : x \in SeqsOnDisk(r)'
        BY <2>1, <2>2, <1>2, <1>6 DEF SeqsOnDisk
  <2> QED
      BY <2>3, <2>4
<1> QED
    BY <1>2, <1>6, <1>7, <1>8, <1>9

\* ... so the ids keep having a largest one.
LEMMA AppendKeepsTop ==
  ASSUME Types, NEW e \in Engine, NEW r \in Run, runOf[e] = r, NEW w \in What,
         Append1(e, w)
  PROVE  \A q \in Run : HasTop(q)'
<1> TAKE q \in Run
<1>1. CASE q # r
  <2>1. journal'[q] = journal[q]
        BY <1>1, AppendGrows
  <2> QED
      BY <2>1, SameIds DEF Types
<1>2. CASE q = r
  <2>1. SeqsOnDisk(r)' = SeqsOnDisk(r) \cup {nextSeq[e]} /\ nextSeq[e] \in Nat
        BY AppendGrows DEF Types
  <2>2. \A x \in SeqsOnDisk(r) : x \in Nat
    <3>1. \A i \in DOMAIN journal[r] : journal[r][i] \in Record
          BY DEF Types
    <3> QED
        BY <3>1 DEF SeqsOnDisk, Record
  <2>3. PICK m \in {0} \cup SeqsOnDisk(r) : \A x \in {0} \cup SeqsOnDisk(r) : x <= m
        BY DEF Types, HasTop
  <2>4. HasTop(r)' <=> \E n \in {0} \cup SeqsOnDisk(r)' :
                          \A x \in {0} \cup SeqsOnDisk(r)' : x <= n
        BY DEF HasTop
  <2>5. CASE nextSeq[e] <= m
        BY <2>1, <2>2, <2>3, <2>4, <2>5, <1>2
  <2>6. CASE ~(nextSeq[e] <= m)
    <3>1. \A x \in {0} \cup SeqsOnDisk(r) : x <= nextSeq[e]
          BY <2>1, <2>2, <2>3, <2>6
    <3> QED
        BY <2>1, <2>4, <3>1, <1>2
  <2> QED
      BY <2>5, <2>6
<1> QED
    BY <1>1, <1>2

\* RunJournalWriter.open finds the largest id.
LEMMA OpensAboveAll ==
  ASSUME Types, NEW r \in Run
  PROVE  /\ NextSeqOnDisk(r) \in Nat
         /\ \A x \in SeqsOnDisk(r) : x < NextSeqOnDisk(r)
<1> DEFINE S == {0} \cup SeqsOnDisk(r)
           top == CHOOSE x \in S : \A y \in S : x >= y
<1>1. \A x \in S : x \in Nat
  <2>1. \A i \in DOMAIN journal[r] : journal[r][i] \in Record
        BY DEF Types
  <2> QED
      BY <2>1 DEF SeqsOnDisk, Record
<1>2. \E x \in S : \A y \in S : x >= y
      BY <1>1 DEF Types, HasTop
<1> HIDE DEF S
<1>3. top \in S /\ \A y \in S : top >= y
      BY <1>2
<1>4. NextSeqOnDisk(r) = 1 + top
      BY DEF NextSeqOnDisk, Max, S
<1> HIDE DEF top
<1>5. \A x \in SeqsOnDisk(r) : x \in S
      BY DEF S
<1> QED
    BY <1>1, <1>3, <1>4, <1>5

\* What a step that writes nothing leaves alone.
Silent == UNCHANGED <<journal, runOf, view, nextSeq>>

\* Which steps write, and what they write.
LEMMA StepsThatWrite ==
  ASSUME [Next]_vars
  PROVE  \/ Silent
         \/ \E e \in Engine, r \in Run : Create(e, r) \/ Replay(e, r)
         \/ \E e \in Engine : Open(e)
         \/ \E e \in Engine, w \in What :
              /\ stage[e] = "working" /\ Append1(e, w)
              /\ stage' = stage \/ Go(e, "ending")
              /\ UNCHANGED <<lock, runOf, view, signalled, late>>
<1>1. CASE UNCHANGED vars
      BY <1>1 DEF vars, Silent
<1>2. CASE Next
      BY <1>2 DEF Next, What, Work, Conclude, CallRecord, TryLock, Truncate, Publish, Release,
                  Signal, CallRelease, Die, FindNoFile, Probe, Unlock, ReadRecord, Silent,
                  history
<1> QED
    BY <1>1, <1>2

\* At the beginning no engine has started.
LEMMA StartsTyped == Init => Types
<1> SUFFICES ASSUME Init PROVE Types
    OBVIOUS
<1>1. \A r \in Run : journal[r] = <<>>
      BY DEF Init
<1>2. \A r \in Run : SeqsOnDisk(r) = {}
      BY <1>1 DEF SeqsOnDisk
<1>3. \A r \in Run : HasTop(r)
      BY <1>2 DEF HasTop
<1> QED
    BY <1>3 DEF Init, Types, Stages

\* The types are kept.
LEMMA StepKeepsTypes == IInv /\ Types /\ [Next]_vars => Types'
<1> SUFFICES ASSUME IInv, Types, [Next]_vars PROVE Types'
    OBVIOUS
<1>0. IInv'
      BY StepKeeps
<1>1. \A e \in Engine : stage'[e] # "idle" => stage[e] # "idle" \/ runOf'[e] \in Run
  <2>1. CASE UNCHANGED vars
        BY <2>1 DEF vars
  <2>2. CASE Next
        BY <2>2 DEF Next, Types, Stages, Create, Replay, StartsOn, Go, Open, TryLock, Truncate,
                    Publish, Work, Conclude, Release, Signal, CallRelease, CallRecord, Die,
                    FindNoFile, Probe, Unlock, ReadRecord
  <2> QED
      BY <2>1, <2>2
<1>2. CASE Silent
      BY <1>0, <1>1, <1>2, SameIds DEF Silent, Types, IInv, Shape
<1>3. CASE \E e \in Engine, r \in Run : Create(e, r) \/ Replay(e, r)
  <2>1. PICK e \in Engine, r \in Run : Create(e, r) \/ Replay(e, r)
        BY <1>3
  <2>2. view' \in [Engine -> Seq(Record)]
        BY <2>1 DEF Create, Replay, Replayed, Types
  <2>3. runOf' = [runOf EXCEPT ![e] = r] /\ journal' = journal /\ nextSeq' = nextSeq
        BY <2>1 DEF Create, Replay, StartsOn
  <2> QED
      BY <1>0, <1>1, <2>2, <2>3, SameIds DEF Types, IInv, Shape
<1>4. CASE \E e \in Engine : Open(e)
  <2>1. PICK e \in Engine : Open(e)
        BY <1>4
  <2>2. runOf[e] \in Run
        BY <2>1 DEF Open, Types
  <2>3. nextSeq' \in [Engine -> Nat]
        BY <2>1, <2>2, OpensAboveAll DEF Open, Types
  <2> QED
      BY <1>0, <1>1, <2>1, <2>3, SameIds DEF Open, Types, IInv, Shape
<1>5. ASSUME NEW e \in Engine, NEW w \in What, stage[e] = "working", Append1(e, w),
             UNCHANGED <<runOf, view>>
      PROVE  Types'
  <2>1. PICK r \in Run : runOf[e] = r
        BY <1>5 DEF Types
  <2>2. journal' \in [Run -> Seq(Record)] /\ nextSeq' \in [Engine -> Nat]
        BY <1>5, <2>1, AppendGrows
  <2>3. \A q \in Run : HasTop(q)'
        BY <1>5, <2>1, AppendKeepsTop
  <2> QED
      BY <1>0, <1>1, <1>5, <2>2, <2>3 DEF Types, IInv, Shape
<1> QED
    BY <1>2, <1>3, <1>4, <1>5, StepsThatWrite

-----------------------------------------------------------------------------
(* What an engine acts on.                                                 *)

\* An invocation that has not started has replayed nothing, and a journal with
\* records has had an invocation.
StartsFromNothing ==
  /\ \A e \in Engine : stage[e] = "idle" => view[e] = <<>>
  /\ \A r \in Run : journal[r] # <<>> =>
       \E e \in Engine : stage[e] # "idle" /\ runOf[e] = r

\* While the folder is free, whoever found it free has replayed all there is;
\* the one that then gets the lock has added what was not there.
SeesInv ==
  signalled = {} =>
  /\ \A e \in Starting \ late : lock = None /\ Len(journal[runOf[e]]) = Len(view[e])
  /\ SeesItsWholeRun

\* The event ids of a run increase, and those of its writer are above them.
IdsInv ==
  signalled = {} /\ late = {} =>
  /\ \A r \in Run : \A i, j \in DOMAIN journal[r] :
       i < j => journal[r][i].seq < journal[r][j].seq
  /\ \A e \in AtWork \cup {f \in Engine : stage[f] = "opened"} :
       \A x \in SeqsOnDisk(runOf[e]) : x < nextSeq[e]

ReadInv == IInv /\ Types /\ StartsFromNothing /\ SeesInv /\ IdsInv

\* No journal has been read at the beginning.
LEMMA StartsReading == Init => ReadInv
<1> SUFFICES ASSUME Init PROVE ReadInv
    OBVIOUS
<1>1. IInv /\ Types
      BY StartsFree, StartsTyped
<1>2. AtWork = {} /\ Starting = {} /\ ~ \E f \in Engine : stage[f] = "opened"
      BY DEF Init, AtWork, Starting
<1>3. \A r \in Run : DOMAIN journal[r] = {}
      BY DEF Init
<1>4. StartsFromNothing
      BY DEF Init, StartsFromNothing
<1>5. SeesInv /\ IdsInv
      BY <1>2, <1>3 DEF SeesInv, SeesItsWholeRun, IdsInv
<1> QED
    BY <1>1, <1>4, <1>5 DEF ReadInv

\* The histories only grow, the processes only start by starting, and only the
\* owner of a free lock begins to work.
LEMMA WhoMoves ==
  ASSUME ReadInv, [Next]_vars
  PROVE  /\ signalled \subseteq signalled' /\ late \subseteq late'
         /\ \A e \in Engine : stage'[e] = "idle" => stage[e] = "idle"
         /\ \A e \in Starting' :
              \/ e \in Starting
              \/ \E r \in Run : Create(e, r) \/ Replay(e, r)
         /\ \A e \in Engine :
              stage'[e] = "opened" => stage[e] = "opened" \/ Open(e)
         /\ \A e \in AtWork' :
              e \in AtWork \/ (stage[e] = "opened" /\ lock = None /\ signalled' = signalled
                               /\ Starting' \subseteq late')
         /\ Starting \ late # {} =>
              lock' = None \/ signalled' # {} \/ Starting' \subseteq late'
<1>0. /\ stage \in [Engine -> Stages] /\ lock \in Engine \cup {None}
      /\ signalled = {} => \A e \in AtWork : lock = e
      /\ signalled = {} /\ Starting \ late # {} => lock = None
      BY DEF ReadInv, Types, IInv, HasLock, SeesInv
<1>1. CASE UNCHANGED vars
      BY <1>0, <1>1 DEF vars, Starting, AtWork
<1>2. ASSUME NEW e \in Engine, NEW r \in Run, Create(e, r) \/ Replay(e, r)
      PROVE  /\ signalled' = signalled /\ late \subseteq late' /\ lock' = lock
             /\ stage' = [stage EXCEPT ![e] = "replayed"] /\ stage[e] = "idle"
      BY <1>2 DEF Create, Replay, StartsOn, Go
<1>3. ASSUME NEW e \in Engine, TryLock(e), lock = None /\ shared = {}
      PROVE  /\ signalled' = signalled /\ late' = late \cup (Starting \ {e})
             /\ stage' = [stage EXCEPT ![e] = "locked"] /\ stage[e] = "opened"
      BY <1>3 DEF TryLock, Go
<1>4. ASSUME NEW e \in Engine, TryLock(e), ~(lock = None /\ shared = {})
      PROVE  /\ signalled' = signalled /\ late' = late /\ lock' = lock /\ stage[e] = "opened"
             /\ \E s \in {"refused", "opened"} : stage' = [stage EXCEPT ![e] = s]
      BY <1>4 DEF TryLock, Go
<1>5. ASSUME NEW e \in Engine, Open(e)
      PROVE  /\ signalled' = signalled /\ late' = late /\ lock' = lock /\ stage[e] = "replayed"
             /\ stage' = [stage EXCEPT ![e] = "opened"]
      BY <1>5 DEF Open, Go, history
<1>6. ASSUME NEW e \in Engine, \/ Truncate(e) \/ Publish(e) \/ Release(e) \/ Die(e)
                               \/ \E w \in {"run_completed", "run_failed"} : Conclude(e, w)
      PROVE  /\ signalled' = signalled /\ late' = late
             /\ lock' \in {lock, None}
             /\ \/ /\ \E s \in {"truncated", "working", "ending"} :
                        stage' = [stage EXCEPT ![e] = s]
                   /\ e \in AtWork
                \/ stage' = [stage EXCEPT ![e] = "over"] /\ stage[e] # "idle"
      BY <1>0, <1>6 DEF Truncate, Publish, Release, Die, Conclude, Go, history, Released,
                        LockAfterWrite, AtWork
<1>7. ASSUME NEW e \in Engine, \/ Signal(e) \/ CallRelease(e) \/ CallRecord(e)
                               \/ \E f \in Fact : Work(e, f)
      PROVE  /\ signalled \subseteq signalled' /\ late' = late
             /\ lock' \in {lock, None} /\ stage' = stage
      BY <1>0, <1>7 DEF Signal, CallRelease, CallRecord, Work, history, Released
<1>8. ASSUME NEW a \in Asker, FindNoFile(a) \/ Probe(a) \/ Unlock(a) \/ ReadRecord(a)
      PROVE  signalled' = signalled /\ late' = late /\ lock' = lock /\ stage' = stage
      BY <1>8 DEF FindNoFile, Probe, Unlock, ReadRecord, history
<1>9. ASSUME NEW e \in Engine, NEW r \in Run, Create(e, r) \/ Replay(e, r)
      PROVE  Starting \ late # {} => lock' = None \/ signalled' # {}
      BY <1>0, <1>2, <1>9
<1> QED
  <2>1. CASE \E e \in Engine, r \in Run : Create(e, r) \/ Replay(e, r)
        BY <1>0, <1>2, <1>9, <2>1 DEF Starting, AtWork, Stages
  <2>2. CASE \E e \in Engine : TryLock(e)
        BY <1>0, <1>3, <1>4, <2>2 DEF Starting, AtWork, Stages
  <2>3. CASE \E e \in Engine : Open(e)
        BY <1>0, <1>5, <2>3 DEF Starting, AtWork, Stages
  <2>4. CASE \E e \in Engine : \/ Truncate(e) \/ Publish(e) \/ Release(e) \/ Die(e)
                               \/ \E w \in {"run_completed", "run_failed"} : Conclude(e, w)
        BY <1>0, <1>6, <2>4 DEF Starting, AtWork, Stages
  <2>5. CASE \E e \in Engine : \/ Signal(e) \/ CallRelease(e) \/ CallRecord(e)
                               \/ \E f \in Fact : Work(e, f)
        BY <1>0, <1>7, <2>5 DEF Starting, AtWork, Stages
  <2>6. CASE \E a \in Asker : FindNoFile(a) \/ Probe(a) \/ Unlock(a) \/ ReadRecord(a)
        BY <1>0, <1>8, <2>6 DEF Starting, AtWork, Stages
  <2> QED
      BY <1>1, <2>1, <2>2, <2>3, <2>4, <2>5, <2>6 DEF Next, Starting, AtWork

\* A step starts an engine before it replays or records anything.
LEMMA StepKeepsStarts == ReadInv /\ [Next]_vars => StartsFromNothing'
<1> SUFFICES ASSUME ReadInv, [Next]_vars PROVE StartsFromNothing'
    OBVIOUS
<1>0. /\ StartsFromNothing /\ Types
      /\ \A e \in Engine : stage'[e] = "idle" => stage[e] = "idle"
      BY WhoMoves DEF ReadInv
<1>1. CASE Silent
      BY <1>0, <1>1 DEF Silent, StartsFromNothing
<1>2. ASSUME NEW e \in Engine, NEW r \in Run, Create(e, r) \/ Replay(e, r)
      PROVE  StartsFromNothing'
  <2>1. /\ journal' = journal /\ runOf' = [runOf EXCEPT ![e] = r]
        /\ stage[e] = "idle" /\ stage' = [stage EXCEPT ![e] = "replayed"]
        /\ \A f \in Engine \ {e} : view'[f] = view[f]
        BY <1>0, <1>2 DEF Create, Replay, StartsOn, Go, Types
  <2> QED
      BY <1>0, <2>1 DEF StartsFromNothing, Types
<1>3. ASSUME NEW e \in Engine, Open(e)
      PROVE  StartsFromNothing'
      BY <1>0, <1>3 DEF Open, StartsFromNothing
<1>4. ASSUME NEW e \in Engine, NEW w \in What, stage[e] = "working", Append1(e, w),
             UNCHANGED <<runOf, view>>
      PROVE  StartsFromNothing'
  <2>1. PICK r \in Run : runOf[e] = r
        BY <1>0, <1>4 DEF Types
  <2>2. \A q \in Run \ {r} : journal'[q] = journal[q]
        BY <1>0, <1>4, <2>1, AppendGrows
  <2> QED
      BY <1>0, <1>4, <2>1, <2>2 DEF StartsFromNothing
<1> QED
    BY <1>1, <1>2, <1>3, <1>4, StepsThatWrite

\* Who found the folder free has seen all there is until another one gets the
\* lock; who has the lock is the only one that adds to it.
LEMMA StepKeepsSees == ReadInv /\ [Next]_vars => SeesInv'
<1> SUFFICES ASSUME ReadInv, [Next]_vars, signalled' = {}
             PROVE  /\ \A e \in Starting' \ late' :
                         lock' = None /\ Len(journal'[runOf'[e]]) = Len(view'[e])
                    /\ \A e \in AtWork' \ late' : \A i \in DOMAIN journal'[runOf'[e]] :
                         i > Len(view'[e]) => journal'[runOf'[e]][i].by = e
    BY DEF SeesInv, SeesItsWholeRun, Undisturbed
<1>a. signalled = {} /\ late \subseteq late' /\ Types /\ Types'
      BY WhoMoves, StepKeepsTypes DEF ReadInv
<1>b. /\ \A e \in Starting \ late :
           lock = None /\ Len(journal[runOf[e]]) = Len(view[e])
      /\ \A e \in AtWork \ late : \A i \in DOMAIN journal[runOf[e]] :
           i > Len(view[e]) => journal[runOf[e]][i].by = e
      /\ \A e \in AtWork : lock = e
      BY <1>a DEF ReadInv, IInv, HasLock, SeesInv, SeesItsWholeRun, Undisturbed
<1>c. /\ \A e \in AtWork' : e \in AtWork \/ (e \in Starting /\ Starting' \subseteq late')
      /\ Starting \ late # {} => lock' = None \/ Starting' \subseteq late'
      /\ Starting \subseteq Engine /\ AtWork \subseteq Engine
      BY WhoMoves DEF Starting, AtWork
<1>0. /\ signalled = {} /\ late \subseteq late' /\ Types /\ Types'
      /\ \A e \in Starting \ late :
           lock = None /\ Len(journal[runOf[e]]) = Len(view[e])
      /\ \A e \in AtWork \ late : \A i \in DOMAIN journal[runOf[e]] :
           i > Len(view[e]) => journal[runOf[e]][i].by = e
      /\ \A e \in AtWork : lock = e
      /\ \A e \in AtWork' : e \in AtWork \/ (e \in Starting /\ Starting' \subseteq late')
      /\ Starting \ late # {} => lock' = None \/ Starting' \subseteq late'
      /\ Starting \subseteq Engine /\ AtWork \subseteq Engine
      BY <1>a, <1>b, <1>c
<1>t. \A e \in AtWork \cup Starting : runOf[e] \in Run /\ journal[runOf[e]] \in Seq(Record)
      BY <1>0 DEF Types, AtWork, Starting
<1>1. CASE Silent /\ ~ \E e \in Engine, r \in Run : Create(e, r) \/ Replay(e, r)
  <2>0. Starting' \subseteq Engine
        BY DEF Starting
  <2>1. \A e \in Starting' : e \in Starting
        BY <1>1, <2>0, WhoMoves
  <2>2. UNCHANGED <<journal, runOf, view>>
        BY <1>1 DEF Silent
  <2> QED
      BY <1>0, <2>1, <2>2
<1>2. ASSUME NEW e \in Engine, NEW r \in Run, Create(e, r) \/ Replay(e, r)
      PROVE  /\ \A f \in Starting' \ late' :
                  lock' = None /\ Len(journal'[runOf'[f]]) = Len(view'[f])
             /\ \A f \in AtWork' \ late' : \A i \in DOMAIN journal'[runOf'[f]] :
                  i > Len(view'[f]) => journal'[runOf'[f]][i].by = f
  <2>1. /\ journal' = journal /\ runOf' = [runOf EXCEPT ![e] = r] /\ lock' = lock
        /\ stage' = [stage EXCEPT ![e] = "replayed"] /\ stage[e] = "idle"
        /\ \A f \in Engine \ {e} : view'[f] = view[f] /\ runOf'[f] = runOf[f]
        /\ late' = IF lock # None THEN late \cup {e} ELSE late
        BY <1>0, <1>2 DEF Create, Replay, StartsOn, Go, Types
  <2>2. Len(journal[r]) = Len(view'[e]) /\ runOf'[e] = r
    <3>1. CASE Create(e, r)
          BY <1>0, <2>1, <3>1 DEF Create, ReadInv, StartsFromNothing, Types
    <3>2. CASE Replay(e, r)
          BY <1>0, <2>1, <3>2 DEF Replay, Replayed, Types
    <3> QED
        BY <1>2, <3>1, <3>2
  <2>3. /\ Starting' = Starting \cup {e} /\ AtWork' = AtWork
        /\ e \notin AtWork
        BY <1>0, <2>1 DEF Starting, AtWork, Types
  <2>4. e \in late' \/ lock' = None
        BY <2>1
  <2> QED
      BY <1>0, <2>1, <2>2, <2>3, <2>4
<1>3. ASSUME NEW e \in Engine, Open(e)
      PROVE  /\ \A f \in Starting' \ late' :
                  lock' = None /\ Len(journal'[runOf'[f]]) = Len(view'[f])
             /\ \A f \in AtWork' \ late' : \A i \in DOMAIN journal'[runOf'[f]] :
                  i > Len(view'[f]) => journal'[runOf'[f]][i].by = f
  <2>1. UNCHANGED <<journal, runOf, view, lock>> /\ stage' = [stage EXCEPT ![e] = "opened"]
        /\ stage[e] = "replayed"
        BY <1>3 DEF Open, Go
  <2>2. Starting' = Starting /\ AtWork' = AtWork
        BY <1>0, <2>1 DEF Starting, AtWork, Types
  <2> QED
      BY <1>0, <2>1, <2>2
<1>4. ASSUME NEW e \in Engine, NEW w \in What, stage[e] = "working", Append1(e, w),
             stage' = stage \/ Go(e, "ending"), UNCHANGED <<lock, runOf, view>>
      PROVE  /\ \A f \in Starting' \ late' :
                  lock' = None /\ Len(journal'[runOf'[f]]) = Len(view'[f])
             /\ \A f \in AtWork' \ late' : \A i \in DOMAIN journal'[runOf'[f]] :
                  i > Len(view'[f]) => journal'[runOf'[f]][i].by = f
  <2>1. PICK r \in Run : runOf[e] = r
        BY <1>0, <1>4 DEF Types
  <2>2. /\ Len(journal'[r]) = Len(journal[r]) + 1 /\ journal'[r] \in Seq(Record)
        /\ \A i \in 1 .. Len(journal[r]) : journal'[r][i] = journal[r][i]
        /\ journal'[r][Len(journal[r]) + 1].by = e
        BY <1>0, <1>4, <2>1, AppendGrows
  <2>3. Starting' = Starting /\ AtWork' = AtWork
        BY <1>0, <1>4 DEF Starting, AtWork, Types, Go
  <2>4. lock = e /\ e \in AtWork /\ AtWork = {e}
        BY <1>0, <1>4 DEF AtWork
  <2>5. Starting \ late = {}
        BY <1>0, <2>4, NoneAssumption
  <2>6. \A i \in DOMAIN journal'[r] : i \in DOMAIN journal[r] \/ i = Len(journal[r]) + 1
        BY <1>t, <2>1, <2>2, <2>4
  <2>7. \A i \in DOMAIN journal[r] : journal'[r][i] = journal[r][i]
        BY <1>t, <2>1, <2>2, <2>4
  <2>8. e \notin late' => e \notin late
        BY <1>0
  <2> QED
      BY <1>0, <1>4, <2>1, <2>2, <2>3, <2>4, <2>5, <2>6, <2>7, <2>8
<1> QED
    BY <1>1, <1>2, <1>3, <1>4, StepsThatWrite

\* Only the owner writes, and under an id above all there are.
LEMMA StepKeepsIds == ReadInv /\ [Next]_vars => IdsInv'
<1> DEFINE Writers  == AtWork \cup {f \in Engine : stage[f] = "opened"}
           Increase == \A r \in Run : \A i, j \in DOMAIN journal[r] :
                          i < j => journal[r][i].seq < journal[r][j].seq
<1> SUFFICES ASSUME ReadInv, [Next]_vars, signalled' = {}, late' = {}
             PROVE  /\ Increase'
                    /\ \A e \in Writers' : \A x \in SeqsOnDisk(runOf[e])' : x < nextSeq'[e]
    BY DEF IdsInv
<1>a. signalled = {} /\ late = {} /\ Types /\ Types'
      BY WhoMoves, StepKeepsTypes DEF ReadInv
<1>b. Increase /\ \A e \in Writers : \A x \in SeqsOnDisk(runOf[e]) : x < nextSeq[e]
      BY <1>a DEF ReadInv, IdsInv
<1>c. \A e \in Writers' : e \in Writers \/ Open(e)
  <2>1. Writers' = AtWork' \cup {f \in Engine : stage'[f] = "opened"}
        OBVIOUS
  <2>2. AtWork' \subseteq Engine
        BY DEF AtWork
  <2> QED
      BY <2>1, <2>2, WhoMoves
<1>d. (\A e \in AtWork : lock = e) /\ \A e \in Starting : lock = None
      BY <1>a DEF ReadInv, IInv, HasLock, SeesInv
<1>0. /\ signalled = {} /\ late = {} /\ Types /\ Types' /\ Increase
      /\ \A e \in Writers : \A x \in SeqsOnDisk(runOf[e]) : x < nextSeq[e]
      /\ \A e \in Writers' : e \in Writers \/ Open(e)
      /\ \A e \in AtWork : lock = e
      /\ \A e \in Starting : lock = None
      BY <1>a, <1>b, <1>c, <1>d
<1>t. \A e \in Writers : runOf[e] \in Run /\ journal[runOf[e]] \in Seq(Record)
      BY <1>0 DEF Types, AtWork
<1>1. CASE Silent /\ ~ \E e \in Engine : Open(e)
  <2>3. \A e \in Engine : SeqsOnDisk(runOf[e])' = SeqsOnDisk(runOf[e])
        BY <1>1 DEF Silent, SeqsOnDisk
  <2>4. Writers' \subseteq Engine /\ nextSeq' = nextSeq /\ journal' = journal
        BY <1>1 DEF Silent, AtWork
  <2> QED
      BY <1>0, <1>1, <2>3, <2>4
<1>2. ASSUME NEW e \in Engine, NEW r \in Run, Create(e, r) \/ Replay(e, r)
      PROVE  /\ Increase'
             /\ \A f \in Writers' : \A x \in SeqsOnDisk(runOf[f])' : x < nextSeq'[f]
  <2>1. /\ journal' = journal /\ nextSeq' = nextSeq
        /\ stage' = [stage EXCEPT ![e] = "replayed"] /\ stage[e] = "idle"
        /\ \A f \in Engine \ {e} : runOf'[f] = runOf[f]
        BY <1>0, <1>2 DEF Create, Replay, StartsOn, Go, Types
  <2>2. Writers' = Writers /\ e \notin Writers
        BY <1>0, <2>1 DEF AtWork, Types
  <2>3. \A f \in Writers : SeqsOnDisk(runOf[f])' = SeqsOnDisk(runOf[f])
        BY <2>1, <2>2 DEF SeqsOnDisk, AtWork
  <2> QED
      BY <1>0, <2>1, <2>2, <2>3
<1>3. ASSUME NEW e \in Engine, Open(e)
      PROVE  /\ Increase'
             /\ \A f \in Writers' : \A x \in SeqsOnDisk(runOf[f])' : x < nextSeq'[f]
  <2>1. /\ UNCHANGED <<journal, runOf>> /\ stage' = [stage EXCEPT ![e] = "opened"]
        /\ nextSeq' = [nextSeq EXCEPT ![e] = NextSeqOnDisk(runOf[e])]
        /\ stage[e] = "replayed" /\ runOf[e] \in Run
        BY <1>0, <1>3 DEF Open, Go, Types
  <2>2. Writers' = Writers \cup {e}
        BY <1>0, <2>1 DEF AtWork, Types
  <2>3. \A f \in Engine : SeqsOnDisk(runOf[f])' = SeqsOnDisk(runOf[f])
        BY <2>1 DEF SeqsOnDisk
  <2>4. \A x \in SeqsOnDisk(runOf[e]) : x < nextSeq'[e]
        BY <1>0, <2>1, OpensAboveAll DEF Types
  <2>5. \A f \in Writers \ {e} : nextSeq'[f] = nextSeq[f] /\ f \in Engine
        BY <1>0, <2>1 DEF Types, AtWork
  <2> QED
      BY <1>0, <2>1, <2>2, <2>3, <2>4, <2>5
<1>4. ASSUME NEW e \in Engine, NEW w \in What, stage[e] = "working", Append1(e, w),
             stage' = stage \/ Go(e, "ending"), UNCHANGED <<lock, runOf, view>>
      PROVE  /\ Increase'
             /\ \A f \in Writers' : \A x \in SeqsOnDisk(runOf[f])' : x < nextSeq'[f]
  <2>1. PICK r \in Run : runOf[e] = r
        BY <1>0, <1>4 DEF Types
  <2>2. /\ Len(journal'[r]) = Len(journal[r]) + 1 /\ journal'[r] \in Seq(Record)
        /\ \A i \in 1 .. Len(journal[r]) : journal'[r][i] = journal[r][i]
        /\ journal'[r][Len(journal[r]) + 1].seq = nextSeq[e]
        /\ SeqsOnDisk(r)' = SeqsOnDisk(r) \cup {nextSeq[e]}
        /\ nextSeq'[e] = nextSeq[e] + 1
        /\ \A q \in Run \ {r} : journal'[q] = journal[q]
        BY <1>0, <1>4, <2>1, AppendGrows
  <2>3. lock = e /\ e \in AtWork /\ AtWork = {e} /\ Starting = {}
        BY <1>0, <1>4, NoneAssumption DEF AtWork
  <2>4. Writers = {e} /\ Writers' = {e}
        BY <1>0, <1>4, <2>3 DEF Starting, AtWork, Types, Go
  <2>5. \A x \in SeqsOnDisk(r) : x < nextSeq[e]
        BY <1>0, <2>1, <2>4
  <2>6. \A i \in DOMAIN journal[r] : journal[r][i].seq < nextSeq[e] /\ journal[r][i].seq \in Nat
    <3>1. \A i \in DOMAIN journal[r] : journal[r][i] \in Record
          BY <1>0 DEF Types
    <3> QED
        BY <2>5, <3>1 DEF SeqsOnDisk, Record
  <2>7. Increase'
    <3>1. DOMAIN journal'[r] = 1 .. Len(journal[r]) + 1 /\ Len(journal[r]) \in Nat
          /\ DOMAIN journal[r] = 1 .. Len(journal[r])
          BY <1>t, <2>1, <2>2, <2>4
    <3>2. \A i, j \in DOMAIN journal'[r] : i < j => journal'[r][i].seq < journal'[r][j].seq
      <4> SUFFICES ASSUME NEW i \in DOMAIN journal'[r], NEW j \in DOMAIN journal'[r], i < j
                   PROVE  journal'[r][i].seq < journal'[r][j].seq
          OBVIOUS
      <4>1. i \in 1 .. Len(journal[r]) /\ journal'[r][i] = journal[r][i]
            BY <2>2, <3>1
      <4>2. CASE j \in 1 .. Len(journal[r])
        <5>1. journal'[r][j] = journal[r][j]
              BY <2>2, <4>2
        <5> QED
            BY <1>0, <3>1, <4>1, <4>2, <5>1
      <4>3. CASE j = Len(journal[r]) + 1
        <5>1. journal[r][i].seq < nextSeq[e]
              BY <2>6, <3>1, <4>1
        <5> QED
            BY <2>2, <4>1, <4>3, <5>1
      <4> QED
          BY <3>1, <4>2, <4>3
    <3> QED
        BY <1>0, <2>2, <3>2
  <2>8. \A x \in SeqsOnDisk(r)' : x < nextSeq'[e]
    <3>1. \A x \in SeqsOnDisk(r) : x \in Nat
          BY <2>6 DEF SeqsOnDisk
    <3>2. nextSeq[e] \in Nat
          BY <1>0 DEF Types
    <3> QED
        BY <2>2, <2>5, <3>1, <3>2
  <2>9. SeqsOnDisk(runOf[e])' = SeqsOnDisk(r)'
        BY <1>4, <2>1 DEF SeqsOnDisk
  <2> QED
      BY <2>4, <2>7, <2>8, <2>9
<1> QED
    BY <1>1, <1>2, <1>3, <1>4, StepsThatWrite

\* An engine that starts in a free folder, and that no shutdown disturbs, acts
\* on its whole journal, and its records are read by the next one: of any number
\* of engines, runs and records (run, replayRunJournal, RunJournalWriter.open).
THEOREM OwnerSeesItsRun == Spec => []ActsOnWholeRun
<1>1. ReadInv /\ [Next]_vars => ReadInv'
      BY StepKeeps, StepKeepsTypes, StepKeepsStarts, StepKeepsSees, StepKeepsIds DEF ReadInv
<1>2. ReadInv => ActsOnWholeRun
  <2> SUFFICES ASSUME ReadInv, Undisturbed PROVE SeesItsWholeRun /\ NoRecordIsIgnored
      BY DEF ActsOnWholeRun, SeesItsWholeRun, NoRecordIsIgnored
  <2>1. SeesItsWholeRun
        BY DEF ReadInv, SeesInv, Undisturbed
  <2>2. ASSUME late = {}, NEW r \in Run, NEW i \in DOMAIN journal[r],
               NEW j \in DOMAIN journal[r], journal[r][i].seq = journal[r][j].seq
        PROVE  i = j
    <3>1. /\ i < j => journal[r][i].seq < journal[r][j].seq
          /\ j < i => journal[r][j].seq < journal[r][i].seq
          BY <2>2 DEF ReadInv, IdsInv, Undisturbed
    <3>2. i \in Nat /\ j \in Nat /\ journal[r][i] \in Record /\ journal[r][j] \in Record
          BY DEF ReadInv, Types
    <3> QED
        BY <2>2, <3>1, <3>2 DEF Record
  <2> QED
      BY <2>1, <2>2 DEF NoRecordIsIgnored
<1> QED
    BY StartsReading, <1>1, <1>2, PTL DEF Spec

-----------------------------------------------------------------------------
(* Why an engine gives up.                                                 *)

Left == {a \in Asker : asker[a] = "free"}

\* The probes that can have kept an engine from the lock: each one only once,
\* for the engine asks again when those of its last attempt are gone.
Spent(e) == Left \cup (blockers[e] \cap shared)

TriesInv ==
  /\ shared = {a \in Asker : asker[a] = "sharing"}
  /\ asker \in [Asker -> {"idle", "sharing", "refused", "free", "named", "unread"}]
  /\ stage \in [Engine -> Stages]
  /\ tries \in [Engine -> Nat]
  /\ blockers \in [Engine -> SUBSET Asker]
  /\ \A e \in Engine :
       /\ stage[e] = "refused" => tries[e] = AcquireAttempts
       /\ e \notin met => tries[e] <= Cardinality(Spent(e))

\* Of finite sets, a larger one has at least as many members, and one more if
\* it has another one.
LEMMA MoreProbes ==
  ASSUME IsFiniteSet(Asker), NEW S, NEW T \in SUBSET Asker, S \subseteq T
  PROVE  /\ Cardinality(S) \in Nat /\ Cardinality(T) \in Nat
         /\ Cardinality(S) <= Cardinality(T)
         /\ S # T => Cardinality(S) + 1 <= Cardinality(T)
<1>1. IsFiniteSet(T) /\ IsFiniteSet(S)
      BY FS_Subset
<1>2. Cardinality(S) \in Nat /\ Cardinality(T) \in Nat
      BY <1>1, FS_CardinalityType
<1>3. Cardinality(S) <= Cardinality(T) /\ (Cardinality(S) = Cardinality(T) => S = T)
      BY <1>1, FS_Subset
<1> QED
    BY <1>2, <1>3

\* Nobody has tried at the beginning.
LEMMA StartsUntried ==
  ASSUME IsFiniteSet(Asker)
  PROVE  Init => TriesInv
<1> SUFFICES ASSUME Init PROVE TriesInv
    OBVIOUS
<1>1. \A e \in Engine : Spent(e) \in SUBSET Asker
      BY DEF Init, Spent, Left
<1>2. \A e \in Engine : Cardinality(Spent(e)) \in Nat
      BY <1>1, MoreProbes
<1> QED
    BY <1>2 DEF Init, TriesInv, Stages

\* An attempt that no engine refuses is paid for by a probe of its own.
LEMMA StepKeepsTries ==
  ASSUME IsFiniteSet(Asker)
  PROVE  TriesInv /\ [Next]_vars => TriesInv'
<1> SUFFICES ASSUME TriesInv, [Next]_vars PROVE TriesInv'
    OBVIOUS
<1>s. /\ \A e \in Engine : Spent(e) \in SUBSET Asker
      /\ shared \subseteq Asker /\ Left \subseteq Asker
      BY DEF TriesInv, Spent, Left
<1>1. ASSUME UNCHANGED <<shared, asker, tries, blockers>>, met \subseteq met',
             \E e \in Engine : \E s \in Stages \ {"refused"} :
                stage' = stage \/ stage' = [stage EXCEPT ![e] = s]
      PROVE  TriesInv'
  <2>1. \A e \in Engine : Spent(e)' = Spent(e)
        BY <1>1 DEF Spent, Left
  <2> QED
      BY <1>1, <2>1 DEF TriesInv
<1>2. CASE UNCHANGED vars
  <2>1. \A e \in Engine : Spent(e)' = Spent(e)
        BY <1>2 DEF Spent, Left, vars
  <2> QED
      BY <1>2, <2>1 DEF TriesInv, vars
<1>3. ASSUME NEW e \in Engine, TryLock(e) PROVE TriesInv'
  <2>0. UNCHANGED <<shared, asker>> /\ stage[e] = "opened" /\ blockers[e] \cap shared = {}
        BY <1>3 DEF TryLock, probes
  <2>1. CASE lock = None /\ shared = {}
    <3>1. /\ tries' = [tries EXCEPT ![e] = 0] /\ blockers' = [blockers EXCEPT ![e] = {}]
          /\ stage' = [stage EXCEPT ![e] = "locked"] /\ met' = met \ {e}
          BY <1>3, <2>1 DEF TryLock, Go
    <3>2. \A f \in Engine \ {e} : Spent(f)' = Spent(f)
          BY <2>0, <3>1 DEF Spent, Left, TriesInv
    <3>3. Spent(e)' \in SUBSET Asker
          BY <1>s, <2>0, <3>1 DEF Spent, Left, TriesInv
    <3>4. Cardinality(Spent(e)') \in Nat
          BY <3>3, MoreProbes
    <3> QED
        BY <2>0, <3>1, <3>2, <3>4 DEF TriesInv, Stages
  <2>2. CASE ~(lock = None /\ shared = {})
    <3>1. /\ tries' = [tries EXCEPT ![e] = @ + 1]
          /\ blockers' = [blockers EXCEPT ![e] = shared]
          /\ stage' = [stage EXCEPT ![e] =
                         IF tries'[e] = AcquireAttempts THEN "refused" ELSE "opened"]
          /\ met' = IF lock # None THEN met \cup {e} ELSE met
          BY <1>3, <2>2 DEF TryLock, Go
    <3>2. \A f \in Engine \ {e} : Spent(f)' = Spent(f)
          BY <2>0, <3>1 DEF Spent, Left, TriesInv
    <3>3. e \notin met' => tries'[e] <= Cardinality(Spent(e)')
      <4> SUFFICES ASSUME e \notin met' PROVE tries'[e] <= Cardinality(Spent(e)')
          OBVIOUS
      <4>1. lock = None /\ shared # {} /\ e \notin met
            BY <2>2, <3>1
      <4>2. Spent(e) = Left /\ Spent(e)' = Left \cup shared
            BY <2>0, <3>1 DEF Spent, Left, TriesInv
      <4>3. Left # Left \cup shared
            BY <4>1 DEF Left, TriesInv
      <4>4. tries[e] <= Cardinality(Left) /\ tries'[e] = tries[e] + 1 /\ tries[e] \in Nat
            BY <3>1, <4>1, <4>2 DEF TriesInv
      <4>5. /\ Cardinality(Left) + 1 <= Cardinality(Left \cup shared)
            /\ Cardinality(Left) \in Nat /\ Cardinality(Left \cup shared) \in Nat
            BY <1>s, <4>3, MoreProbes
      <4> QED
          BY <4>2, <4>4, <4>5
    <3>4. tries' \in [Engine -> Nat] /\ blockers' \in [Engine -> SUBSET Asker]
          BY <1>s, <3>1 DEF TriesInv
    <3>5. \A f \in Engine \ {e} : f \notin met' => f \notin met
          BY <3>1
    <3>6. \A f \in Engine : stage'[f] = "refused" => tries'[f] = AcquireAttempts
          BY <3>1 DEF TriesInv
    <3>7. stage' \in [Engine -> Stages]
          BY <3>1 DEF TriesInv, Stages
    <3>8. \A f \in Engine : f \notin met' => tries'[f] <= Cardinality(Spent(f)')
          BY <3>1, <3>2, <3>3, <3>5 DEF TriesInv
    <3> QED
        BY <2>0, <3>4, <3>6, <3>7, <3>8 DEF TriesInv
  <2> QED
      BY <2>1, <2>2
<1>4. ASSUME NEW a \in Asker, FindNoFile(a) \/ Probe(a) \/ Unlock(a) \/ ReadRecord(a)
      PROVE  TriesInv'
  <2>1. UNCHANGED <<stage, tries, blockers, met>>
        BY <1>4 DEF FindNoFile, Probe, Unlock, ReadRecord, attempts, history
  <2>2. /\ asker' \in [Asker -> {"idle", "sharing", "refused", "free", "named", "unread"}]
        /\ shared' = {b \in Asker : asker'[b] = "sharing"}
        BY <1>4 DEF FindNoFile, Probe, Unlock, ReadRecord, TriesInv
  <2>3. Left \subseteq Left' /\ \A b \in shared : b \in shared' \/ b \in Left'
        BY <1>4 DEF FindNoFile, Probe, Unlock, ReadRecord, TriesInv, Left
  <2>4. \A e \in Engine : Spent(e) \subseteq Spent(e)' /\ Spent(e)' \in SUBSET Asker
    <3>1. Left' \subseteq Asker /\ shared' \subseteq Asker
          BY <2>2 DEF Left
    <3> QED
        BY <2>1, <2>3, <3>1 DEF Spent
  <2>5. \A e \in Engine : /\ Cardinality(Spent(e)) <= Cardinality(Spent(e)')
                          /\ Cardinality(Spent(e)) \in Nat /\ Cardinality(Spent(e)') \in Nat
        BY <2>4, MoreProbes
  <2> QED
      BY <2>1, <2>2, <2>5 DEF TriesInv
<1>5. CASE \E e \in Engine : \/ \E r \in Run : Create(e, r) \/ Replay(e, r)
                             \/ Open(e) \/ Truncate(e) \/ Publish(e) \/ Release(e) \/ Die(e)
                             \/ \E w \in {"run_completed", "run_failed"} : Conclude(e, w)
  <2>1. UNCHANGED <<shared, asker, tries, blockers, met>>
        BY <1>5 DEF Create, Replay, StartsOn, Open, Truncate, Publish, Conclude, Release, Die,
                    attempts, probes, history
  <2>2. \E e \in Engine : \E s \in Stages \ {"refused"} : stage' = [stage EXCEPT ![e] = s]
        BY <1>5 DEF Create, Replay, StartsOn, Open, Truncate, Publish, Conclude, Release, Die,
                    Go, Stages
  <2> QED
      BY <1>1, <2>1, <2>2
<1>6. CASE \E e \in Engine : \/ Signal(e) \/ CallRelease(e) \/ CallRecord(e)
                             \/ \E f \in Fact : Work(e, f)
  <2>1. UNCHANGED <<shared, asker, tries, blockers, met, stage>>
        BY <1>6 DEF Signal, CallRelease, CallRecord, Work, attempts, probes, history
  <2>2. "idle" \in Stages \ {"refused"}
        BY DEF Stages
  <2> QED
      BY <1>1, <1>6, <2>1, <2>2
<1> QED
    BY <1>2, <1>3, <1>4, <1>5, <1>6 DEF Next

\* Fewer probes than attempts never make an engine give up: it does so only for
\* another engine (lock.ts, ACQUIRE_ATTEMPTS), however they interleave.
THEOREM OnlyARunRefuses ==
  ASSUME IsFiniteSet(Asker), Cardinality(Asker) < AcquireAttempts
  PROVE  Spec => []RefusedByARun
<1>1. Init => TriesInv
      BY StartsUntried
<1>2. TriesInv /\ [Next]_vars => TriesInv'
      BY StepKeepsTries
<1>3. TriesInv => RefusedByARun
  <2> SUFFICES ASSUME TriesInv, NEW e \in Engine, stage[e] = "refused", e \notin met
               PROVE  FALSE
      BY DEF RefusedByARun
  <2>1. tries[e] = AcquireAttempts /\ tries[e] <= Cardinality(Spent(e))
        BY DEF TriesInv
  <2>2. Spent(e) \subseteq Asker
        BY DEF Spent, Left, TriesInv
  <2>3. Cardinality(Spent(e)) <= Cardinality(Asker) /\ Cardinality(Spent(e)) \in Nat
        /\ Cardinality(Asker) \in Nat
        BY <2>2, MoreProbes
  <2> QED
      BY <2>1, <2>3 DEF AcquireAttempts
<1> QED
    BY <1>1, <1>2, <1>3, PTL DEF Spec

=============================================================================
