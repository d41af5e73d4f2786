------------------------- MODULE AgentServiceProofs -------------------------
(***************************************************************************)
(* Proofs about what an engine owes to those outside it: to the human that *)
(* a node asks (AgentNode), and to those who start, signal and cancel runs *)
(* (Service with Scaffold).  For any number of writers, starts, questions, *)
(* answers and continuations, a question is delivered and answered once,   *)
(* its answer is the recorded one and reaches the session that asked, and  *)
(* work that no human has seen is checked.  For any processes, jobs and    *)
(* runs, a success that is announced stands, a shutdown leaves a verdict   *)
(* on the runs it cuts short, and `init` keeps a user's files.             *)
(***************************************************************************)
EXTENDS AgentNode, Service, FiniteSetTheorems, TLAPS

\* Where the engine is while a human is asked.
Asking == {"ask", "poll", "probe", "record", "resume", "reply"}

\* How the record of the node and the place of the engine go together.
Phase ==
  /\ kind = "hitl" => node.status # "waiting" /\ pc \in {"down"} \cup (Asking \ {"resume", "reply"})
  /\ node.status = "completed" => pc = "down"
  /\ node.status = "waiting" =>
       /\ node.question \in 1 .. raised
       /\ pc = "down" \/ (pc \in Asking /\ work.asking = node.question)
  /\ pc \in {"turn", "check", "finish"} => work.heard = 0
  /\ pc = "gate" => work.heard <= raised
  /\ pc \in Asking => work.human /\ work.asking \in 1 .. raised

\* A question that has not been raised is nowhere.
Unraised == \A q \in Question : q > raised => asked[q] = 0 /\ answered[q] = 0

\* A question that may still be delivered has not been, and one that may still
\* be answered has been only in turns that were cut short.
Once ==
  /\ \A q \in Question : asked[q] <= 1 /\ answered[q] <= 1 + cut[q]
  /\ pc = "ask" => asked[work.asking] = 0
  /\ pc = "gate" /\ work.heard # 0 =>
       asked[work.heard] = 0 /\ answered[work.heard] <= cut[work.heard]
  /\ pc \in Asking \ {"reply"} => answered[work.asking] <= cut[work.asking]
  /\ node.status = "waiting" /\ pc # "reply" => answered[node.question] <= cut[node.question]

OnceInv == TypeOK /\ Phase /\ Unraised /\ Once

-----------------------------------------------------------------------------
(* Types.                                                                  *)

\* A run begins with nothing raised.
LEMMA InitOnce == Init => OnceInv
<1> SUFFICES ASSUME Init PROVE OnceInv
    OBVIOUS
<1> USE BoundsAssumption
<1>1. Idle \in Work
      BY DEF Idle, Work
<1>2. node \in [status : Statuses, session : 0 .. MaxStarts, question : 0 .. MaxQuestions]
      /\ sent \in [to : 0 .. MaxStarts, of : 0 .. MaxQuestions, text : 0 .. MaxQuestions,
                   local : BOOLEAN]
      BY DEF Init, Statuses
<1>3. TypeOK
  <2>1. /\ asked \in [Question -> Nat] /\ audit \in [Question -> Nat]
        /\ answered \in [Question -> Nat] /\ cut \in [Question -> Nat]
        /\ asker \in [Question -> 0 .. MaxStarts]
        /\ writer \in [Writer -> 0 .. MaxQuestions]
        BY DEF Init
  <2>2. /\ kind \in {"agent", "hitl"} /\ rules \in BOOLEAN /\ hitl \in BOOLEAN
        /\ strayed \in BOOLEAN
        BY DEF Init
  <2>3. /\ pc \in PCs /\ work \in Work
        /\ starts \in 0 .. MaxStarts /\ raised \in 0 .. MaxQuestions
        /\ inbox \in 0 .. MaxQuestions /\ remote \in 0 .. MaxQuestions
        /\ accepted \in 0 .. MaxAnswers
        BY <1>1 DEF Init, PCs
  <2> QED
      BY <1>2, <2>1, <2>2, <2>3 DEF TypeOK
<1>4. Phase
      BY DEF Init, Phase, Asking
<1>5. Unraised /\ Once
      BY DEF Init, Unraised, Once, Asking, Question
<1> QED
    BY <1>3, <1>4, <1>5 DEF OnceInv

\* The records that a node may have.
Record == [status : Statuses, session : 0 .. MaxStarts, question : 0 .. MaxQuestions]

\* The changes that the actions make to the locals.
LEMMA WorkChanges ==
  /\ Idle \in Work
  /\ \A u \in Work, s \in 0 .. MaxStarts, q \in 0 .. MaxQuestions :
       [u EXCEPT !.session = s, !.heard = q] \in Work
  /\ \A u \in Work, s \in 0 .. MaxStarts, b \in BOOLEAN :
       [u EXCEPT !.session = s, !.error = b] \in Work
  /\ \A u \in Work :
       [u EXCEPT !.valid = TRUE] \in Work
  /\ \A u \in Work :
       u.continuations < MaxContinuations =>
         [u EXCEPT !.continuations = @ + 1, !.valid = FALSE] \in Work
  /\ \A u \in Work, q \in 0 .. MaxQuestions :
       [u EXCEPT !.asking = q, !.human = TRUE] \in Work
  /\ \A u \in Work, s \in 0 .. MaxStarts, q \in 0 .. MaxQuestions :
       [u EXCEPT !.session = s, !.asking = q, !.human = TRUE] \in Work
  /\ \A u \in Work :
       [u EXCEPT !.late = TRUE] \in Work
  /\ \A u \in Work, q \in 0 .. MaxQuestions, b \in BOOLEAN :
       [u EXCEPT !.reply = q, !.local = b] \in Work
  /\ \A u \in Work, q \in 0 .. MaxQuestions :
       [u EXCEPT !.heard = q] \in Work
PROOF
<1> USE BoundsAssumption
<1>1. Idle \in Work
      BY DEF Work, Idle
<1>2. ASSUME NEW u \in Work, NEW s \in 0 .. MaxStarts, NEW q \in 0 .. MaxQuestions
      PROVE  [u EXCEPT !.session = s, !.heard = q] \in Work
      BY DEF Work
<1>3. ASSUME NEW u \in Work, NEW s \in 0 .. MaxStarts, NEW b \in BOOLEAN
      PROVE  [u EXCEPT !.session = s, !.error = b] \in Work
      BY DEF Work
<1>4. ASSUME NEW u \in Work
      PROVE  [u EXCEPT !.valid = TRUE] \in Work
      BY DEF Work
<1>5. ASSUME NEW u \in Work, u.continuations < MaxContinuations
      PROVE  [u EXCEPT !.continuations = @ + 1, !.valid = FALSE] \in Work
  <2>1. u.continuations \in 0 .. MaxContinuations
        BY DEF Work
  <2>2. u.continuations + 1 \in 0 .. MaxContinuations
        BY <1>5, <2>1
  <2> QED
      BY <2>2 DEF Work
<1>6. ASSUME NEW u \in Work, NEW q \in 0 .. MaxQuestions
      PROVE  [u EXCEPT !.asking = q, !.human = TRUE] \in Work
      BY DEF Work
<1>7. ASSUME NEW u \in Work, NEW s \in 0 .. MaxStarts, NEW q \in 0 .. MaxQuestions
      PROVE  [u EXCEPT !.session = s, !.asking = q, !.human = TRUE] \in Work
      BY DEF Work
<1>8. ASSUME NEW u \in Work
      PROVE  [u EXCEPT !.late = TRUE] \in Work
      BY DEF Work
<1>9. ASSUME NEW u \in Work, NEW q \in 0 .. MaxQuestions, NEW b \in BOOLEAN
      PROVE  [u EXCEPT !.reply = q, !.local = b] \in Work
      BY DEF Work
<1>10. ASSUME NEW u \in Work, NEW q \in 0 .. MaxQuestions
      PROVE  [u EXCEPT !.heard = q] \in Work
      BY DEF Work
<1> QED
    BY <1>1, <1>2, <1>3, <1>4, <1>5, <1>6, <1>7, <1>8, <1>9, <1>10

\* One more of a count of a question.
LEMMA CountMore ==
  ASSUME NEW f \in [Question -> Nat], NEW q
  PROVE  [f EXCEPT ![q] = @ + 1] \in [Question -> Nat]
<1>1. CASE q \in Question
      BY <1>1
<1>2. CASE q \notin Question
      BY <1>2
<1> QED
    BY <1>1, <1>2

\* A step keeps every variable in its type.
LEMMA StepTypes == TypeOK /\ [Next]_vars => TypeOK'
<1> SUFFICES ASSUME TypeOK, [Next]_vars PROVE TypeOK'
    OBVIOUS
<1> USE BoundsAssumption
<1>t. /\ kind \in {"agent", "hitl"} /\ rules \in BOOLEAN /\ hitl \in BOOLEAN
      /\ node \in Record /\ pc \in PCs /\ work \in Work
      /\ starts \in 0 .. MaxStarts /\ raised \in 0 .. MaxQuestions
      /\ asked \in [Question -> Nat] /\ inbox \in 0 .. MaxQuestions
      /\ remote \in 0 .. MaxQuestions /\ writer \in [Writer -> 0 .. MaxQuestions]
      /\ accepted \in 0 .. MaxAnswers /\ audit \in [Question -> Nat]
      /\ asker \in [Question -> 0 .. MaxStarts] /\ answered \in [Question -> Nat]
      /\ cut \in [Question -> Nat]
      /\ sent \in [to : 0 .. MaxStarts, of : 0 .. MaxQuestions, text : 0 .. MaxQuestions,
                   local : BOOLEAN]
      /\ strayed \in BOOLEAN
      BY DEF TypeOK, Record
<1>f. Fail => node' \in Record /\ pc' \in PCs
      BY <1>t DEF Fail, Record, Statuses, PCs
<1>c. \A s \in 0 .. MaxStarts : Complete(s) => node' \in Record /\ pc' \in PCs
      BY <1>t DEF Complete, Record, Statuses, PCs
<1>r. ASSUME NEW s \in 0 .. MaxStarts, Raise(s)
      PROVE  /\ raised' \in 0 .. MaxQuestions /\ asker' \in [Question -> 0 .. MaxStarts]
             /\ raised + 1 \in 0 .. MaxQuestions
  <2>1. raised < MaxQuestions /\ raised' = raised + 1
        BY <1>r DEF Raise
  <2>2. raised + 1 \in Question
        BY <1>t, <2>1 DEF Question
  <2>3. asker' = [asker EXCEPT ![raised + 1] = s]
        BY <1>r DEF Raise
  <2> QED
      BY <1>t, <1>r, <2>1, <2>2, <2>3
<1>s. /\ work.session \in 0 .. MaxStarts /\ node.session \in 0 .. MaxStarts
      /\ work.heard \in 0 .. MaxQuestions /\ node.question \in 0 .. MaxQuestions
      /\ work.asking \in 0 .. MaxQuestions /\ work.reply \in 0 .. MaxQuestions
      /\ work.local \in BOOLEAN
      BY <1>t DEF Work, Record
<1>u. TurnSession \in 0 .. MaxStarts /\ 0 \in 0 .. MaxStarts /\ 0 \in 0 .. MaxQuestions
      BY <1>t, <1>s DEF TurnSession
<1>y. ASSUME node' \in Record, pc' \in PCs, work' \in Work, hitl' \in BOOLEAN,
             starts' \in 0 .. MaxStarts, raised' \in 0 .. MaxQuestions,
             asker' \in [Question -> 0 .. MaxStarts], strayed' \in BOOLEAN,
             UNCHANGED <<kind, rules, asked, inbox, people, audit, answered, cut, sent>>
      PROVE  TypeOK'
      BY <1>t, <1>y DEF TypeOK, people, Record
<1>1. CASE UNCHANGED vars
      BY <1>1 DEF vars, engine, people, history, TypeOK
<1>2. CASE TurnAsks
  <2>1. Raise(TurnSession) /\ work' = [work EXCEPT !.session = TurnSession, !.heard = raised + 1]
        /\ pc' = "gate" /\ UNCHANGED <<node, strayed>> /\ Inside
        BY <1>2 DEF TurnAsks
  <2>2. work' \in Work
        BY <1>t, <1>r, <1>u, <2>1, WorkChanges
  <2> QED
      BY <1>t, <1>r, <1>u, <1>y, <2>1, <2>2 DEF Inside, PCs
<1>3. CASE TurnEnds \/ CheckPasses \/ Continue \/ FinishTurns
  <2>a. ASSUME TurnEnds PROVE work' \in Work
    <3>1. PICK error \in BOOLEAN, session \in {0, TurnSession} :
            work' = [work EXCEPT !.session = session, !.error = error]
          BY <2>a DEF TurnEnds
    <3> QED
        BY <1>t, <1>u, <3>1, WorkChanges
  <2>b. ASSUME CheckPasses PROVE work' \in Work
        BY <1>t, <2>b, WorkChanges DEF CheckPasses
  <2>c. ASSUME Continue PROVE work' \in Work
        BY <1>t, <2>c, WorkChanges DEF Continue
  <2>d. ASSUME FinishTurns PROVE work' \in Work
        BY <1>t, <2>d DEF FinishTurns, Inside
  <2>1. work' \in Work
        BY <1>3, <2>a, <2>b, <2>c, <2>d
  <2>2. pc' \in PCs /\ UNCHANGED <<node, raised, asker, strayed>> /\ Inside
        BY <1>3 DEF TurnEnds, CheckPasses, Continue, FinishTurns, PCs
  <2> QED
      BY <1>t, <1>y, <2>1, <2>2 DEF Inside
<1>4. CASE TurnFails \/ GiveUp \/ FinishFails \/ Reject \/ AskFails \/ TimeOut \/ ReplyFails
  <2>1. /\ strayed' \in BOOLEAN /\ Fail /\ Inside /\ UNCHANGED <<work, raised, asker>>
        BY <1>4, <1>t DEF TurnFails, GiveUp, FinishFails, Reject, AskFails, TimeOut, ReplyFails,
           StopWaiting
  <2> QED
      BY <1>t, <1>f, <1>y, <2>1 DEF Inside
<1>5. CASE Wait
  <2>1. node' \in Record
        BY <1>5, <1>s DEF Wait, Record, Statuses
  <2>2. work' \in Work
        BY <1>5, <1>t, <1>s, WorkChanges DEF Wait
  <2> QED
      BY <1>5, <1>t, <1>y, <2>1, <2>2 DEF Wait, Inside, PCs
<1>6. CASE Deliver \/ ReplyEnds
  <2>1. Complete(work.session) /\ Inside /\ UNCHANGED <<work, raised, asker, strayed>>
        BY <1>6 DEF Deliver, ReplyEnds
  <2> QED
      BY <1>t, <1>c, <1>s, <1>y, <2>1 DEF Inside
<1>7. CASE ReplyAsks
  <2>1. Raise(work.session) /\ work' = [work EXCEPT !.heard = raised + 1]
        /\ Complete(work.session) /\ Inside /\ UNCHANGED strayed
        BY <1>7 DEF ReplyAsks
  <2>2. work' \in Work
        BY <1>t, <1>r, <1>s, <1>u, <2>1, WorkChanges
  <2> QED
      BY <1>t, <1>c, <1>r, <1>s, <1>y, <2>1, <2>2 DEF Inside
<1>8. CASE Ask
  <2>1. asked' \in [Question -> Nat]
        BY <1>8, <1>t, CountMore DEF Ask
  <2> QED
      BY <1>8, <1>t, <1>u, <2>1 DEF Ask, history, TypeOK, PCs, Record
<1>9. CASE PickUp \/ FindNothing \/ ProbeReplies \/ ProbeFails \/ DeadlinePasses
  <2>a. ASSUME PickUp PROVE work' \in Work
        BY <1>t, <2>a, WorkChanges DEF PickUp
  <2>b. ASSUME ProbeReplies PROVE work' \in Work
        BY <1>t, <2>b, WorkChanges DEF ProbeReplies
  <2>c. ASSUME DeadlinePasses PROVE work' \in Work
        BY <1>t, <2>c, WorkChanges DEF DeadlinePasses
  <2>1. work' \in Work
        BY <1>9, <1>t, <2>a, <2>b, <2>c DEF FindNothing, ProbeFails
  <2>2. strayed' \in BOOLEAN /\ inbox' \in 0 .. MaxQuestions /\ pc' \in PCs
        BY <1>9, <1>t, <1>u DEF PickUp, FindNothing, ProbeReplies, ProbeFails, DeadlinePasses,
           StopWaiting, Inside, history, PCs
  <2>3. UNCHANGED <<kind, rules, hitl, node, starts, raised, asked, people, audit,
                    asker, answered, cut, sent>>
        BY <1>9 DEF PickUp, FindNothing, ProbeReplies, ProbeFails, DeadlinePasses,
           Inside, history
  <2> QED
      BY <1>t, <2>1, <2>2, <2>3 DEF people, TypeOK, Record
<1>10. CASE RecordAgentReply \/ RecordHitlReply
  <2>1. RecordReply /\ UNCHANGED <<work, strayed>> /\ node' \in Record /\ pc' \in PCs
        BY <1>10, <1>t, <1>f, <1>c, <1>s DEF RecordAgentReply, RecordHitlReply, PCs
  <2>2. audit' \in [Question -> Nat]
        BY <1>t, <2>1, CountMore DEF RecordReply
  <2> QED
      BY <1>t, <2>1, <2>2 DEF RecordReply, people, TypeOK, Record
<1>11. CASE Resume
  <2>1. answered' \in [Question -> Nat]
        BY <1>11, <1>t, CountMore DEF Resume
  <2>2. work' \in Work
        BY <1>11, <1>t, <1>u, WorkChanges DEF Resume
  <2>3. sent' \in [to : 0 .. MaxStarts, of : 0 .. MaxQuestions, text : 0 .. MaxQuestions,
                   local : BOOLEAN]
        BY <1>11, <1>s DEF Resume
  <2> QED
      BY <1>11, <1>t, <2>1, <2>2, <2>3 DEF Resume, TypeOK, people, PCs, Record
<1>12. CASE Crash
  <2>1. Idle \in Work /\ strayed' \in BOOLEAN
        BY <1>12, <1>t, <1>u, WorkChanges DEF Crash
  <2>2. cut' \in [Question -> Nat]
        BY <1>12, <1>t, CountMore DEF Crash
  <2> QED
      BY <1>12, <1>t, <2>1, <2>2 DEF Crash, TypeOK, people, PCs, Record
<1>13. ASSUME NEW w \in Writer, Accept(w) PROVE TypeOK'
  <2>1. writer' \in [Writer -> 0 .. MaxQuestions] /\ accepted' \in 0 .. MaxAnswers
        BY <1>13, <1>t, <1>s DEF Accept
  <2> QED
      BY <1>13, <1>t, <2>1 DEF Accept, TypeOK, engine, history, Record
<1>14. ASSUME NEW w \in Writer, WriteInbox(w) PROVE TypeOK'
  <2>1. writer' \in [Writer -> 0 .. MaxQuestions] /\ inbox' \in 0 .. MaxQuestions
        /\ strayed' \in BOOLEAN
        BY <1>14, <1>t, <1>u DEF WriteInbox
  <2> QED
      BY <1>14, <1>t, <2>1 DEF WriteInbox, TypeOK, engine, Record
<1>15. CASE RemoteReply
  <2>1. remote' \in 0 .. MaxQuestions
        BY <1>15 DEF RemoteReply, Question
  <2> QED
      BY <1>15, <1>t, <2>1 DEF RemoteReply, TypeOK, engine, history, Record
<1>16. CASE AnyStart
  <2>1. /\ starts' \in 0 .. MaxStarts /\ hitl' \in BOOLEAN
        /\ UNCHANGED <<kind, rules, asked, inbox, people, audit, answered, cut, sent>>
        BY <1>16, <1>t DEF AnyStart, StartTurn, StartWaiting, StartHitlNode, Starts
  <2>2. Idle \in Work
        BY <1>t, <1>u, WorkChanges
  <2>3. CASE StartTurn
    <3>1. node' \in Record
          BY <1>t, <2>3 DEF StartTurn, Record, Statuses
    <3> QED
        BY <1>t, <1>y, <2>1, <2>2, <2>3, <3>1 DEF StartTurn, PCs
  <2>4. CASE StartWaiting
    <3>1. /\ WaitOn \/ (Fail /\ UNCHANGED work)
          /\ strayed' \in BOOLEAN /\ UNCHANGED <<raised, asker>>
          BY <1>t, <2>4 DEF StartWaiting, StopWaiting
    <3>2. WaitOn => node' \in Record /\ pc' \in PCs
          BY <1>t DEF WaitOn, Record, Statuses, PCs
    <3>3. WaitOn => work' \in Work
      <4>1. [Idle EXCEPT !.session = node.session, !.asking = node.question,
                         !.human = TRUE] \in Work
            BY <1>s, <2>2, WorkChanges
      <4> QED
          BY <4>1 DEF WaitOn
    <3> QED
        BY <1>t, <1>f, <1>y, <2>1, <3>1, <3>2, <3>3
  <2>5. CASE StartHitlNode
    <3>1. CASE Raise(0) /\ pc' = "ask"
      <4>1. work' = [Idle EXCEPT !.asking = raised + 1, !.human = TRUE]
            /\ node' = [node EXCEPT !.status = "running"]
            BY <2>5, <3>1 DEF StartHitlNode, Fail
      <4>2. node' \in Record
            BY <1>t, <3>1, <4>1 DEF Record, Statuses
      <4>3. work' \in Work
            BY <1>r, <1>u, <2>2, <3>1, <4>1, WorkChanges
      <4> QED
          BY <1>t, <1>r, <1>u, <1>y, <2>1, <2>5, <3>1, <4>2, <4>3 DEF StartHitlNode, PCs
    <3>2. CASE Fail /\ UNCHANGED <<work, raised, asker>>
          BY <1>t, <1>f, <1>y, <2>1, <2>5, <3>2 DEF StartHitlNode
    <3> QED
        BY <2>5, <3>1, <3>2 DEF StartHitlNode
  <2> QED
      BY <1>16, <2>3, <2>4, <2>5 DEF AnyStart
<1> QED
    BY <1>1, <1>2, <1>3, <1>4, <1>5, <1>6, <1>7, <1>8, <1>9, <1>10, <1>11, <1>12, <1>13,
       <1>14, <1>15, <1>16 DEF Next, EngineStep

-----------------------------------------------------------------------------
(* One question, one delivery, one answer.                                 *)

\* What TypeOK says of the places, records and counts.
LEMMA Typed ==
  ASSUME TypeOK
  PROVE  /\ kind \in {"agent", "hitl"} /\ pc \in PCs /\ raised \in 0 .. MaxQuestions
         /\ node.status \in Statuses /\ node.question \in 0 .. MaxQuestions
         /\ node.session \in 0 .. MaxStarts
         /\ work.heard \in 0 .. MaxQuestions /\ work.asking \in 0 .. MaxQuestions
         /\ work.session \in 0 .. MaxStarts /\ work.human \in BOOLEAN
         /\ node \in Record /\ work \in Work
         /\ asked \in [Question -> Nat] /\ answered \in [Question -> Nat]
         /\ cut \in [Question -> Nat]
BY BoundsAssumption DEF TypeOK, Work, Record

\* The steps in which the engine gives the node up.
Fails == TurnFails \/ GiveUp \/ FinishFails \/ Reject \/ AskFails \/ TimeOut \/ ReplyFails

\* No step delivers a question twice, or answers one twice but for turns cut short.
LEMMA OnceStep == OnceInv /\ TypeOK' /\ [Next]_vars => OnceInv'
<1> SUFFICES ASSUME OnceInv, TypeOK', [Next]_vars PROVE (Phase /\ Unraised /\ Once)'
    BY DEF OnceInv
<1> USE BoundsAssumption
<1>t. /\ kind \in {"agent", "hitl"} /\ pc \in PCs /\ raised \in 0 .. MaxQuestions
      /\ node.status \in Statuses /\ node.question \in 0 .. MaxQuestions
      /\ node.session \in 0 .. MaxStarts
      /\ work.heard \in 0 .. MaxQuestions /\ work.asking \in 0 .. MaxQuestions
      /\ work.session \in 0 .. MaxStarts /\ work.human \in BOOLEAN
      /\ node \in Record /\ work \in Work
      /\ asked \in [Question -> Nat] /\ answered \in [Question -> Nat]
      /\ cut \in [Question -> Nat]
      BY Typed DEF OnceInv
<1>p. Phase /\ Unraised /\ Once /\ TypeOK
      BY DEF OnceInv
<1>e. \A n \in Record : \A s \in Statuses :
        /\ [n EXCEPT !.status = s] \in Record
        /\ [n EXCEPT !.status = s].status = s
        /\ [n EXCEPT !.status = s].question = n.question
        /\ [n EXCEPT !.status = s].session = n.session
      BY DEF Record
<1>w. \A u \in Work, s \in 0 .. MaxStarts, q \in 0 .. MaxQuestions :
        /\ [u EXCEPT !.session = s, !.heard = q].heard = q
        /\ [u EXCEPT !.session = s, !.heard = q].session = s
        /\ [u EXCEPT !.heard = q].heard = q
        /\ [u EXCEPT !.heard = q].asking = u.asking
        /\ [u EXCEPT !.heard = q].human = u.human
        /\ [u EXCEPT !.heard = q].session = u.session
        /\ [u EXCEPT !.asking = q, !.human = TRUE].asking = q
        /\ [u EXCEPT !.asking = q, !.human = TRUE].human
        /\ [u EXCEPT !.asking = q, !.human = TRUE].session = u.session
        /\ [u EXCEPT !.session = s, !.asking = q, !.human = TRUE].asking = q
        /\ [u EXCEPT !.session = s, !.asking = q, !.human = TRUE].human
        /\ [u EXCEPT !.session = s, !.asking = q, !.human = TRUE].session = s
      BY DEF Work
<1>f. Fail => node'.status = "failed" /\ pc' = "down"
      BY <1>t, <1>e DEF Fail, Statuses
<1>c. \A s : Complete(s) => node'.status \in {"completed", "failed"} /\ pc' = "down"
      BY <1>t DEF Complete, Record
<1>d. ASSUME node'.status \in {"completed", "failed"}, pc' = "down", raised' >= raised,
             UNCHANGED <<asked, answered, cut>>, raised' \in Nat
      PROVE  (Phase /\ Unraised /\ Once)'
  <2>1. Phase'
        BY <1>d DEF Phase, Asking
  <2>2. Unraised'
        BY <1>d, <1>p, <1>t DEF Unraised, Question
  <2>3. Once'
        BY <1>d, <1>p DEF Once, Asking
  <2> QED
      BY <2>1, <2>2, <2>3
<1>r. raised' \in 0 .. MaxQuestions
      BY DEF TypeOK
<1>1. CASE UNCHANGED vars
      BY <1>1, <1>p DEF vars, engine, people, history, Phase, Unraised, Once
<1>2. CASE TurnAsks
  <2>1. /\ pc = "turn" /\ pc' = "gate" /\ raised < MaxQuestions /\ raised' = raised + 1
        /\ work' = [work EXCEPT !.session = TurnSession, !.heard = raised + 1]
        /\ UNCHANGED <<kind, node, asked, answered, cut>>
        BY <1>2 DEF TurnAsks, Raise, Inside
  <2>2. work'.heard = raised + 1
        BY <1>t, <2>1 DEF Work
  <2>3. kind = "agent" /\ raised + 1 \in Question
        BY <1>p, <1>t, <2>1 DEF Phase, Asking, Question
  <2>4. asked[raised + 1] = 0 /\ answered[raised + 1] = 0
        BY <1>p, <1>t, <2>3 DEF Unraised, Question
  <2>5. node.status # "completed" /\ node.status # "waiting"
        BY <1>p, <2>1 DEF Phase, Asking
  <2>6. Phase'
        BY <1>t, <2>1, <2>2, <2>3, <2>5 DEF Phase, Asking
  <2>7. Unraised'
        BY <1>p, <1>t, <2>1 DEF Unraised, Question
  <2>8. Once'
        BY <1>p, <1>t, <2>1, <2>2, <2>3, <2>4, <2>5 DEF Once, Asking
  <2> QED
      BY <2>6, <2>7, <2>8
<1>3. CASE TurnEnds \/ CheckPasses \/ Continue \/ FinishTurns
  <2>1. /\ pc \in {"turn", "check", "finish"} /\ pc' \in {"turn", "check", "finish", "gate"}
        /\ UNCHANGED <<kind, node, raised, asked, answered, cut>>
        BY <1>3 DEF TurnEnds, CheckPasses, Continue, FinishTurns, Inside
  <2>a. ASSUME TurnEnds PROVE work'.heard = work.heard
    <3>1. PICK error \in BOOLEAN, session \in {0, TurnSession} :
            work' = [work EXCEPT !.session = session, !.error = error]
          BY <2>a DEF TurnEnds
    <3> QED
        BY <1>t, <3>1 DEF Work
  <2>2. work'.heard = work.heard
        BY <1>3, <1>t, <2>a DEF CheckPasses, Continue, FinishTurns, Work
  <2>3. work.heard = 0 /\ kind = "agent" /\ node.status # "completed" /\ node.status # "waiting"
        BY <1>p, <1>t, <2>1 DEF Phase, Asking
  <2>4. Phase'
        BY <1>t, <2>1, <2>2, <2>3 DEF Phase, Asking
  <2>5. Unraised'
        BY <1>p, <2>1 DEF Unraised
  <2>6. Once'
        BY <1>p, <2>1, <2>2, <2>3 DEF Once, Asking
  <2> QED
      BY <2>4, <2>5, <2>6
<1>4. CASE Fails
  <2>1. Fail /\ UNCHANGED <<raised, asked, answered, cut>>
        BY <1>4 DEF Fails, TurnFails, GiveUp, FinishFails, Reject, AskFails, TimeOut, ReplyFails,
           Inside
  <2> QED
      BY <1>d, <1>f, <1>t, <2>1
<1>5. CASE Wait
  <2>1. /\ pc = "gate" /\ pc' = "ask" /\ work.heard # 0
        /\ node' = [status |-> "waiting", session |-> work.session, question |-> work.heard]
        /\ work' = [work EXCEPT !.asking = work.heard, !.human = TRUE]
        /\ UNCHANGED <<kind, raised, asked, answered, cut>>
        BY <1>5 DEF Wait, Inside
  <2>2. work'.asking = work.heard /\ work'.human /\ node'.status = "waiting"
        /\ node'.question = work.heard
        BY <1>t, <1>w, <2>1
  <2>3. kind = "agent" /\ work.heard \in 1 .. raised
        BY <1>p, <1>t, <2>1 DEF Phase, Asking
  <2>4. asked[work.heard] = 0 /\ answered[work.heard] <= cut[work.heard]
        BY <1>p, <2>1 DEF Once
  <2>5. Phase'
        BY <2>1, <2>2, <2>3 DEF Phase, Asking
  <2>6. Unraised'
        BY <1>p, <2>1 DEF Unraised
  <2>7. Once'
        BY <1>p, <2>1, <2>2, <2>4 DEF Once, Asking
  <2> QED
      BY <2>5, <2>6, <2>7
<1>6. CASE Deliver \/ ReplyEnds
  <2>1. Complete(work.session) /\ UNCHANGED <<raised, asked, answered, cut>>
        BY <1>6 DEF Deliver, ReplyEnds, Inside
  <2> QED
      BY <1>c, <1>d, <1>t, <2>1
<1>7. CASE ReplyAsks
  <2>1. Complete(work.session) /\ raised' = raised + 1 /\ UNCHANGED <<asked, answered, cut>>
        BY <1>7 DEF ReplyAsks, Raise, Inside
  <2> QED
      BY <1>c, <1>d, <1>t, <2>1
<1>8. CASE Ask
  <2>1. /\ pc = "ask" /\ pc' = "poll" /\ asked' = [asked EXCEPT ![work.asking] = @ + 1]
        /\ UNCHANGED <<kind, node, work, raised, answered, cut>>
        BY <1>8 DEF Ask, history
  <2>2. work.asking \in 1 .. raised /\ work.asking \in Question /\ work.human
        BY <1>p, <1>t, <2>1 DEF Phase, Asking, Question
  <2>3. asked[work.asking] = 0
        BY <1>p, <2>1 DEF Once
  <2>4. asked'[work.asking] = 1 /\ \A q \in Question : q # work.asking => asked'[q] = asked[q]
        BY <1>t, <2>1, <2>2, <2>3
  <2>5. Phase'
        BY <1>p, <2>1, <2>2 DEF Phase, Asking
  <2>6. Unraised'
    <3>1. ASSUME NEW q \in Question, q > raised PROVE asked'[q] = 0 /\ answered[q] = 0
      <4>1. q # work.asking
            BY <1>t, <2>2, <3>1 DEF Question
      <4> QED
          BY <1>p, <2>4, <3>1, <4>1 DEF Unraised
    <3> QED
        BY <2>1, <3>1 DEF Unraised
  <2>7. Once'
        BY <1>p, <2>1, <2>4 DEF Once, Asking
  <2> QED
      BY <2>5, <2>6, <2>7
<1>9. CASE PickUp \/ FindNothing \/ ProbeReplies \/ ProbeFails \/ DeadlinePasses
  <2>1. /\ pc \in {"poll", "probe"} /\ pc' \in {"poll", "probe", "record"}
        /\ UNCHANGED <<kind, node, raised, asked, answered, cut>>
        BY <1>9 DEF PickUp, FindNothing, ProbeReplies, ProbeFails, DeadlinePasses,
           Inside, history
  <2>2. work'.asking = work.asking /\ work'.human = work.human
    <3>1. \A u \in Work :
            /\ [u EXCEPT !.late = TRUE].asking = u.asking
            /\ [u EXCEPT !.late = TRUE].human = u.human
          BY DEF Work
    <3>7. \A u \in Work, q \in 0 .. MaxQuestions :
            /\ [u EXCEPT !.reply = q, !.local = TRUE].asking = u.asking
            /\ [u EXCEPT !.reply = q, !.local = TRUE].human = u.human
            /\ [u EXCEPT !.reply = q, !.local = FALSE].asking = u.asking
            /\ [u EXCEPT !.reply = q, !.local = FALSE].human = u.human
          BY DEF Work
    <3>2. inbox \in 0 .. MaxQuestions /\ remote \in 0 .. MaxQuestions
          BY <1>p DEF TypeOK
    <3>3. CASE FindNothing \/ ProbeFails
          BY <3>3 DEF FindNothing, ProbeFails, Inside
    <3>4. CASE PickUp
          BY <1>t, <3>7, <3>2, <3>4 DEF PickUp
    <3>5. CASE ProbeReplies
          BY <1>t, <3>7, <3>2, <3>5 DEF ProbeReplies
    <3>6. CASE DeadlinePasses
          BY <1>t, <3>1, <3>6 DEF DeadlinePasses
    <3> QED
        BY <1>9, <3>3, <3>4, <3>5, <3>6
  <2>3. Phase'
        BY <1>p, <2>1, <2>2 DEF Phase, Asking
  <2>4. Unraised'
        BY <1>p, <2>1 DEF Unraised
  <2>5. Once'
        BY <1>p, <2>1, <2>2 DEF Once, Asking
  <2> QED
      BY <2>3, <2>4, <2>5
<1>10. CASE RecordAgentReply
  <2>1. /\ pc = "record" /\ kind = "agent" /\ pc' = "resume"
        /\ UNCHANGED <<kind, node, work, raised, asked, answered, cut>>
        BY <1>10 DEF RecordAgentReply, RecordReply
  <2>2. Phase'
        BY <1>p, <2>1 DEF Phase, Asking
  <2>3. Unraised'
        BY <1>p, <2>1 DEF Unraised
  <2>4. Once'
        BY <1>p, <2>1 DEF Once, Asking
  <2> QED
      BY <2>2, <2>3, <2>4
<1>11. CASE RecordHitlReply
  <2>1. (Complete(node.session) \/ Fail) /\ UNCHANGED <<raised, asked, answered, cut>>
        BY <1>11 DEF RecordHitlReply, RecordReply
  <2> QED
      BY <1>c, <1>d, <1>f, <1>t, <2>1
<1>12. CASE Resume
  <2>1. /\ pc = "resume" /\ pc' = "reply" /\ work' = [work EXCEPT !.heard = 0]
        /\ answered' = [answered EXCEPT ![work.asking] = @ + 1]
        /\ UNCHANGED <<kind, node, raised, asked, cut>>
        BY <1>12 DEF Resume
  <2>2. work.asking \in 1 .. raised /\ work.asking \in Question /\ work.human /\ kind = "agent"
        BY <1>p, <1>t, <2>1 DEF Phase, Asking, Question
  <2>3. work'.asking = work.asking /\ work'.human = work.human
        BY <1>t, <1>w, <2>1
  <2>4. answered[work.asking] <= cut[work.asking]
        BY <1>p, <2>1 DEF Once, Asking
  <2>5. answered'[work.asking] = answered[work.asking] + 1
        /\ \A q \in Question : q # work.asking => answered'[q] = answered[q]
        BY <1>t, <2>1, <2>2
  <2>6. Phase'
        BY <1>p, <2>1, <2>2, <2>3 DEF Phase, Asking
  <2>7. Unraised'
        BY <1>p, <1>t, <2>1, <2>2, <2>5 DEF Unraised, Question
  <2>8. Once'
    <3>1. \A q \in Question : asked[q] \in Nat /\ answered[q] \in Nat /\ cut[q] \in Nat
          BY <1>t
    <3>2. \A q \in Question : answered'[q] <= 1 + cut[q]
      <4> TAKE q \in Question
      <4>1. CASE q = work.asking
            BY <2>2, <2>4, <2>5, <3>1, <4>1
      <4>2. CASE q # work.asking
            BY <1>p, <2>5, <4>2 DEF Once
      <4> QED
          BY <4>1, <4>2
    <3> QED
        BY <1>p, <2>1, <3>2 DEF Once, Asking
  <2> QED
      BY <2>6, <2>7, <2>8
<1>13. CASE Crash
  <2>1. /\ pc # "down" /\ pc' = "down" /\ work' = Idle
        /\ cut' = IF pc = "reply" THEN [cut EXCEPT ![work.asking] = @ + 1] ELSE cut
        /\ UNCHANGED <<kind, node, raised, asked, answered>>
        BY <1>13 DEF Crash
  <2>2. \A q \in Question : cut'[q] \in Nat /\ cut[q] \in Nat /\ cut'[q] >= cut[q]
                           /\ answered[q] \in Nat /\ asked[q] \in Nat
        BY <1>t, <2>1
  <2>3. ASSUME node.status = "waiting"
        PROVE  node.question \in Question /\ answered[node.question] <= cut'[node.question]
    <3>1. node.question \in Question /\ pc \in Asking /\ work.asking = node.question
          BY <1>p, <1>t, <2>1, <2>3 DEF Phase, Question
    <3>2. CASE pc = "reply"
      <4>1. cut'[node.question] = cut[node.question] + 1
            BY <1>t, <2>1, <3>1, <3>2
      <4>2. answered[node.question] <= 1 + cut[node.question]
            BY <1>p, <3>1 DEF Once
      <4> QED
          BY <2>2, <3>1, <4>1, <4>2
    <3>3. CASE pc # "reply"
          BY <1>p, <2>1, <2>3, <3>1, <3>3 DEF Once
    <3> QED
        BY <3>2, <3>3
  <2>4. Phase'
        BY <1>p, <2>1 DEF Phase, Asking
  <2>5. Unraised'
        BY <1>p, <2>1 DEF Unraised
  <2>6. Once'
    <3>1. \A q \in Question : asked[q] <= 1 /\ answered[q] <= 1 + cut'[q]
          BY <1>p, <2>2 DEF Once
    <3> QED
        BY <2>1, <2>3, <3>1 DEF Once, Asking
  <2> QED
      BY <2>4, <2>5, <2>6
<1>14. CASE \E w \in Writer : Accept(w) \/ WriteInbox(w)
  <2>1. UNCHANGED <<kind, node, pc, work, raised, asked, answered, cut>>
        BY <1>14 DEF Accept, WriteInbox, engine, history
  <2> QED
      BY <1>p, <2>1 DEF Phase, Unraised, Once
<1>15. CASE RemoteReply
  <2>1. UNCHANGED <<kind, node, pc, work, raised, asked, answered, cut>>
        BY <1>15 DEF RemoteReply, engine, history
  <2> QED
      BY <1>p, <2>1 DEF Phase, Unraised, Once
<1>16. CASE StartTurn
  <2>1. /\ pc = "down" /\ kind = "agent" /\ pc' = "turn" /\ work' = Idle
        /\ node' = [node EXCEPT !.status = "running"]
        /\ UNCHANGED <<kind, raised, asked, answered, cut>>
        BY <1>16 DEF StartTurn, Starts
  <2>2. node'.status = "running" /\ work'.heard = 0
        BY <1>t, <1>e, <2>1 DEF Idle, Statuses
  <2>3. Phase'
        BY <2>1, <2>2 DEF Phase, Asking
  <2>4. Unraised'
        BY <1>p, <2>1 DEF Unraised
  <2>5. Once'
        BY <1>p, <2>1, <2>2 DEF Once, Asking
  <2> QED
      BY <2>3, <2>4, <2>5
<1>17. CASE StartWaiting
  <2>1. /\ WaitOn \/ Fail
        /\ pc = "down" /\ kind = "agent" /\ node.status = "waiting"
        /\ UNCHANGED <<kind, raised, asked, answered, cut>>
        BY <1>17 DEF StartWaiting, Starts
  <2>2. CASE WaitOn
    <3>1. /\ node' = [node EXCEPT !.status = "running"] /\ pc' = "poll"
          /\ work' = [Idle EXCEPT !.session = node.session, !.asking = node.question,
                                  !.human = TRUE]
          BY <2>2 DEF WaitOn
    <3>2. node'.status = "running" /\ work'.asking = node.question /\ work'.human
          BY <1>t, <1>e, <3>1 DEF Statuses, Idle
    <3>3. node.question \in 1 .. raised /\ answered[node.question] <= cut[node.question]
          BY <1>p, <2>1 DEF Phase, Once
    <3>4. Phase'
          BY <2>1, <3>1, <3>2, <3>3 DEF Phase, Asking
    <3>5. Unraised'
          BY <1>p, <2>1 DEF Unraised
    <3>6. Once'
          BY <1>p, <2>1, <3>1, <3>2, <3>3 DEF Once, Asking
    <3> QED
        BY <3>4, <3>5, <3>6
  <2>3. CASE Fail
        BY <1>d, <1>f, <1>t, <2>1, <2>3
  <2> QED
      BY <2>1, <2>2, <2>3
<1>18. CASE StartHitlNode
  <2>1. /\ pc = "down" /\ kind = "hitl"
        /\ UNCHANGED <<kind, asked, answered, cut>>
        BY <1>18 DEF StartHitlNode, Starts
  <2>2. CASE Fail /\ UNCHANGED raised
        BY <1>d, <1>f, <1>t, <2>1, <2>2
  <2>3. CASE Raise(0) /\ pc' = "ask"
    <3>1. /\ node' = [node EXCEPT !.status = "running"]
          /\ work' = [Idle EXCEPT !.asking = raised + 1, !.human = TRUE]
          /\ raised < MaxQuestions /\ raised' = raised + 1
          BY <1>18, <2>3 DEF StartHitlNode, Fail, Raise
    <3>2. raised + 1 \in Question /\ raised + 1 \in 0 .. MaxQuestions
          BY <1>t, <3>1 DEF Question
    <3>3. node'.status = "running" /\ work'.asking = raised + 1 /\ work'.human
          BY <1>t, <1>e, <3>1, <3>2 DEF Statuses, Idle
    <3>4. asked[raised + 1] = 0 /\ answered[raised + 1] = 0 /\ cut[raised + 1] \in Nat
          BY <1>p, <1>t, <3>2 DEF Unraised, Question
    <3>5. Phase'
          BY <1>t, <2>1, <2>3, <3>1, <3>3 DEF Phase, Asking
    <3>6. Unraised'
          BY <1>p, <1>t, <2>1, <3>1 DEF Unraised, Question
    <3>7. Once'
          BY <1>p, <2>1, <2>3, <3>3, <3>4 DEF Once, Asking
    <3> QED
        BY <3>5, <3>6, <3>7
  <2> QED
      BY <1>18, <2>2, <2>3 DEF StartHitlNode
<1> QED
    BY <1>1, <1>2, <1>3, <1>4, <1>5, <1>6, <1>7, <1>8, <1>9, <1>10, <1>11, <1>12, <1>13,
       <1>14, <1>15, <1>16, <1>17, <1>18 DEF Next, EngineStep, AnyStart, Fails

(* However often the engine dies and starts again, a question is delivered *)
(* once and answered once, but for the turns that a crash cut short.       *)
THEOREM QuestionsGoOutOnce == Spec => []OneQuestionOneAnswer
<1>1. OnceInv /\ [Next]_vars => OnceInv'
      BY StepTypes, OnceStep DEF OnceInv
<1>2. OnceInv => OneQuestionOneAnswer
      BY DEF OnceInv, Once, OneQuestionOneAnswer, AskedAtMostOnce, AnsweredOnce
<1> QED
    BY InitOnce, <1>1, <1>2, PTL DEF Spec

-----------------------------------------------------------------------------
(* The answer fits the question.                                           *)

\* Whoever is asked or answered for, it is the session that raised the question.
AskerInv ==
  /\ pc \in Asking => asker[work.asking] = work.session
  /\ pc = "gate" /\ work.heard # 0 => asker[work.heard] = work.session
  /\ node.status = "waiting" => asker[node.question] = node.session
  /\ sent.of <= raised /\ ReplyReachesAsker

\* While nothing has strayed, what the inbox holds or held is the answer that
\* is waited for.
InboxInv ==
  /\ ~strayed =>
       /\ inbox # 0 => StillOpen(inbox)
       /\ pc \in {"record", "resume"} /\ work.local => work.reply = work.asking
  /\ InboxAnswersItsQuestion

\* The record of an answer is ahead of its use.
AuditInv ==
  /\ AuditedBeforeUse
  /\ pc = "resume" => answered[work.asking] < audit[work.asking]

\* A raised question is new, and it is its session's.
LEMMA RaiseIsNew ==
  ASSUME TypeOK, NEW s \in 0 .. MaxStarts, Raise(s)
  PROVE  /\ raised + 1 \in Question /\ raised' = raised + 1 /\ raised \in Nat
         /\ asker'[raised + 1] = s
         /\ \A q \in 1 .. raised : asker'[q] = asker[q]
<1> USE BoundsAssumption
<1>1. /\ raised \in 0 .. MaxQuestions /\ asker \in [Question -> 0 .. MaxStarts]
      /\ raised < MaxQuestions /\ raised' = raised + 1
      /\ asker' = [asker EXCEPT ![raised + 1] = s]
      BY DEF TypeOK, Raise
<1>2. raised + 1 \in Question /\ \A q \in 1 .. raised : q \in Question /\ q # raised + 1
      BY <1>1 DEF Question
<1> QED
    BY <1>1, <1>2

\* The fields of the locals that the changes leave alone.
LEMMA WorkFields ==
  /\ \A u \in Work, q \in 0 .. MaxQuestions :
       /\ [u EXCEPT !.heard = q].asking = u.asking
       /\ [u EXCEPT !.heard = q].session = u.session
       /\ [u EXCEPT !.heard = q].heard = q
       /\ [u EXCEPT !.asking = q, !.human = TRUE].asking = q
       /\ [u EXCEPT !.asking = q, !.human = TRUE].session = u.session
       /\ [u EXCEPT !.reply = q, !.local = TRUE].asking = u.asking
       /\ [u EXCEPT !.reply = q, !.local = TRUE].session = u.session
       /\ [u EXCEPT !.reply = q, !.local = TRUE].reply = q
       /\ [u EXCEPT !.reply = q, !.local = FALSE].asking = u.asking
       /\ [u EXCEPT !.reply = q, !.local = FALSE].session = u.session
       /\ [u EXCEPT !.reply = q, !.local = FALSE].local = FALSE
  /\ \A u \in Work :
       /\ [u EXCEPT !.late = TRUE].asking = u.asking
       /\ [u EXCEPT !.late = TRUE].session = u.session
       /\ [u EXCEPT !.late = TRUE].reply = u.reply
       /\ [u EXCEPT !.late = TRUE].local = u.local
<1>1. ASSUME NEW u \in Work, NEW q \in 0 .. MaxQuestions
      PROVE  /\ [u EXCEPT !.heard = q].asking = u.asking
             /\ [u EXCEPT !.heard = q].session = u.session
             /\ [u EXCEPT !.heard = q].heard = q
             /\ [u EXCEPT !.asking = q, !.human = TRUE].asking = q
             /\ [u EXCEPT !.asking = q, !.human = TRUE].session = u.session
      BY DEF Work
<1>2. ASSUME NEW u \in Work, NEW q \in 0 .. MaxQuestions
      PROVE  /\ [u EXCEPT !.reply = q, !.local = TRUE].asking = u.asking
             /\ [u EXCEPT !.reply = q, !.local = TRUE].session = u.session
             /\ [u EXCEPT !.reply = q, !.local = TRUE].reply = q
             /\ [u EXCEPT !.reply = q, !.local = FALSE].asking = u.asking
             /\ [u EXCEPT !.reply = q, !.local = FALSE].session = u.session
             /\ [u EXCEPT !.reply = q, !.local = FALSE].local = FALSE
      BY DEF Work
<1>3. ASSUME NEW u \in Work
      PROVE  /\ [u EXCEPT !.late = TRUE].asking = u.asking
             /\ [u EXCEPT !.late = TRUE].session = u.session
             /\ [u EXCEPT !.late = TRUE].reply = u.reply
             /\ [u EXCEPT !.late = TRUE].local = u.local
      BY DEF Work
<1> QED
    BY <1>1, <1>2, <1>3

\* The session that a question is kept with is the one that raised it.
LEMMA AskerStep == OnceInv /\ AskerInv /\ TypeOK' /\ [Next]_vars => AskerInv'
<1> SUFFICES ASSUME OnceInv, AskerInv, TypeOK', [Next]_vars PROVE AskerInv'
    OBVIOUS
<1> USE BoundsAssumption
<1>p. Phase /\ TypeOK
      BY DEF OnceInv
<1>t. /\ kind \in {"agent", "hitl"} /\ pc \in PCs /\ raised \in 0 .. MaxQuestions
      /\ node.status \in Statuses /\ node.question \in 0 .. MaxQuestions
      /\ node.session \in 0 .. MaxStarts
      /\ work.heard \in 0 .. MaxQuestions /\ work.asking \in 0 .. MaxQuestions
      /\ work.session \in 0 .. MaxStarts
      /\ node \in Record /\ work \in Work
      BY <1>p, Typed
<1>g. sent.of \in Nat /\ (sent.of # 0 => sent.of \in 1 .. raised)
      BY <1>p, <1>t DEF TypeOK, AskerInv
<1>e. \A n \in Record : \A s \in Statuses :
        /\ [n EXCEPT !.status = s].status = s
      BY DEF Record
<1>f. Fail => node'.status = "failed" /\ pc' = "down"
      BY <1>t, <1>e DEF Fail, Statuses
<1>c. \A s : Complete(s) => node'.status \in {"completed", "failed"} /\ pc' = "down"
      BY <1>t DEF Complete, Record
<1>d. ASSUME node'.status \in {"completed", "failed"}, pc' = "down", raised' >= raised,
             UNCHANGED sent, \A q \in 1 .. raised : asker'[q] = asker[q], raised' \in Nat
      PROVE  AskerInv'
      BY <1>d, <1>g, <1>t DEF AskerInv, Asking, ReplyReachesAsker
<1>r. raised' \in 0 .. MaxQuestions
      BY DEF TypeOK
<1>1. CASE UNCHANGED vars
      BY <1>1 DEF vars, engine, people, history, AskerInv, ReplyReachesAsker
<1>2. CASE TurnAsks
  <2>1. /\ pc = "turn" /\ pc' = "gate" /\ Raise(TurnSession)
        /\ work' = [work EXCEPT !.session = TurnSession, !.heard = raised + 1]
        /\ UNCHANGED <<node, sent>>
        BY <1>2 DEF TurnAsks, Inside
  <2>2. TurnSession \in 0 .. MaxStarts
        BY <1>p, <1>t DEF TurnSession, TypeOK
  <2>3. /\ raised' = raised + 1 /\ asker'[raised + 1] = TurnSession
        /\ \A q \in 1 .. raised : asker'[q] = asker[q]
        BY <1>p, <2>1, <2>2, RaiseIsNew
  <2>4. work'.heard = raised + 1 /\ work'.session = TurnSession
        BY <1>t, <2>1 DEF Work
  <2>5. node.status # "waiting"
        BY <1>p, <2>1 DEF Phase, Asking
  <2> QED
      BY <1>g, <1>t, <2>1, <2>3, <2>4, <2>5 DEF AskerInv, Asking, ReplyReachesAsker
<1>3. CASE TurnEnds \/ CheckPasses \/ Continue \/ FinishTurns
  <2>1. /\ pc \in {"turn", "check", "finish"} /\ pc' \in {"turn", "check", "finish", "gate"}
        /\ UNCHANGED <<node, raised, asker, sent>>
        BY <1>3 DEF TurnEnds, CheckPasses, Continue, FinishTurns, Inside
  <2>2. work.heard = 0 /\ node.status # "waiting"
        BY <1>p, <2>1 DEF Phase, Asking
  <2>3. pc' = "gate" => UNCHANGED work
        BY <1>3 DEF TurnEnds, CheckPasses, Continue, FinishTurns
  <2> QED
      BY <2>1, <2>2, <2>3 DEF AskerInv, Asking, ReplyReachesAsker
<1>4. CASE Fails
  <2>1. Fail /\ UNCHANGED <<raised, asker, sent>>
        BY <1>4 DEF Fails, TurnFails, GiveUp, FinishFails, Reject, AskFails, TimeOut, ReplyFails,
           Inside
  <2> QED
      BY <1>d, <1>f, <1>t, <2>1
<1>5. CASE Wait
  <2>1. /\ pc = "gate" /\ pc' = "ask" /\ work.heard # 0
        /\ node' = [status |-> "waiting", session |-> work.session, question |-> work.heard]
        /\ work' = [work EXCEPT !.asking = work.heard, !.human = TRUE]
        /\ UNCHANGED <<raised, asker, sent>>
        BY <1>5 DEF Wait, Inside
  <2>2. work'.asking = work.heard /\ work'.session = work.session
        BY <1>t, <2>1, WorkFields
  <2>3. node'.question = work.heard /\ node'.session = work.session
        BY <2>1
  <2> QED
      BY <2>1, <2>2, <2>3 DEF AskerInv, Asking, ReplyReachesAsker
<1>6. CASE Deliver \/ ReplyEnds
  <2>1. Complete(work.session) /\ UNCHANGED <<raised, asker, sent>>
        BY <1>6 DEF Deliver, ReplyEnds, Inside
  <2> QED
      BY <1>c, <1>d, <1>t, <2>1
<1>7. CASE ReplyAsks
  <2>1. Complete(work.session) /\ Raise(work.session) /\ UNCHANGED sent
        BY <1>7 DEF ReplyAsks, Inside
  <2>2. raised' = raised + 1 /\ \A q \in 1 .. raised : asker'[q] = asker[q]
        BY <1>p, <1>t, <2>1, RaiseIsNew
  <2> QED
      BY <1>c, <1>d, <1>t, <2>1, <2>2
<1>8. CASE Ask \/ PickUp \/ FindNothing \/ ProbeReplies \/ ProbeFails \/ DeadlinePasses
  <2>1. /\ pc \in {"ask", "poll", "probe"} /\ pc' \in {"poll", "probe", "record"}
        /\ UNCHANGED <<node, raised, asker, sent>>
        BY <1>8 DEF Ask, PickUp, FindNothing, ProbeReplies, ProbeFails, DeadlinePasses,
           Inside, history
  <2>2. work'.asking = work.asking /\ work'.session = work.session
    <3>1. inbox \in 0 .. MaxQuestions /\ remote \in 0 .. MaxQuestions
          BY <1>p DEF TypeOK
    <3>2. CASE Ask \/ FindNothing \/ ProbeFails
          BY <3>2 DEF Ask, FindNothing, ProbeFails, Inside
    <3>3. CASE PickUp
          BY <1>t, <3>1, <3>3, WorkFields DEF PickUp
    <3>4. CASE ProbeReplies
          BY <1>t, <3>1, <3>4, WorkFields DEF ProbeReplies
    <3>5. CASE DeadlinePasses
          BY <1>t, <3>1, <3>5, WorkFields DEF DeadlinePasses
    <3> QED
        BY <1>8, <3>2, <3>3, <3>4, <3>5
  <2> QED
      BY <2>1, <2>2 DEF AskerInv, Asking, ReplyReachesAsker
<1>9. CASE RecordAgentReply
  <2>1. /\ pc = "record" /\ pc' = "resume"
        /\ UNCHANGED <<node, work, raised, asker, sent>>
        BY <1>9 DEF RecordAgentReply, RecordReply
  <2> QED
      BY <2>1 DEF AskerInv, Asking, ReplyReachesAsker
<1>10. CASE RecordHitlReply
  <2>1. (Complete(node.session) \/ Fail) /\ UNCHANGED <<raised, asker, sent>>
        BY <1>10 DEF RecordHitlReply, RecordReply
  <2> QED
      BY <1>c, <1>d, <1>f, <1>t, <2>1
<1>11. CASE Resume
  <2>1. /\ pc = "resume" /\ pc' = "reply" /\ work' = [work EXCEPT !.heard = 0]
        /\ sent' = [to |-> work.session, of |-> work.asking, text |-> work.reply,
                    local |-> work.local]
        /\ UNCHANGED <<node, raised, asker>>
        BY <1>11 DEF Resume
  <2>2. work'.asking = work.asking /\ work'.session = work.session
        BY <1>t, <2>1, WorkFields
  <2>3. work.asking \in 1 .. raised
        BY <1>p, <2>1 DEF Phase, Asking
  <2>4. sent'.of = work.asking /\ sent'.to = work.session
        BY <2>1
  <2> QED
      BY <1>t, <2>1, <2>2, <2>3, <2>4 DEF AskerInv, Asking, ReplyReachesAsker
<1>12. CASE Crash
  <2>1. pc' = "down" /\ UNCHANGED <<node, raised, asker, sent>>
        BY <1>12 DEF Crash
  <2> QED
      BY <2>1 DEF AskerInv, Asking, ReplyReachesAsker
<1>13. CASE (\E w \in Writer : Accept(w) \/ WriteInbox(w)) \/ RemoteReply
  <2>1. UNCHANGED <<node, pc, work, raised, asker, sent>>
        BY <1>13 DEF Accept, WriteInbox, RemoteReply, engine, history
  <2> QED
      BY <2>1 DEF AskerInv, ReplyReachesAsker
<1>14. CASE StartTurn
  <2>1. /\ pc' = "turn" /\ node' = [node EXCEPT !.status = "running"]
        /\ UNCHANGED <<raised, asker, sent>>
        BY <1>14 DEF StartTurn, Starts
  <2>2. node'.status = "running"
        BY <1>t, <1>e, <2>1 DEF Statuses
  <2> QED
      BY <2>1, <2>2 DEF AskerInv, Asking, ReplyReachesAsker
<1>15. CASE StartWaiting
  <2>1. /\ WaitOn \/ Fail
        /\ node.status = "waiting" /\ UNCHANGED <<raised, asker, sent>>
        BY <1>15 DEF StartWaiting, Starts
  <2>2. CASE WaitOn
    <3>1. /\ node' = [node EXCEPT !.status = "running"] /\ pc' = "poll"
          /\ work' = [Idle EXCEPT !.session = node.session, !.asking = node.question,
                                  !.human = TRUE]
          BY <2>2 DEF WaitOn
    <3>2. /\ node'.status = "running" /\ work'.asking = node.question
          /\ work'.session = node.session
          BY <1>t, <1>e, <3>1 DEF Statuses, Idle
    <3> QED
        BY <2>1, <3>1, <3>2 DEF AskerInv, Asking, ReplyReachesAsker
  <2>3. CASE Fail
        BY <1>d, <1>f, <1>t, <2>1, <2>3
  <2> QED
      BY <2>1, <2>2, <2>3
<1>16. CASE StartHitlNode
  <2>1. UNCHANGED sent
        BY <1>16 DEF StartHitlNode, Starts
  <2>2. CASE Fail /\ UNCHANGED <<raised, asker>>
        BY <1>d, <1>f, <1>t, <2>1, <2>2
  <2>3. CASE Raise(0) /\ pc' = "ask"
    <3>1. /\ node' = [node EXCEPT !.status = "running"]
          /\ work' = [Idle EXCEPT !.asking = raised + 1, !.human = TRUE]
          BY <1>16, <2>3 DEF StartHitlNode, Fail
    <3>2. /\ raised' = raised + 1 /\ asker'[raised + 1] = 0
          /\ \A q \in 1 .. raised : asker'[q] = asker[q]
      <4>1. 0 \in 0 .. MaxStarts
            OBVIOUS
      <4> QED
          BY <1>p, <2>3, <4>1, RaiseIsNew
    <3>3. node'.status = "running" /\ work'.asking = raised + 1 /\ work'.session = 0
          BY <1>t, <1>e, <3>1 DEF Statuses, Idle
    <3> QED
        BY <1>g, <1>t, <2>1, <2>3, <3>2, <3>3 DEF AskerInv, Asking, ReplyReachesAsker
  <2> QED
      BY <1>16, <2>2, <2>3 DEF StartHitlNode
<1> QED
    BY <1>1, <1>2, <1>3, <1>4, <1>5, <1>6, <1>7, <1>8, <1>9, <1>10, <1>11, <1>12, <1>13,
       <1>14, <1>15, <1>16 DEF Next, EngineStep, AnyStart, Fails

\* What is heard is in hitl.jsonl, and was written for the question or too late.
LEMMA InboxStep == OnceInv /\ InboxInv /\ TypeOK' /\ [Next]_vars => InboxInv'
<1> SUFFICES ASSUME OnceInv, InboxInv, TypeOK', [Next]_vars PROVE InboxInv'
    OBVIOUS
<1> USE BoundsAssumption
<1>p. Phase /\ TypeOK
      BY DEF OnceInv
<1>t. /\ pc \in PCs /\ inbox \in 0 .. MaxQuestions /\ remote \in 0 .. MaxQuestions
      /\ node \in Record /\ work \in Work
      BY <1>p, Typed DEF TypeOK
<1>b. strayed \in BOOLEAN
      BY <1>p DEF TypeOK
<1>f. Fail => pc' = "down"
      BY DEF Fail
<1>c. \A s : Complete(s) => pc' = "down"
      BY DEF Complete
\* A step that ends a wait, or was in none.
<1>d. ASSUME pc' \notin {"record", "resume"}, UNCHANGED <<sent, inbox>>,
             (strayed' <=> (strayed \/ inbox # 0))
             \/ (UNCHANGED strayed
                 /\ ~(pc \in {"ask", "poll", "probe"})
                 /\ ~(pc = "down" /\ node.status = "waiting"))
      PROVE  InboxInv'
  <2>1. ~strayed' => ~strayed /\ inbox = 0
    <3>1. CASE strayed' <=> (strayed \/ inbox # 0)
          BY <3>1
    <3>2. CASE UNCHANGED strayed /\ ~(pc \in {"ask", "poll", "probe"})
               /\ ~(pc = "down" /\ node.status = "waiting")
          BY <3>2 DEF InboxInv, StillOpen
    <3> QED
        BY <1>d, <3>1, <3>2
  <2> QED
      BY <1>d, <2>1 DEF InboxInv, InboxAnswersItsQuestion
<1>1. CASE UNCHANGED vars
      BY <1>1 DEF vars, engine, people, history, InboxInv, InboxAnswersItsQuestion, StillOpen
<1>2. CASE TurnAsks \/ TurnEnds \/ CheckPasses \/ Continue \/ FinishTurns \/ Wait
  <2>1. /\ pc \in {"turn", "check", "finish", "gate"}
        /\ pc' \in {"turn", "check", "finish", "gate", "ask"}
        /\ UNCHANGED <<inbox, sent, strayed>>
        BY <1>2 DEF TurnAsks, TurnEnds, CheckPasses, Continue, FinishTurns, Wait, Inside
  <2> QED
      BY <1>d, <2>1
<1>3. CASE TurnFails \/ GiveUp \/ FinishFails \/ Reject \/ ReplyFails
  <2>1. /\ pc \in {"turn", "check", "finish", "gate", "reply"} /\ Fail
        /\ UNCHANGED <<inbox, sent, strayed>>
        BY <1>3 DEF TurnFails, GiveUp, FinishFails, Reject, ReplyFails, Inside
  <2> QED
      BY <1>d, <1>f, <2>1
<1>4. CASE AskFails \/ TimeOut
  <2>1. Fail /\ StopWaiting /\ UNCHANGED <<inbox, sent>>
        BY <1>4 DEF AskFails, TimeOut, Inside
  <2> QED
      BY <1>d, <1>f, <2>1 DEF StopWaiting
<1>5. CASE Deliver \/ ReplyEnds \/ ReplyAsks
  <2>1. /\ pc \in {"gate", "reply"} /\ Complete(work.session)
        /\ UNCHANGED <<inbox, sent, strayed>>
        BY <1>5 DEF Deliver, ReplyEnds, ReplyAsks, Inside
  <2> QED
      BY <1>c, <1>d, <2>1
<1>6. CASE Ask \/ FindNothing \/ ProbeFails \/ DeadlinePasses
  <2>1. /\ pc \in {"ask", "poll", "probe"} /\ pc' \in {"poll", "probe"}
        /\ UNCHANGED <<inbox, sent, strayed>>
        BY <1>6 DEF Ask, FindNothing, ProbeFails, DeadlinePasses, Inside, history
  <2>2. work'.asking = work.asking
        BY <1>6, <1>t, WorkFields DEF Ask, FindNothing, ProbeFails, DeadlinePasses, Inside
  <2> QED
      BY <2>1, <2>2 DEF InboxInv, InboxAnswersItsQuestion, StillOpen
<1>7. CASE PickUp
  <2>1. /\ pc = "poll" /\ pc' = "record" /\ inbox # 0 /\ inbox' = 0
        /\ work' = [work EXCEPT !.reply = inbox, !.local = TRUE]
        /\ UNCHANGED <<sent, strayed>>
        BY <1>7 DEF PickUp, history
  <2>2. work'.reply = inbox /\ work'.asking = work.asking
        BY <1>t, <2>1, WorkFields
  <2>3. ~strayed => work.asking = inbox
        BY <2>1 DEF InboxInv, StillOpen
  <2> QED
      BY <2>1, <2>2, <2>3 DEF InboxInv, InboxAnswersItsQuestion
<1>8. CASE ProbeReplies
  <2>1. /\ pc' = "record" /\ (strayed' <=> (strayed \/ inbox # 0))
        /\ work' = [work EXCEPT !.reply = remote, !.local = FALSE]
        /\ UNCHANGED <<inbox, sent>>
        BY <1>8 DEF ProbeReplies, StopWaiting, Inside
  <2>2. ~work'.local
        BY <1>t, <2>1, WorkFields
  <2> QED
      BY <2>1, <2>2 DEF InboxInv, InboxAnswersItsQuestion
<1>9. CASE RecordAgentReply
  <2>1. pc = "record" /\ pc' = "resume" /\ UNCHANGED <<work, inbox, sent, strayed>>
        BY <1>9 DEF RecordAgentReply, RecordReply
  <2> QED
      BY <2>1 DEF InboxInv, InboxAnswersItsQuestion, StillOpen
<1>10. CASE RecordHitlReply
  <2>1. /\ pc = "record" /\ (Complete(node.session) \/ Fail)
        /\ UNCHANGED <<inbox, sent, strayed>>
        BY <1>10 DEF RecordHitlReply, RecordReply
  <2> QED
      BY <1>c, <1>d, <1>f, <2>1
<1>11. CASE Resume
  <2>1. /\ pc = "resume" /\ pc' = "reply"
        /\ sent' = [to |-> work.session, of |-> work.asking, text |-> work.reply,
                    local |-> work.local]
        /\ UNCHANGED <<inbox, strayed>>
        BY <1>11 DEF Resume
  <2>2. sent'.local = work.local /\ sent'.of = work.asking /\ sent'.text = work.reply
        BY <2>1
  <2> QED
      BY <2>1, <2>2 DEF InboxInv, InboxAnswersItsQuestion, StillOpen
<1>12. CASE Crash
  <2>1. /\ pc # "down" /\ pc' = "down"
        /\ strayed' <=> (strayed \/ (inbox # 0 /\ node.status # "waiting"))
        /\ UNCHANGED <<node, inbox, sent>>
        BY <1>12 DEF Crash
  <2>2. ASSUME ~strayed', inbox # 0 PROVE node.status = "waiting" /\ node.question = inbox
    <3>1. node.status = "waiting" /\ pc \in Asking /\ work.asking = node.question
          BY <1>p, <2>1, <2>2 DEF Phase
    <3>2. work.asking = inbox
          BY <2>1, <2>2 DEF InboxInv, StillOpen
    <3> QED
        BY <3>1, <3>2
  <2>3. ~strayed' => ~strayed
        BY <2>1
  <2> QED
      BY <2>1, <2>2, <2>3 DEF InboxInv, InboxAnswersItsQuestion, StillOpen
<1>13. ASSUME NEW w \in Writer, Accept(w) PROVE InboxInv'
  <2>1. UNCHANGED <<pc, node, work, inbox, sent, strayed>>
        BY <1>13 DEF Accept, engine, history
  <2> QED
      BY <2>1 DEF InboxInv, InboxAnswersItsQuestion, StillOpen
<1>14. ASSUME NEW w \in Writer, WriteInbox(w) PROVE InboxInv'
  <2>1. /\ inbox' = writer[w] /\ (strayed' <=> (strayed \/ ~StillOpen(writer[w])))
        /\ UNCHANGED <<pc, node, work, sent>>
        BY <1>14 DEF WriteInbox, engine
  <2>2. ~strayed' => ~strayed /\ StillOpen(inbox')
        BY <2>1
  <2> QED
      BY <2>1, <2>2 DEF InboxInv, InboxAnswersItsQuestion, StillOpen
<1>15. CASE RemoteReply
  <2>1. UNCHANGED <<pc, node, work, inbox, sent, strayed>>
        BY <1>15 DEF RemoteReply, engine, history
  <2> QED
      BY <2>1 DEF InboxInv, InboxAnswersItsQuestion, StillOpen
<1>16. CASE StartTurn
  <2>1. /\ pc = "down" /\ node.status # "waiting" /\ pc' = "turn"
        /\ UNCHANGED <<inbox, sent, strayed>>
        BY <1>16 DEF StartTurn, Starts
  <2> QED
      BY <1>d, <2>1
<1>17. CASE StartWaiting
  <2>1. /\ pc = "down" /\ node.status = "waiting" /\ UNCHANGED <<inbox, sent>>
        /\ (WaitOn /\ UNCHANGED strayed) \/ (Fail /\ StopWaiting)
        BY <1>17 DEF StartWaiting, Starts
  <2>2. CASE WaitOn /\ UNCHANGED strayed
    <3>1. pc' = "poll" /\ work'.asking = node.question
          BY <2>2 DEF WaitOn, Idle
    <3> QED
        BY <2>1, <2>2, <3>1 DEF InboxInv, InboxAnswersItsQuestion, StillOpen
  <2>3. CASE Fail /\ StopWaiting
        BY <1>d, <1>f, <2>1, <2>3 DEF StopWaiting
  <2> QED
      BY <2>1, <2>2, <2>3
<1>18. CASE StartHitlNode
  <2>1. /\ pc = "down" /\ kind = "hitl" /\ pc' \in {"down", "ask"}
        /\ UNCHANGED <<inbox, sent, strayed>>
        BY <1>18 DEF StartHitlNode, Starts, Fail
  <2>2. node.status # "waiting"
        BY <1>p, <2>1 DEF Phase
  <2> QED
      BY <1>d, <2>1, <2>2
<1> QED
    BY <1>1, <1>2, <1>3, <1>4, <1>5, <1>6, <1>7, <1>8, <1>9, <1>10, <1>11, <1>12, <1>13,
       <1>14, <1>15, <1>16, <1>17, <1>18 DEF Next, EngineStep, AnyStart

\* An answer is recorded before it is used.
LEMMA AuditStep == OnceInv /\ AuditInv /\ TypeOK' /\ [Next]_vars => AuditInv'
<1> SUFFICES ASSUME OnceInv, AuditInv, TypeOK', [Next]_vars PROVE AuditInv'
    OBVIOUS
<1> USE BoundsAssumption
<1>p. Phase /\ TypeOK
      BY DEF OnceInv
<1>t. /\ raised \in 0 .. MaxQuestions /\ work \in Work
      /\ answered \in [Question -> Nat] /\ audit \in [Question -> Nat]
      BY <1>p, Typed DEF TypeOK
<1>1. CASE RecordAgentReply \/ RecordHitlReply
  <2>1. /\ pc = "record" /\ (pc' = "resume" => UNCHANGED work)
        /\ audit' = [audit EXCEPT ![work.asking] = @ + 1] /\ UNCHANGED answered
        BY <1>1 DEF RecordAgentReply, RecordHitlReply, RecordReply, Complete, Fail
  <2>2. work.asking \in Question
        BY <1>p, <1>t, <2>1 DEF Phase, Asking, Question
  <2>3. /\ audit'[work.asking] = audit[work.asking] + 1
        /\ \A q \in Question : q # work.asking => audit'[q] = audit[q]
        BY <1>t, <2>1, <2>2
  <2>4. \A q \in Question : answered[q] \in Nat /\ audit[q] \in Nat /\ answered[q] <= audit[q]
        BY <1>t DEF AuditInv, AuditedBeforeUse
  <2>5. answered[work.asking] < audit'[work.asking]
        BY <2>2, <2>3, <2>4
  <2>6. \A q \in Question : answered[q] <= audit'[q]
    <3> TAKE q \in Question
    <3>1. CASE q = work.asking
          BY <2>3, <2>4, <3>1
    <3>2. CASE q # work.asking
          BY <2>3, <2>4, <3>2
    <3> QED
        BY <3>1, <3>2
  <2> QED
      BY <2>1, <2>5, <2>6 DEF AuditInv, AuditedBeforeUse
<1>2. CASE Resume
  <2>1. /\ pc = "resume" /\ pc' = "reply"
        /\ answered' = [answered EXCEPT ![work.asking] = @ + 1] /\ UNCHANGED audit
        BY <1>2 DEF Resume
  <2>2. work.asking \in Question
        BY <1>p, <1>t, <2>1 DEF Phase, Asking, Question
  <2>3. /\ answered'[work.asking] = answered[work.asking] + 1
        /\ \A q \in Question : q # work.asking => answered'[q] = answered[q]
        BY <1>t, <2>1, <2>2
  <2>4. \A q \in Question : answered[q] \in Nat /\ audit[q] \in Nat /\ answered[q] <= audit[q]
        BY <1>t DEF AuditInv, AuditedBeforeUse
  <2>5. answered[work.asking] < audit[work.asking]
        BY <2>1 DEF AuditInv
  <2>6. \A q \in Question : answered'[q] <= audit[q]
    <3> TAKE q \in Question
    <3>1. CASE q = work.asking
          BY <2>2, <2>3, <2>4, <2>5, <3>1
    <3>2. CASE q # work.asking
          BY <2>3, <2>4, <3>2
    <3> QED
        BY <3>1, <3>2
  <2> QED
      BY <2>1, <2>6 DEF AuditInv, AuditedBeforeUse
<1>3. ASSUME UNCHANGED <<answered, audit>>, pc' # "resume" \/ UNCHANGED <<pc, work>>
      PROVE  AuditInv'
      BY <1>3 DEF AuditInv, AuditedBeforeUse
<1>4. CASE UNCHANGED vars
      BY <1>3, <1>4 DEF vars, engine, history
<1>5. CASE TurnAsks \/ TurnEnds \/ CheckPasses \/ Continue \/ FinishTurns \/ Wait
           \/ FindNothing \/ ProbeReplies \/ ProbeFails
  <2>1. UNCHANGED <<answered, audit>> /\ pc' # "resume"
        BY <1>5 DEF TurnAsks, TurnEnds, CheckPasses, Continue, FinishTurns, Wait,
           FindNothing, ProbeReplies, ProbeFails, Inside
  <2> QED
      BY <1>3, <2>1
<1>6. CASE Ask \/ PickUp \/ DeadlinePasses \/ Crash
  <2>1. UNCHANGED <<answered, audit>> /\ pc' # "resume"
        BY <1>6 DEF Ask, PickUp, DeadlinePasses, Crash, Inside, history
  <2> QED
      BY <1>3, <2>1
<1>7. CASE Fails \/ Deliver \/ ReplyEnds \/ ReplyAsks
  <2>1. /\ UNCHANGED <<answered, audit>>
        /\ Fail \/ Complete(work.session)
        BY <1>7 DEF Fails, TurnFails, GiveUp, FinishFails, Reject, AskFails, TimeOut, ReplyFails,
           Deliver, ReplyEnds, ReplyAsks, Inside
  <2> QED
      BY <1>3, <2>1 DEF Fail, Complete
<1>8. CASE (\E w \in Writer : Accept(w) \/ WriteInbox(w)) \/ RemoteReply
      BY <1>3, <1>8 DEF Accept, WriteInbox, RemoteReply, engine, history
<1>9. CASE AnyStart
  <2>1. UNCHANGED <<answered, audit>> /\ pc' # "resume"
        BY <1>9 DEF AnyStart, StartTurn, StartWaiting, StartHitlNode, Starts, WaitOn, Fail
  <2> QED
      BY <1>3, <2>1
<1> QED
    BY <1>1, <1>2, <1>4, <1>5, <1>6, <1>7, <1>8, <1>9 DEF Next, EngineStep, Fails

\* A run begins with no session, no answer and no turn.
LEMMA InitFits == Init => AskerInv /\ InboxInv /\ AuditInv
<1> SUFFICES ASSUME Init PROVE AskerInv /\ InboxInv /\ AuditInv
    OBVIOUS
<1> USE BoundsAssumption
<1>1. AskerInv
      BY DEF Init, AskerInv, Asking, ReplyReachesAsker
<1>2. InboxInv
      BY DEF Init, InboxInv, InboxAnswersItsQuestion
<1>3. AuditInv
      BY DEF Init, AuditInv, AuditedBeforeUse
<1> QED
    BY <1>1, <1>2, <1>3

(* What a session hears is the recorded answer to the question that it     *)
(* raised itself, whatever writers, crashes and new starts come between.   *)
THEOREM AnswersAlwaysFit == Spec => []AnswerFitsQuestion
<1>1. OnceInv /\ [Next]_vars => OnceInv' /\ TypeOK'
      BY StepTypes, OnceStep DEF OnceInv
<1>2. AskerInv /\ InboxInv /\ AuditInv => AnswerFitsQuestion
      BY DEF AskerInv, InboxInv, AuditInv, AnswerFitsQuestion
<1> QED
    BY InitOnce, InitFits, AskerStep, InboxStep, AuditStep, <1>1, <1>2, PTL DEF Spec

-----------------------------------------------------------------------------
(* The work of a node that no human has seen.                              *)

\* The turns have ended with work that passed, and without an error.
CheckedInv ==
  /\ pc = "finish" => work.valid
  /\ pc = "gate" /\ work.heard = 0 => work.valid /\ ~work.error
  /\ CompletedWorkIsChecked

\* No turn ends the node but with work that passed.
LEMMA CheckedStep == OnceInv /\ CheckedInv /\ TypeOK' /\ [Next]_vars => CheckedInv'
<1> SUFFICES ASSUME OnceInv, CheckedInv, TypeOK', [Next]_vars PROVE CheckedInv'
    OBVIOUS
<1> USE BoundsAssumption
<1>p. Phase /\ TypeOK
      BY DEF OnceInv
<1>t. /\ raised \in 0 .. MaxQuestions /\ node \in Record /\ work \in Work
      BY <1>p, Typed
<1>f. Fail => node'.status = "failed" /\ pc' = "down"
      BY <1>t DEF Fail, Record
\* A step that neither completes the node nor leads to the end of its turns.
<1>d. ASSUME pc' \notin {"finish", "gate"}, node'.status # "completed"
      PROVE  CheckedInv'
      BY <1>d DEF CheckedInv, CompletedWorkIsChecked
<1>e. ASSUME UNCHANGED <<kind, rules, node, pc, work>>
      PROVE  CheckedInv'
      BY <1>e DEF CheckedInv, CompletedWorkIsChecked
<1>n. pc # "down" => node.status # "completed"
      BY <1>p DEF Phase
<1>1. CASE UNCHANGED vars
      BY <1>1, <1>e DEF vars, engine
<1>2. CASE TurnAsks
  <2>1. /\ pc = "turn" /\ pc' = "gate"
        /\ work' = [work EXCEPT !.session = TurnSession, !.heard = raised + 1]
        /\ UNCHANGED node
        BY <1>2 DEF TurnAsks
  <2>2. work'.heard # 0
        BY <1>t, <2>1 DEF Work
  <2> QED
      BY <1>n, <2>1, <2>2 DEF CheckedInv, CompletedWorkIsChecked
<1>3. CASE CheckPasses
  <2>1. /\ pc = "check" /\ pc' = "finish" /\ work' = [work EXCEPT !.valid = TRUE]
        /\ UNCHANGED node
        BY <1>3 DEF CheckPasses
  <2>2. work'.valid = TRUE
        BY <1>t, <2>1 DEF Work
  <2> QED
      BY <1>n, <2>1, <2>2 DEF CheckedInv, CompletedWorkIsChecked
<1>4. CASE FinishTurns
  <2>1. /\ pc = "finish" /\ pc' = "gate" /\ ~work.error /\ UNCHANGED <<node, work>>
        BY <1>4 DEF FinishTurns
  <2> QED
      BY <1>n, <2>1 DEF CheckedInv, CompletedWorkIsChecked
<1>5. CASE TurnEnds \/ Continue
  <2>1. pc \in {"turn", "check"} /\ pc' \in {"turn", "check"} /\ UNCHANGED node
        BY <1>5 DEF TurnEnds, Continue
  <2> QED
      BY <1>d, <1>n, <2>1
<1>6. CASE Ask \/ PickUp \/ FindNothing \/ ProbeReplies \/ ProbeFails
           \/ RecordAgentReply \/ Resume \/ DeadlinePasses
  <2>1. /\ pc \in {"ask", "poll", "probe", "record", "resume"}
        /\ pc' \in {"poll", "probe", "record", "resume", "reply"} /\ UNCHANGED node
        BY <1>6 DEF Ask, PickUp, FindNothing, ProbeReplies, ProbeFails, RecordAgentReply,
           Resume, DeadlinePasses, Inside
  <2> QED
      BY <1>d, <1>n, <2>1
<1>7. CASE Fails
  <2>1. Fail
        BY <1>7 DEF Fails, TurnFails, GiveUp, FinishFails, Reject, AskFails, TimeOut, ReplyFails
  <2> QED
      BY <1>d, <1>f, <2>1
<1>8. CASE Wait
  <2>1. pc' = "ask" /\ node'.status = "waiting"
        BY <1>8 DEF Wait
  <2> QED
      BY <1>d, <2>1
<1>9. CASE Deliver
  <2>1. /\ pc = "gate" /\ work.heard = 0 /\ pc' = "down" /\ UNCHANGED work
        BY <1>9 DEF Deliver, Complete
  <2> QED
      BY <2>1 DEF CheckedInv, CompletedWorkIsChecked
<1>10. CASE ReplyEnds \/ ReplyAsks
  <2>1. /\ pc = "reply" /\ pc' = "down"
        /\ UNCHANGED work \/ work' = [work EXCEPT !.heard = raised + 1]
        BY <1>10 DEF ReplyEnds, ReplyAsks, Complete
  <2>2. work'.human = work.human
        BY <1>t, <2>1 DEF Work
  <2>3. work.human
        BY <1>p, <2>1 DEF Phase, Asking
  <2> QED
      BY <2>1, <2>2, <2>3 DEF CheckedInv, CompletedWorkIsChecked
<1>11. CASE RecordHitlReply
  <2>1. kind = "hitl" /\ UNCHANGED kind /\ pc' = "down"
        BY <1>11 DEF RecordHitlReply, RecordReply, Complete, Fail
  <2> QED
      BY <2>1 DEF CheckedInv, CompletedWorkIsChecked
<1>12. CASE Crash
  <2>1. pc # "down" /\ pc' = "down" /\ UNCHANGED node
        BY <1>12 DEF Crash
  <2> QED
      BY <1>d, <1>n, <2>1
<1>13. CASE (\E w \in Writer : Accept(w) \/ WriteInbox(w)) \/ RemoteReply
      BY <1>13, <1>e DEF Accept, WriteInbox, RemoteReply, engine
<1>14. CASE AnyStart
  <2>1. \/ node' = [node EXCEPT !.status = "running"] /\ pc' \in {"turn", "poll", "ask"}
        \/ Fail
        BY <1>14 DEF AnyStart, StartTurn, StartWaiting, StartHitlNode, WaitOn
  <2> QED
      BY <1>d, <1>f, <1>t, <2>1 DEF Record
<1> QED
    BY <1>1, <1>2, <1>3, <1>4, <1>5, <1>6, <1>7, <1>8, <1>9, <1>10, <1>11, <1>12, <1>13,
       <1>14 DEF Next, EngineStep, Fails

(* An agent that asked nobody completes only with work that passed its     *)
(* rules in its last turn, however many continuations it takes.            *)
THEOREM UnseenWorkIsChecked == Spec => []CompletedWorkIsChecked
<1>1. OnceInv /\ [Next]_vars => OnceInv' /\ TypeOK'
      BY StepTypes, OnceStep DEF OnceInv
<1>2. Init => CheckedInv
      BY DEF Init, CheckedInv, CompletedWorkIsChecked
<1>3. CheckedInv => CompletedWorkIsChecked
      BY DEF CheckedInv
<1> QED
    BY InitOnce, CheckedStep, <1>1, <1>2, <1>3, PTL DEF Spec

-----------------------------------------------------------------------------
(* Jobs and processes.                                                     *)

JobStages == {"none", "asked", "opening", "working", "verdict", "closing",
              "returned", "threw", "lost", "cut"}
\* What is still to run, and what has registered its callbacks.
Active  == {"opening", "working", "verdict", "closing"}
Locked  == {"working", "verdict", "closing"}
Unbegun == {"none", "asked", "opening"}

Entry == (Job \cup {None}) \X Fact

\* A job that has come to a process.
Opened(j) == at[j] # None

ServiceTypes ==
  /\ up \in [Pid -> {"none", "up", "gone"}] /\ code \in [Pid -> {"none", "0", "1", "2", "143"}]
  /\ killing \in [Pid -> SUBSET Killer]
  /\ todo \in [Pid -> [Killer -> SUBSET (Job \X {"call", "append"})]]
  /\ at \in [Job -> Pid \cup {None}] /\ runOf \in [Job -> Run \cup {None}]
  /\ stage \in [Job -> JobStages]
  /\ state \in [Job -> {"none", "running", "completed", "failed", "aborted"}]
  /\ journal \in [Run -> SUBSET Entry]
  /\ callbacks \in [Pid -> SUBSET Job]
  /\ resumed \subseteq Job /\ settled \subseteq Job

\* A job, its run, its state and its process go together.
JobsPlaced ==
  \A j \in Job :
    /\ stage[j] \in {"none", "asked"} => at[j] = None
    /\ stage[j] = "none" <=> runOf[j] = None
    /\ stage[j] \in Active \cup {"returned", "threw", "cut"} => Opened(j)
    /\ stage[j] \in Active => up[at[j]] = "up"
    /\ stage[j] = "opening" => state[j] = "running"
    /\ stage[j] = "working" => state[j] \in {"running", "failed", "aborted"}
    /\ stage[j] \in {"verdict", "closing", "returned"} => state[j] \in Verdict
    /\ j \in settled => stage[j] \notin Unbegun

\* The lock is that of a job at work.
LockPlaced == lock # None => lock \in Job /\ stage[lock] \in Locked

\* What a process has to call back belongs to it, and to jobs that have begun.
ProcessesPlaced ==
  /\ up[Main] # "none" /\ (watchdog => "watchdog" \notin killing[Main])
  /\ \A p \in Pid :
       /\ \A j \in callbacks[p] : at[j] = p /\ stage[j] \in Locked
       /\ \A k \in Killer : \A h \in todo[p][k] : at[h[1]] = p /\ stage[h[1]] \notin Unbegun
       /\ up[p] = "none" => killing[p] = {} /\ \A j \in Job : at[j] # p
       /\ up[p] # "gone" => code[p] = "none"

PlaceInv == JobsPlaced /\ LockPlaced /\ ProcessesPlaced

Placed == ServiceTypes /\ PlaceInv

\* At the beginning there is one process and no job.
LEMMA InitPlaced == InitService => Placed
<1> SUFFICES ASSUME InitService PROVE Placed
    OBVIOUS
<1> USE PidAssumption
<1>1. ServiceTypes
  <2>1. journal \in [Run -> SUBSET Entry]
    <3>1. {None} \X {"started", "failed"} \in SUBSET Entry
          BY DEF Entry, Fact, Verdict
    <3>2. PICK old \in SUBSET Run :
            journal = [r \in Run |-> IF r \in old THEN {None} \X {"started", "failed"} ELSE {}]
          BY DEF InitService
    <3> QED
        BY <3>1, <3>2
  <2>2. /\ todo \in [Pid -> [Killer -> SUBSET (Job \X {"call", "append"})]]
        /\ up \in [Pid -> {"none", "up", "gone"}]
        /\ code \in [Pid -> {"none", "0", "1", "2", "143"}]
        /\ killing \in [Pid -> SUBSET Killer] /\ callbacks \in [Pid -> SUBSET Job]
        BY DEF InitService
  <2>3. /\ at \in [Job -> Pid \cup {None}] /\ runOf \in [Job -> Run \cup {None}]
        /\ stage \in [Job -> JobStages]
        /\ state \in [Job -> {"none", "running", "completed", "failed", "aborted"}]
        /\ resumed \subseteq Job /\ settled \subseteq Job
        BY DEF InitService, JobStages
  <2> QED
      BY <2>1, <2>2, <2>3 DEF ServiceTypes
<1>2. PlaceInv
  <2>1. \A p \in Pid : JobsOf(p) = {}
        BY DEF InitService, JobsOf
  <2> QED
      BY <2>1 DEF InitService, PlaceInv, JobsPlaced, LockPlaced, ProcessesPlaced, Active, Locked, Unbegun, Opened, Killer
<1> QED
    BY <1>1, <1>2 DEF Placed

-----------------------------------------------------------------------------
(* The kinds of step.                                                      *)

\* A job comes to a process that is up, or that is spawned for it.
Opening(j, r, p) ==
  /\ \/ stage[j] = "none" /\ CanRun(j, r)
     \/ stage[j] = "asked" /\ runOf[j] = r
  /\ up[p] # "gone" /\ up' = [up EXCEPT ![p] = "up"]
  /\ Opens(j, r, p)
  /\ UNCHANGED <<command, code, killing, todo, watchdog, settled>>

\* A server answers for a job that it is going to spawn.
Accepting(j, r) ==
  /\ CanRun(j, r)
  /\ Go(j, "asked") /\ runOf' = [runOf EXCEPT ![j] = r]
  /\ UNCHANGED <<lock, at, resumed, state, journal, callbacks,
                 command, up, code, killing, todo, watchdog, settled>>

\* A process that is up is told to shut down.
Telling(p, k) ==
  /\ up[p] = "up" /\ k \notin killing[p] /\ KillAll(p, k)
  /\ (watchdog' => watchdog) /\ (k = "watchdog" => ~watchdog')
  /\ UNCHANGED <<command, up, code, jobVars, settled>>

\* A job goes on from s1 to s2 in a process that is up.
Running(j, s1, s2) ==
  /\ stage[j] = s1 /\ Go(j, s2) /\ up[at[j]] = "up"
  /\ UNCHANGED <<at, runOf, resumed, command, up, code, killing, todo, watchdog>>

Starting(j)   == /\ Running(j, "opening", "working") /\ lock = None /\ lock' = j
                 /\ callbacks' = [callbacks EXCEPT ![at[j]] = @ \cup {j}]
                 /\ settled' = IF ShutsDown(at[j]) THEN settled ELSE settled \cup {j}
                 /\ Add(j, "started") /\ UNCHANGED state
Refusing(j)   == /\ Running(j, "opening", "threw")
                 /\ UNCHANGED <<lock, callbacks, state, journal, settled>>
Aborting(j)   == /\ Running(j, "working", "working")
                 /\ state' = [state EXCEPT ![j] = "aborted"]
                 /\ UNCHANGED <<lock, callbacks, journal, settled>>
Judging(j, v) == /\ Running(j, "working", "verdict") /\ v \in Verdict
                 /\ state' = [state EXCEPT ![j] = v]
                 /\ v = "completed" /\ ShutsDown(at[j]) => j \in hurried'
                 /\ UNCHANGED <<lock, callbacks, journal, settled>>
Wording(j)    == /\ Running(j, "verdict", "closing") /\ Add(j, state[j])
                 /\ UNCHANGED <<lock, callbacks, state, settled>>
\* The engine closes its run, after a verdict or with an exception.
Closing(j) ==
  /\ UNCHANGED settled
  /\ Closes(j, stage'[j])
  /\ \/ Running(j, "closing", "returned") /\ UNCHANGED <<state, journal>>
     \/ Running(j, "working", "threw") /\ UNCHANGED <<state, journal>>
     \/ /\ Running(j, "working", "threw")
        /\ state' = [state EXCEPT ![j] = "failed"] /\ Add(j, "failed")

\* The two halves of a shutdown callback.
Calling(p, k, j) ==
  /\ up[p] = "up" /\ <<j, "call">> \in todo[p][k] /\ lock' = Released(j)
  /\ \/ /\ state[j] = "running" /\ state' = [state EXCEPT ![j] = "failed"]
        /\ todo' = [todo EXCEPT ![p][k] = (@ \ {<<j, "call">>}) \cup {<<j, "append">>}]
     \/ state[j] # "running" /\ UNCHANGED state /\ Done(p, k, <<j, "call">>)
  /\ UNCHANGED <<stage, at, runOf, resumed, journal, callbacks,
                 command, up, code, killing, watchdog, settled>>
Appending(p, k, j) ==
  /\ up[p] = "up" /\ <<j, "append">> \in todo[p][k]
  /\ Done(p, k, <<j, "append">>) /\ Add(j, "failed")
  /\ UNCHANGED <<lock, stage, at, runOf, resumed, state, callbacks,
                 command, up, code, killing, watchdog, settled>>

\* A process ends, and with which code it may.
Ending(p, c) ==
  /\ Ends(p, c)
  /\ \/ c \in {"1", "2"}
     \/ c = "0" /\ ((p = Main /\ command # "run") \/ \A j \in JobsOf(p) : MayGoOn(j))
     \/ c = "143" /\ \E k \in killing[p] : Awaited(p, k)

Staying == UNCHANGED <<command, up, code, killing, todo, watchdog, jobVars, settled>>

\* Whoever is about to be signalled has come to a process.
ProbedInv == probed # None => probed \in Job /\ Opened(probed)

ServiceStep ==
  \/ Staying
  \/ \E j \in Job, r \in Run : Accepting(j, r) \/ \E p \in Pid : Opening(j, r, p)
  \/ \E p \in Pid, k \in Killer :
       Telling(p, k) \/ \E j \in Job : Calling(p, k, j) \/ Appending(p, k, j)
  \/ \E j \in Job :
       \/ Starting(j) \/ Refusing(j) \/ Aborting(j) \/ Wording(j) \/ Closing(j)
       \/ \E v \in Verdict : Judging(j, v)
  \/ \E p \in Pid, c \in {"0", "1", "2", "143"} : Ending(p, c)

\* Every action of Service is of one of the kinds.
LEMMA KindsOfStep == Placed /\ ProbedInv /\ [ServiceNext]_serviceVars => ServiceStep
<1> SUFFICES ASSUME Placed, ProbedInv, [ServiceNext]_serviceVars PROVE ServiceStep
    OBVIOUS
<1> USE PidAssumption
<1> USE DEF processVars, jobVars, serviceHistory, scaffoldVars
<1>p. /\ up \in [Pid -> {"none", "up", "gone"}] /\ stage \in [Job -> JobStages]
      /\ at \in [Job -> Pid \cup {None}] /\ runOf \in [Job -> Run \cup {None}]
      /\ killing \in [Pid -> SUBSET Killer]
      BY DEF Placed, ServiceTypes
<1>i. \A j \in Job : /\ stage[j] \in {"none", "asked"} => at[j] = None
                     /\ stage[j] \in Active => at[j] \in Pid
                     /\ stage[j] # "none" => runOf[j] \in Run
      BY <1>p DEF Placed, PlaceInv, JobsPlaced, Opened, Active
<1>w. watchdog => "watchdog" \notin killing[Main]
      BY DEF Placed, PlaceInv, ProcessesPlaced
<1>1. CASE UNCHANGED serviceVars
      BY <1>1 DEF serviceVars, ServiceStep, Staying
<1>2. ASSUME NEW j \in Job, NEW r \in Run, StartCycle(j, r) \/ StartInServer(j, r)
      PROVE  ServiceStep
  <2>1. /\ CanRun(j, r) /\ up[Main] = "up" /\ Opens(j, r, Main)
        /\ UNCHANGED <<command, up, code, killing, todo, watchdog, settled>>
        BY <1>2 DEF StartCycle, StartInServer, Serves
  <2>2. stage[j] = "none" /\ up' = [up EXCEPT ![Main] = "up"]
        BY <1>p, <2>1 DEF CanRun
  <2>3. Opening(j, r, Main)
        BY <2>1, <2>2 DEF Opening
  <2> QED
      BY <2>3 DEF ServiceStep
<1>3. ASSUME NEW j \in Job, NEW r \in Run, AskInBackground(j, r) PROVE ServiceStep
  <2>1. Accepting(j, r)
        BY <1>3 DEF AskInBackground, Accepting
  <2> QED
      BY <2>1 DEF ServiceStep
<1>4. ASSUME NEW j \in Job, NEW p \in Pid, SpawnEngine(j, p) PROVE ServiceStep
  <2>1. runOf[j] \in Run /\ Opening(j, runOf[j], p)
        BY <1>4, <1>i DEF SpawnEngine, Opening
  <2> QED
      BY <2>1 DEF ServiceStep
<1>s. ASSUME NEW p \in Pid, up[p] = "up", Signalled(p),
             UNCHANGED <<command, up, code, watchdog, jobVars, settled>>
      PROVE  ServiceStep
  <2>1. CASE "signal" \in killing[p]
        BY <1>s, <2>1 DEF Signalled, ServiceStep, Staying
  <2>2. CASE "signal" \notin killing[p]
    <3>1. Telling(p, "signal")
          BY <1>s, <2>2 DEF Signalled, Telling
    <3> QED
        BY <3>1 DEF ServiceStep, Killer
  <2> QED
      BY <2>1, <2>2
<1>5. ASSUME NEW j \in Job, CancelRun(j) PROVE ServiceStep
  <2>1. at[j] \in Pid
        BY <1>5, <1>p DEF CancelRun, ProbedInv, Opened
  <2>2. UNCHANGED <<command, up, code, watchdog, jobVars, settled>>
        BY <1>5 DEF CancelRun
  <2>3. CASE up[at[j]] = "up"
        BY <1>5, <1>s, <2>1, <2>2, <2>3 DEF CancelRun, HolderPid
  <2>4. CASE up[at[j]] # "up"
        BY <1>5, <2>2, <2>4 DEF CancelRun, HolderPid, ServiceStep, Staying
  <2> QED
      BY <2>3, <2>4
<1>6. CASE Signal
      BY <1>6, <1>s DEF Signal
<1>7. CASE WatchdogFires
  <2>1. Telling(Main, "watchdog")
        BY <1>7, <1>w DEF WatchdogFires, Telling
  <2> QED
      BY <2>1 DEF ServiceStep, Killer
<1>8. ASSUME HostDies \/ InitCommand \/ \E j \in Job : ProbeHolder(j) PROVE ServiceStep
      BY <1>8 DEF HostDies, InitCommand, ProbeHolder, ServiceStep, Staying
<1>9. ASSUME NEW j \in Job, TakeLock(j) PROVE ServiceStep
  <2>1. Starting(j)
        BY <1>9 DEF TakeLock, IsAlive, Starting, Running
  <2> QED
      BY <2>1 DEF ServiceStep
<1>10. ASSUME NEW j \in Job, RefuseLock(j) PROVE ServiceStep
  <2>1. Refusing(j)
        BY <1>10 DEF RefuseLock, IsAlive, Refusing, Running
  <2> QED
      BY <2>1 DEF ServiceStep
<1>11. ASSUME NEW j \in Job, PrepareFails(j) \/ OverBudget(j) \/ CloseJob(j) PROVE ServiceStep
  <2>1. Closing(j)
    <3>1. ASSUME NEW s \in JobStages, Go(j, s) PROVE stage'[j] = s
          BY <1>p, <3>1 DEF Go
    <3>2. CASE PrepareFails(j)
          BY <3>1, <3>2 DEF PrepareFails, IsAlive, Closing, Closes, Running, JobStages
    <3>3. CASE OverBudget(j)
          BY <3>1, <3>3 DEF OverBudget, IsAlive, Closing, Closes, Running, JobStages
    <3>4. CASE CloseJob(j)
          BY <3>1, <3>4 DEF CloseJob, IsAlive, Closing, Closes, Running, JobStages
    <3> QED
        BY <1>11, <3>2, <3>3, <3>4
  <2> QED
      BY <2>1 DEF ServiceStep
<1>a. ASSUME NEW j \in Job, Aborts(j) PROVE ServiceStep
  <2>1. Aborting(j)
        BY <1>p, <1>a DEF Aborts, IsAlive, Aborting, Running, Go
  <2> QED
      BY <2>1 DEF ServiceStep
<1>12. ASSUME NEW j \in Job, NEW b \in BOOLEAN, GraphEnds(j, b) PROVE ServiceStep
  <2>1. FinalState(j, b) \in Verdict /\ (FinalState(j, b) = "completed" => b)
        BY DEF FinalState, Verdict
  <2>2. Judging(j, FinalState(j, b))
        BY <1>12, <2>1 DEF GraphEnds, IsAlive, Judging, Running
  <2> QED
      BY <2>1, <2>2 DEF ServiceStep
<1>13. ASSUME NEW j \in Job, RecordVerdict(j) PROVE ServiceStep
  <2>1. Wording(j)
        BY <1>13 DEF RecordVerdict, IsAlive, Wording, Running
  <2> QED
      BY <2>1 DEF ServiceStep
<1>e. ASSUME NEW p \in Pid, NEW c \in {"0", "1", "2", "143"}, Ending(p, c) PROVE ServiceStep
      BY <1>e DEF ServiceStep
<1>14. ASSUME NEW p \in Pid, RunExit(p) PROVE ServiceStep
  <2>1. \E c \in {"0", "1", "2"} : Ends(p, c) /\ (c = "0" => \A j \in JobsOf(p) : MayGoOn(j))
        BY <1>14 DEF RunExit
  <2> QED
      BY <2>1, <1>e DEF Ending
<1>15. CASE InitExit
  <2>1. \E c \in {"0", "1"} : Ends(Main, c) /\ command # "run"
        BY <1>15 DEF InitExit
  <2> QED
      BY <2>1, <1>e DEF Ending
<1>16. CASE StdinCloses
  <2>1. Ends(Main, "0") /\ command # "run"
        BY <1>16 DEF StdinCloses
  <2> QED
      BY <2>1, <1>e DEF Ending
<1>17. ASSUME NEW p \in Pid, ShutdownOf(p) PROVE ServiceStep
  <2>1. PICK k \in Killer : \/ KillerExits(p, k)
                            \/ \E j \in Job : CallBack(p, k, j) \/ CallAppend(p, k, j)
        BY <1>17 DEF ShutdownOf
  <2>2. CASE KillerExits(p, k)
    <3>1. Ending(p, "143")
          BY <2>2 DEF KillerExits, Ending
    <3> QED
        BY <3>1, <1>e
  <2>3. ASSUME NEW j \in Job, CallBack(p, k, j) PROVE ServiceStep
    <3>1. Calling(p, k, j)
          BY <2>3 DEF CallBack, StillRuns, Calling
    <3> QED
        BY <3>1 DEF ServiceStep
  <2>4. ASSUME NEW j \in Job, CallAppend(p, k, j) PROVE ServiceStep
    <3>1. Appending(p, k, j)
          BY <2>4 DEF CallAppend, Appending
    <3> QED
        BY <3>1 DEF ServiceStep
  <2> QED
      BY <2>1, <2>2, <2>3, <2>4
<1> QED
  BY <1>1, <1>2, <1>3, <1>4, <1>5, <1>6, <1>7, <1>8, <1>9, <1>10, <1>11, <1>12, <1>13,
     <1>14, <1>15, <1>16, <1>17, <1>a DEF ServiceNext

-----------------------------------------------------------------------------
(* What each kind does.                                                    *)

\* A record more in the journal of a run.
LEMMA AddOne ==
  ASSUME ServiceTypes, NEW j \in Job, runOf[j] \in Run, NEW v \in Fact, Add(j, v)
  PROVE  /\ journal' \in [Run -> SUBSET Entry]
         /\ \A r \in Run : r # runOf[j] => journal'[r] = journal[r]
         /\ journal'[runOf[j]] = journal[runOf[j]] \cup {<<j, v>>}
BY DEF Add, ServiceTypes, Entry

\* One job changes its stage.
LEMMA GoesOn ==
  ASSUME ServiceTypes, NEW j \in Job, NEW s \in JobStages, Go(j, s)
  PROVE  /\ stage' \in [Job -> JobStages] /\ stage'[j] = s
         /\ \A i \in Job : i # j => stage'[i] = stage[i]
BY DEF ServiceTypes, Go

\* A job that runs is in a process and has a run.
LEMMA IsPlaced ==
  ASSUME Placed, NEW j \in Job, stage[j] \in Active
  PROVE  at[j] \in Pid /\ runOf[j] \in Run /\ up[at[j]] = "up"
BY DEF Placed, PlaceInv, JobsPlaced, ServiceTypes, Opened, Active

\* So is one that a process is to call back.
LEMMA HasBegun ==
  ASSUME Placed, NEW p \in Pid
  PROVE  /\ \A j \in callbacks[p] : j \in Job /\ at[j] = p /\ stage[j] \in Locked
         /\ \A k \in Killer : \A h \in todo[p][k] :
              /\ h \in Job \X {"call", "append"} /\ h[1] \in Job
              /\ at[h[1]] = p /\ stage[h[1]] \notin Unbegun /\ runOf[h[1]] \in Run
<1>1. \A j \in callbacks[p] : j \in Job /\ at[j] = p /\ stage[j] \in Locked
      BY DEF Placed, ServiceTypes, PlaceInv, ProcessesPlaced
<1>2. ASSUME NEW k \in Killer, NEW h \in todo[p][k]
      PROVE  /\ h \in Job \X {"call", "append"} /\ h[1] \in Job
             /\ at[h[1]] = p /\ stage[h[1]] \notin Unbegun
  <2>1. h \in Job \X {"call", "append"}
        BY DEF Placed, ServiceTypes
  <2> QED
      BY <2>1 DEF Placed, PlaceInv, ProcessesPlaced
<1>3. \A j \in Job : stage[j] \notin Unbegun => runOf[j] \in Run
      BY DEF Placed, PlaceInv, JobsPlaced, ServiceTypes, Unbegun
<1> QED
    BY <1>1, <1>2, <1>3

-----------------------------------------------------------------------------
(* Every step keeps things in their place.                                 *)

\* A job that comes to a process.
LEMMA OpeningPlaced ==
  ASSUME Placed, NEW j \in Job, NEW r \in Run, NEW p \in Pid, Opening(j, r, p)
  PROVE  Placed'
<1> USE PidAssumption
<1>1. /\ stage' \in [Job -> JobStages] /\ stage'[j] = "opening"
      /\ \A i \in Job : i # j => stage'[i] = stage[i]
      BY GoesOn DEF Placed, Opening, Opens, JobStages
<1>2. /\ at' \in [Job -> Pid \cup {None}] /\ at'[j] = p
      /\ runOf' \in [Job -> Run \cup {None}] /\ runOf'[j] = r
      /\ state' \in [Job -> {"none", "running", "completed", "failed", "aborted"}] /\ state'[j] = "running"
      /\ \A i \in Job : i # j => at'[i] = at[i] /\ runOf'[i] = runOf[i] /\ state'[i] = state[i]
      BY DEF Placed, ServiceTypes, Opening, Opens
<1>3. /\ up' \in [Pid -> {"none", "up", "gone"}] /\ up'[p] = "up" /\ up[p] # "gone"
      /\ \A q \in Pid : q # p => up'[q] = up[q]
      /\ resumed' \subseteq Job
      BY DEF Placed, ServiceTypes, Opening, Opens
<1>4. /\ stage[j] \in {"none", "asked"}
      /\ UNCHANGED <<lock, journal, callbacks, code, killing, todo, watchdog, settled>>
      BY DEF Opening, Opens
<1>5. ServiceTypes'
      BY <1>1, <1>2, <1>3, <1>4 DEF Placed, ServiceTypes
<1>6. JobsPlaced'
      BY <1>1, <1>2, <1>3, <1>4 DEF Placed, ServiceTypes, PlaceInv, JobsPlaced, Opened, Active, Unbegun
<1>7. LockPlaced'
      BY <1>1, <1>4 DEF Placed, PlaceInv, LockPlaced, Locked
<1>8. ProcessesPlaced'
  <2>1. ASSUME NEW q \in Pid
        PROVE  /\ \A i \in callbacks[q] : i \in Job /\ i # j
               /\ \A k \in Killer : \A h \in todo[q][k] : h[1] \in Job /\ h[1] # j
        BY <1>4, HasBegun DEF Locked, Unbegun
  <2>2. up'[Main] # "none"
        BY <1>3 DEF Placed, PlaceInv, ProcessesPlaced
  <2> QED
      BY <1>1, <1>2, <1>3, <1>4, <2>1, <2>2 DEF Placed, PlaceInv, ProcessesPlaced
<1> QED
    BY <1>5, <1>6, <1>7, <1>8 DEF Placed, PlaceInv

\* A job that is to come.
LEMMA AcceptingPlaced ==
  ASSUME Placed, NEW j \in Job, NEW r \in Run, Accepting(j, r)
  PROVE  Placed'
<1> USE PidAssumption
<1>1. /\ stage' \in [Job -> JobStages] /\ stage'[j] = "asked" /\ stage[j] = "none"
      /\ \A i \in Job : i # j => stage'[i] = stage[i]
      BY GoesOn DEF Placed, Accepting, CanRun, JobStages
<1>2. /\ runOf' \in [Job -> Run \cup {None}] /\ runOf'[j] = r
      /\ \A i \in Job : i # j => runOf'[i] = runOf[i]
      /\ UNCHANGED <<lock, at, resumed, state, journal, callbacks,
                     up, code, killing, todo, watchdog, settled>>
      BY DEF Placed, ServiceTypes, Accepting
<1>3. ServiceTypes'
      BY <1>1, <1>2 DEF Placed, ServiceTypes
<1>4. JobsPlaced'
      BY <1>1, <1>2 DEF Placed, PlaceInv, JobsPlaced, Opened, Active, Unbegun
<1>5. LockPlaced'
      BY <1>1, <1>2 DEF Placed, PlaceInv, LockPlaced, Locked
<1>6. ProcessesPlaced'
  <2>1. ASSUME NEW q \in Pid
        PROVE  /\ \A i \in callbacks[q] : i \in Job /\ i # j
               /\ \A k \in Killer : \A h \in todo[q][k] : h[1] \in Job /\ h[1] # j
        BY <1>1, HasBegun DEF Locked, Unbegun
  <2> QED
      BY <1>1, <1>2, <2>1 DEF Placed, PlaceInv, ProcessesPlaced
<1> QED
    BY <1>3, <1>4, <1>5, <1>6 DEF Placed, PlaceInv

\* A process that begins to shut down.
LEMMA TellingPlaced ==
  ASSUME Placed, NEW p \in Pid, NEW k \in Killer, Telling(p, k)
  PROVE  Placed'
<1> USE DEF jobVars
<1>1. /\ killing' \in [Pid -> SUBSET Killer] /\ killing'[p] = killing[p] \cup {k}
      /\ \A q \in Pid : q # p => killing'[q] = killing[q]
      BY DEF Placed, ServiceTypes, Telling, KillAll
<1>2. /\ todo' \in [Pid -> [Killer -> SUBSET (Job \X {"call", "append"})]]
      /\ todo'[p][k] = {<<j, "call">> : j \in callbacks[p]}
      /\ \A q \in Pid, l \in Killer : q # p \/ l # k => todo'[q][l] = todo[q][l]
      BY DEF Placed, ServiceTypes, Telling, KillAll
<1>3. /\ up[p] = "up" /\ (watchdog' => watchdog) /\ (k = "watchdog" => ~watchdog')
      /\ UNCHANGED <<up, code, lock, stage, at, runOf, resumed, state, journal, callbacks, settled>>
      BY DEF Telling
<1>4. ServiceTypes'
      BY <1>1, <1>2, <1>3 DEF Placed, ServiceTypes
<1>5. JobsPlaced' /\ LockPlaced'
      BY <1>3 DEF Placed, PlaceInv, JobsPlaced, LockPlaced, Opened
<1>6. ProcessesPlaced'
  <2>1. watchdog' => "watchdog" \notin killing'[Main]
    <3>1. watchdog => "watchdog" \notin killing[Main]
          BY DEF Placed, PlaceInv, ProcessesPlaced
    <3>2. k # "watchdog" => killing'[Main] \subseteq killing[Main] \cup {"signal"}
          BY <1>1, PidAssumption DEF Killer
    <3>3. k # "watchdog" /\ "watchdog" \notin killing[Main] => "watchdog" \notin killing'[Main]
          BY <3>2
    <3> QED
        BY <1>3, <3>1, <3>3
  <2>2. ASSUME NEW q \in Pid, NEW l \in Killer, NEW h \in todo'[q][l]
        PROVE  at[h[1]] = q /\ stage[h[1]] \notin Unbegun
    <3>1. CASE q = p /\ l = k
      <4>1. PICK j \in callbacks[p] : h = <<j, "call">>
            BY <1>2, <2>2, <3>1
      <4>2. h[1] = j
            BY <4>1
      <4> QED
          BY <3>1, <4>2 DEF Placed, PlaceInv, ProcessesPlaced, Locked, Unbegun
    <3>2. CASE q # p \/ l # k
          BY <1>2, <2>2, <3>2, HasBegun
    <3> QED
        BY <3>1, <3>2
  <2> QED
      BY <1>1, <1>3, <2>1, <2>2 DEF Placed, PlaceInv, ProcessesPlaced
<1> QED
    BY <1>4, <1>5, <1>6 DEF Placed, PlaceInv

\* A job that goes on, and nothing but its stage, its state, the lock, the callbacks
\* of its process and the journal change.
LEMMA RunningPlaced ==
  ASSUME Placed, NEW j \in Job, NEW s1 \in Active, NEW s2 \in JobStages \ {"none", "asked", "opening"},
         Running(j, s1, s2), journal' \in [Run -> SUBSET Entry],
         callbacks' \in [Pid -> SUBSET Job], settled' \subseteq Job,
         \A p \in Pid : \A i \in callbacks'[p] :
            (i \in callbacks[p] /\ i # j) \/ (i = j /\ p = at[j] /\ s2 \in Locked),
         settled' \subseteq settled \cup {j},
         state' \in [Job -> {"none", "running", "completed", "failed", "aborted"}],
         \A i \in Job : i # j => state'[i] = state[i],
         s2 = "working" => state'[j] \in {"running", "failed", "aborted"},
         s2 \in {"verdict", "closing", "returned"} => state'[j] \in Verdict,
         lock' # None => (lock' = lock /\ lock # j) \/ (lock' = j /\ s2 \in Locked)
  PROVE  Placed'
<1>1. /\ stage' \in [Job -> JobStages] /\ stage'[j] = s2 /\ stage[j] = s1
      /\ \A i \in Job : i # j => stage'[i] = stage[i]
      BY GoesOn DEF Placed, Running
<1>2. UNCHANGED <<at, runOf, resumed, up, code, killing, todo, watchdog>>
      BY DEF Running
<1>3. at[j] \in Pid /\ runOf[j] \in Run /\ up[at[j]] = "up"
      BY <1>1, IsPlaced
<1>4. ServiceTypes'
      BY <1>1, <1>2 DEF Placed, ServiceTypes
<1>5. JobsPlaced'
  <2> SUFFICES ASSUME NEW i \in Job
               PROVE  /\ stage'[i] \in {"none", "asked"} => at[i] = None
                      /\ stage'[i] = "none" <=> runOf[i] = None
                      /\ stage'[i] \in Active \cup {"returned", "threw", "cut"} => at[i] # None
                      /\ stage'[i] \in Active => up[at[i]] = "up"
                      /\ stage'[i] = "opening" => state'[i] = "running"
                      /\ stage'[i] = "working" => state'[i] \in {"running", "failed", "aborted"}
                      /\ stage'[i] \in {"verdict", "closing", "returned"}
                           => state'[i] \in Verdict
                      /\ i \in settled' => stage'[i] \notin Unbegun
      BY <1>2 DEF JobsPlaced, Opened
  <2>1. CASE i = j
        BY <1>1, <1>3, <2>1, PidAssumption DEF Unbegun
  <2>2. CASE i # j
        BY <1>1, <2>2 DEF Placed, PlaceInv, JobsPlaced, Opened
  <2> QED
      BY <2>1, <2>2
<1>6. LockPlaced'
      BY <1>1 DEF Placed, PlaceInv, LockPlaced
<1>7. ProcessesPlaced'
  <2>1. ASSUME NEW p \in Pid, NEW i \in callbacks'[p]
        PROVE  at[i] = p /\ stage'[i] \in Locked
    <3>1. CASE i \in callbacks[p] /\ i # j
          BY <1>1, <3>1, HasBegun
    <3>2. CASE i = j /\ p = at[j] /\ s2 \in Locked
          BY <1>1, <3>2
    <3> QED
        BY <2>1, <3>1, <3>2
  <2>2. ASSUME NEW p \in Pid, NEW k \in Killer, NEW h \in todo[p][k]
        PROVE  at[h[1]] = p /\ stage'[h[1]] \notin Unbegun
    <3>1. h[1] \in Job /\ at[h[1]] = p /\ stage[h[1]] \notin Unbegun
          BY HasBegun
    <3> QED
        BY <1>1, <3>1 DEF Unbegun
  <2> QED
      BY <1>2, <2>1, <2>2 DEF Placed, PlaceInv, ProcessesPlaced
<1> QED
    BY <1>4, <1>5, <1>6, <1>7 DEF Placed, PlaceInv

\* The steps of a job in its process.
LEMMA JobPlaced ==
  ASSUME Placed, NEW j \in Job,
         \/ Starting(j) \/ Refusing(j) \/ Aborting(j) \/ Wording(j) \/ Closing(j)
         \/ \E v \in Verdict : Judging(j, v)
  PROVE  Placed'
<1>t. /\ journal \in [Run -> SUBSET Entry] /\ callbacks \in [Pid -> SUBSET Job] /\ settled \subseteq Job
      /\ state \in [Job -> {"none", "running", "completed", "failed", "aborted"}] /\ j # None
      BY PidAssumption DEF Placed, ServiceTypes
<1>s. \A p \in Pid : callbacks[p] \subseteq Job /\ \A i \in callbacks[p] : at[i] = p /\ stage[i] \in Locked
      BY HasBegun
<1>l. lock # None => lock \in Job /\ stage[lock] \in Locked
      BY DEF Placed, PlaceInv, LockPlaced
<1>p. stage[j] = "working" => state[j] \in {"running", "failed", "aborted"}
      BY DEF Placed, PlaceInv, JobsPlaced
<1>q. stage[j] \in {"verdict", "closing"} => state[j] \in Verdict
      BY DEF Placed, PlaceInv, JobsPlaced
<1>o. stage[j] = "opening" => state[j] = "running"
      BY DEF Placed, PlaceInv, JobsPlaced
<1>c. \A p \in Pid : \A i \in callbacks[p] : (i \in callbacks[p] /\ i # j) \/ (i = j /\ p = at[j])
      BY <1>s
<1>1. CASE Starting(j)
  <2>1. /\ Running(j, "opening", "working") /\ lock' = j /\ state' = state
        /\ callbacks' = [callbacks EXCEPT ![at[j]] = @ \cup {j}]
        /\ settled' \subseteq settled \cup {j}
        /\ Add(j, "started") /\ stage[j] = "opening"
        BY <1>1 DEF Starting, Running
  <2>2. runOf[j] \in Run /\ at[j] \in Pid
        BY <2>1, IsPlaced DEF Active
  <2>3. journal' \in [Run -> SUBSET Entry]
        BY <2>1, <2>2, AddOne DEF Placed, Fact
  <2>4. /\ callbacks' \in [Pid -> SUBSET Job]
        /\ \A p \in Pid : \A i \in callbacks'[p] :
             i \in callbacks[p] \/ (i = j /\ p = at[j])
        BY <1>t, <2>1, <2>2
  <2>5. \A p \in Pid : j \notin callbacks[p]
        BY <1>s, <2>1 DEF Locked
  <2>6. \A p \in Pid : \A i \in callbacks'[p] :
           (i \in callbacks[p] /\ i # j) \/ (i = j /\ p = at[j] /\ "working" \in Locked)
        BY <2>4, <2>5 DEF Locked
  <2>7. state'[j] = "running" /\ settled' \subseteq Job
        BY <1>o, <1>t, <2>1
  <2>8. "opening" \in Active /\ "working" \in JobStages \ {"none", "asked", "opening"}
        BY DEF Active, JobStages
  <2> HIDE DEF Add
  <2> QED
      BY <1>t, <2>1, <2>3, <2>4, <2>6, <2>7, <2>8, RunningPlaced DEF Locked
<1>2. CASE Refusing(j)
  <2>1. Running(j, "opening", "threw") /\ stage[j] = "opening"
        /\ UNCHANGED <<lock, callbacks, state, journal, settled>>
        BY <1>2 DEF Refusing, Running
  <2>2. (\A p \in Pid : j \notin callbacks[p]) /\ lock # j
        BY <1>l, <1>t, <1>s, <2>1 DEF Locked
  <2> QED
      BY <1>t, <2>1, <2>2, RunningPlaced DEF Active, Locked, JobStages
<1>3. CASE Wording(j)
  <2>1. Running(j, "verdict", "closing") /\ stage[j] = "verdict" /\ Add(j, state[j])
        /\ UNCHANGED <<lock, callbacks, state, settled>>
        BY <1>3 DEF Wording, Running
  <2>2. journal' \in [Run -> SUBSET Entry]
        BY <1>q, <2>1, IsPlaced, AddOne DEF Placed, Fact, Active
  <2> QED
      BY <1>q, <1>t, <1>c, <2>1, <2>2, RunningPlaced DEF Active, Locked, JobStages
<1>4. ASSUME NEW v \in Verdict, Judging(j, v) PROVE Placed'
  <2>1. Running(j, "working", "verdict") /\ stage[j] = "working"
        /\ state' = [state EXCEPT ![j] = v]
        /\ UNCHANGED <<lock, callbacks, journal, settled>>
        BY <1>4 DEF Judging, Running
  <2>2. /\ state' \in [Job -> {"none", "running", "completed", "failed", "aborted"}]
        /\ state'[j] = v /\ \A i \in Job : i # j => state'[i] = state[i]
        BY <1>t, <2>1 DEF Verdict
  <2> QED
      BY <1>t, <1>c, <2>1, <2>2, RunningPlaced DEF Active, Locked, JobStages
<1>6. CASE Aborting(j)
  <2>1. Running(j, "working", "working") /\ stage[j] = "working"
        /\ state' = [state EXCEPT ![j] = "aborted"]
        /\ UNCHANGED <<lock, callbacks, journal, settled>>
        BY <1>6 DEF Aborting, Running
  <2>2. /\ state' \in [Job -> {"none", "running", "completed", "failed", "aborted"}]
        /\ state'[j] = "aborted" /\ \A i \in Job : i # j => state'[i] = state[i]
        BY <1>t, <2>1
  <2> QED
      BY <1>t, <1>c, <2>1, <2>2, RunningPlaced DEF Active, Locked, JobStages
<1>5. CASE Closing(j)
  <2>1. PICK s1 \in {"working", "closing"}, s2 \in {"threw", "returned"} :
          /\ Running(j, s1, s2) /\ stage[j] = s1 /\ (s2 = "returned" <=> s1 = "closing")
          /\ \/ UNCHANGED <<state, journal>>
             \/ s2 = "threw" /\ state' = [state EXCEPT ![j] = "failed"] /\ Add(j, "failed")
        BY <1>5 DEF Closing, Running
  <2>2. /\ settled' = settled /\ lock' = Released(j)
        /\ callbacks' = [callbacks EXCEPT ![at[j]] = @ \ {j}]
        BY <1>5 DEF Closing, Closes
  <2>3. at[j] \in Pid /\ runOf[j] \in Run
        BY <2>1, IsPlaced DEF Active
  <2>4. journal' \in [Run -> SUBSET Entry]
        BY <1>t, <2>1, <2>3, AddOne DEF Placed, Fact, Verdict
  <2>5. /\ state' \in [Job -> {"none", "running", "completed", "failed", "aborted"}]
        /\ \A i \in Job : i # j => state'[i] = state[i]
        /\ s2 = "returned" => state'[j] \in Verdict
        BY <1>q, <1>t, <2>1
  <2>6. /\ callbacks' \in [Pid -> SUBSET Job]
        /\ \A p \in Pid : \A i \in callbacks'[p] : i \in callbacks[p] /\ i # j
        BY <1>s, <1>t, <2>2, <2>3
  <2>7. lock' # None => lock' = lock /\ lock # j
        BY <2>2 DEF Released
  <2> QED
      BY <1>t, <2>1, <2>2, <2>4, <2>5, <2>6, <2>7, RunningPlaced DEF Active, Locked, JobStages
<1> QED
    BY <1>1, <1>2, <1>3, <1>4, <1>5, <1>6

\* The halves of a callback.
LEMMA CallbackPlaced ==
  ASSUME Placed, NEW p \in Pid, NEW k \in Killer, NEW j \in Job,
         Calling(p, k, j) \/ Appending(p, k, j)
  PROVE  Placed'
<1>1. /\ \A h \in todo[p][k] : h \in Job \X {"call", "append"}
      /\ <<j, "call">> \in todo[p][k] \/ <<j, "append">> \in todo[p][k]
      BY HasBegun DEF Calling, Appending
<1>2. at[j] = p /\ stage[j] \notin Unbegun /\ runOf[j] \in Run
  <2>1. PICK h \in todo[p][k] : h[1] = j
        BY <1>1
  <2> QED
      BY <2>1, HasBegun
<1>3. PICK new \in SUBSET (Job \X {"call", "append"}) :
        /\ todo' = [todo EXCEPT ![p][k] = new]
        /\ \A h \in new : h \in todo[p][k] \/ h = <<j, "append">>
  <2>1. /\ (todo[p][k] \ {<<j, "call">>}) \cup {<<j, "append">>} \in SUBSET (Job \X {"call", "append"})
        /\ todo[p][k] \ {<<j, "call">>} \in SUBSET (Job \X {"call", "append"})
        /\ todo[p][k] \ {<<j, "append">>} \in SUBSET (Job \X {"call", "append"})
        BY <1>1
  <2> QED
      BY <2>1 DEF Calling, Appending, Done
<1>4. /\ todo' \in [Pid -> [Killer -> SUBSET (Job \X {"call", "append"})]]
      /\ todo'[p][k] = new
      /\ \A q \in Pid, l \in Killer : q # p \/ l # k => todo'[q][l] = todo[q][l]
      BY <1>3 DEF Placed, ServiceTypes
<1>5. /\ UNCHANGED <<stage, at, runOf, resumed, callbacks, up, code, killing, watchdog, settled>>
      /\ lock' = lock \/ lock' = None
      BY DEF Calling, Appending, Released
<1>6. journal' \in [Run -> SUBSET Entry]
      BY <1>2, AddOne DEF Calling, Appending, Placed, ServiceTypes, Fact, Verdict
<1>7. /\ state' \in [Job -> {"none", "running", "completed", "failed", "aborted"}]
      /\ \A i \in Job : state'[i] = state[i] \/ (state[i] = "running" /\ state'[i] = "failed" /\ i = j)
      BY DEF Placed, ServiceTypes, Calling, Appending
<1>8. ServiceTypes'
      BY <1>4, <1>5, <1>6, <1>7 DEF Placed, ServiceTypes
<1>9. JobsPlaced'
  <2>1. \A i \in Job : stage[i] = "opening" => state'[i] = "running"
        BY <1>2, <1>7 DEF Placed, PlaceInv, JobsPlaced, Unbegun
  <2> QED
      BY <1>5, <1>7, <2>1 DEF Placed, PlaceInv, JobsPlaced, Opened, Verdict
<1>10. LockPlaced'
      BY <1>5 DEF Placed, PlaceInv, LockPlaced
<1>11. ProcessesPlaced'
  <2>1. ASSUME NEW q \in Pid, NEW l \in Killer, NEW h \in todo'[q][l]
        PROVE  at[h[1]] = q /\ stage[h[1]] \notin Unbegun
    <3>1. CASE q = p /\ l = k
      <4>1. h \in todo[p][k] \/ h = <<j, "append">>
            BY <1>3, <1>4, <2>1, <3>1
      <4>2. <<j, "append">>[1] = j
            OBVIOUS
      <4> QED
          BY <1>2, <3>1, <4>1, <4>2, HasBegun
    <3>2. CASE q # p \/ l # k
          BY <1>4, <2>1, <3>2, HasBegun
    <3> QED
        BY <3>1, <3>2
  <2> QED
      BY <1>5, <2>1 DEF Placed, PlaceInv, ProcessesPlaced
<1> QED
    BY <1>8, <1>9, <1>10, <1>11 DEF Placed, PlaceInv

\* What the end of a process does to its jobs.
LEMMA EndDoes ==
  ASSUME Placed, NEW p \in Pid, NEW c \in {"0", "1", "2", "143"}, Ends(p, c)
  PROVE  /\ up[p] = "up" /\ up' \in [Pid -> {"none", "up", "gone"}]
         /\ up'[p] = "gone" /\ \A q \in Pid : q # p => up'[q] = up[q]
         /\ code' \in [Pid -> {"none", "0", "1", "2", "143"}]
         /\ code'[p] = c /\ \A q \in Pid : q # p => code'[q] = code[q]
         /\ todo' \in [Pid -> [Killer -> SUBSET (Job \X {"call", "append"})]]
         /\ \A k \in Killer : todo'[p][k] = {}
         /\ \A q \in Pid : q # p => todo'[q] = todo[q]
         /\ callbacks' \in [Pid -> SUBSET Job]
         /\ callbacks'[p] = {} /\ \A q \in Pid : q # p => callbacks'[q] = callbacks[q]
         /\ stage' \in [Job -> JobStages]
         /\ \A j \in Job :
              \/ stage'[j] = stage[j] /\ (at[j] # p \/ Over(j))
              \/ at[j] = p /\ stage[j] = "verdict" /\ stage'[j] = "cut"
              \/ at[j] = p /\ stage[j] \notin {"none", "asked", "verdict"} /\ ~Over(j)
                   /\ stage'[j] = "lost"
              \/ at[j] # p /\ stage[j] = "asked" /\ stage'[j] = "lost"
         /\ UNCHANGED <<command, killing, watchdog, at, runOf, resumed, state, journal, settled>>
<1>1. /\ up[p] = "up" /\ up' = [up EXCEPT ![p] = "gone"] /\ code' = [code EXCEPT ![p] = c]
      /\ todo' = [todo EXCEPT ![p] = [k \in Killer |-> {}]]
      /\ callbacks' = [callbacks EXCEPT ![p] = {}]
      /\ UNCHANGED <<command, killing, watchdog, at, runOf, resumed, state, journal, settled>>
      BY DEF Ends, serviceHistory
<1>2. /\ up' \in [Pid -> {"none", "up", "gone"}]
      /\ up'[p] = "gone" /\ \A q \in Pid : q # p => up'[q] = up[q]
      /\ code' \in [Pid -> {"none", "0", "1", "2", "143"}]
      /\ code'[p] = c /\ \A q \in Pid : q # p => code'[q] = code[q]
      /\ callbacks' \in [Pid -> SUBSET Job]
      /\ callbacks'[p] = {} /\ \A q \in Pid : q # p => callbacks'[q] = callbacks[q]
      BY <1>1 DEF Placed, ServiceTypes
<1>3. /\ todo' \in [Pid -> [Killer -> SUBSET (Job \X {"call", "append"})]]
      /\ \A k \in Killer : todo'[p][k] = {}
      /\ \A q \in Pid : q # p => todo'[q] = todo[q]
      BY <1>1 DEF Placed, ServiceTypes
<1>4. stage' = [j \in Job |->
                  IF at[j] = p /\ stage[j] = "verdict" THEN "cut"
                  ELSE IF (at[j] = p /\ ~Over(j)) \/ (p = Main /\ stage[j] = "asked")
                  THEN "lost" ELSE stage[j]]
      BY DEF Ends
<1>5. stage \in [Job -> JobStages] /\ stage' \in [Job -> JobStages]
      BY <1>4 DEF Placed, ServiceTypes, JobStages
<1>6. ASSUME NEW j \in Job
      PROVE  \/ stage'[j] = stage[j] /\ (at[j] # p \/ Over(j))
             \/ at[j] = p /\ stage[j] = "verdict" /\ stage'[j] = "cut"
             \/ at[j] = p /\ stage[j] \notin {"none", "asked", "verdict"} /\ ~Over(j)
                  /\ stage'[j] = "lost"
             \/ at[j] # p /\ stage[j] = "asked" /\ stage'[j] = "lost"
  <2>1. stage[j] \in {"none", "asked"} => at[j] = None
        BY DEF Placed, PlaceInv, JobsPlaced
  <2>2. stage'[j] = IF at[j] = p /\ stage[j] = "verdict" THEN "cut"
                    ELSE IF (at[j] = p /\ ~Over(j)) \/ (p = Main /\ stage[j] = "asked")
                    THEN "lost" ELSE stage[j]
        BY <1>4
  <2>3. p # None
        BY PidAssumption
  <2> QED
      BY <2>1, <2>2, <2>3 DEF Over
<1> QED
    BY <1>1, <1>2, <1>3, <1>5, <1>6

\* A process that ends, with all its jobs.
LEMMA EndingPlaced ==
  ASSUME Placed, NEW p \in Pid, NEW c \in {"0", "1", "2", "143"}, Ending(p, c)
  PROVE  Placed'
<1>1. Ends(p, c)
      BY DEF Ending
<1>2. /\ UNCHANGED <<killing, watchdog, at, runOf, resumed, state, journal, settled>>
      /\ up[p] = "up" /\ up'[p] = "gone" /\ \A q \in Pid : q # p => up'[q] = up[q]
      /\ \A q \in Pid : q # p => code'[q] = code[q]
      /\ \A k \in Killer : todo'[p][k] = {}
      /\ \A q \in Pid : q # p => todo'[q] = todo[q]
      /\ callbacks'[p] = {} /\ \A q \in Pid : q # p => callbacks'[q] = callbacks[q]
      BY <1>1, EndDoes DEF Killer
<1>3. \A j \in Job :
        \/ stage'[j] = stage[j] /\ (at[j] # p \/ Over(j))
        \/ at[j] = p /\ stage[j] = "verdict" /\ stage'[j] = "cut"
        \/ at[j] = p /\ stage[j] \notin {"none", "asked", "verdict"} /\ ~Over(j) /\ stage'[j] = "lost"
        \/ at[j] # p /\ stage[j] = "asked" /\ stage'[j] = "lost"
      BY <1>1, EndDoes
<1>4. ServiceTypes'
  <2>1. /\ up' \in [Pid -> {"none", "up", "gone"}] /\ code' \in [Pid -> {"none", "0", "1", "2", "143"}]
        /\ todo' \in [Pid -> [Killer -> SUBSET (Job \X {"call", "append"})]]
        /\ callbacks' \in [Pid -> SUBSET Job] /\ stage' \in [Job -> JobStages]
        BY <1>1, EndDoes
  <2> QED
      BY <1>2, <2>1 DEF Placed, ServiceTypes
<1>5. JobsPlaced'
  <2> SUFFICES ASSUME NEW i \in Job
               PROVE  /\ stage'[i] \in {"none", "asked"} => at[i] = None
                      /\ stage'[i] = "none" <=> runOf[i] = None
                      /\ stage'[i] \in Active \cup {"returned", "threw", "cut"} => at[i] # None
                      /\ stage'[i] \in Active => up'[at[i]] = "up"
                      /\ stage'[i] = "opening" => state[i] = "running"
                      /\ stage'[i] = "working" => state[i] \in {"running", "failed", "aborted"}
                      /\ stage'[i] \in {"verdict", "closing", "returned"}
                           => state[i] \in Verdict
                      /\ i \in settled => stage'[i] \notin Unbegun
      BY <1>2 DEF JobsPlaced, Opened
  <2>1. /\ stage[i] \in {"none", "asked"} => at[i] = None
        /\ stage[i] = "none" <=> runOf[i] = None
        /\ stage[i] \in Active \cup {"returned", "threw", "cut"} => at[i] # None
        /\ stage[i] \in Active => up[at[i]] = "up"
        /\ stage[i] = "opening" => state[i] = "running"
        /\ stage[i] = "working" => state[i] \in {"running", "failed", "aborted"}
        /\ stage[i] \in {"verdict", "closing", "returned"} => state[i] \in Verdict
        /\ i \in settled => stage[i] \notin Unbegun
        /\ at[i] \in Pid \cup {None} /\ p # None
        BY PidAssumption DEF Placed, ServiceTypes, PlaceInv, JobsPlaced, Opened
  <2>2. CASE stage'[i] = stage[i] /\ (at[i] # p \/ Over(i))
        BY <1>2, <2>1, <2>2 DEF Over, Active
  <2>3. CASE stage'[i] # stage[i]
        BY <1>3, <2>1, <2>3 DEF Active, Unbegun
  <2> QED
      BY <1>3, <2>2, <2>3 DEF Over
<1>6. LockPlaced'
  <2>1. lock' = IF lock # None /\ at[lock] = p THEN None ELSE lock
        BY <1>1 DEF Ends
  <2>2. lock' # None => lock' = lock /\ lock \in Job /\ stage[lock] \in Locked /\ at[lock] # p
        BY <2>1 DEF Placed, PlaceInv, LockPlaced
  <2>3. lock' # None => stage'[lock] = stage[lock]
        BY <1>3, <2>2 DEF Locked
  <2> QED
      BY <2>2, <2>3 DEF LockPlaced
<1>7. ProcessesPlaced'
  <2>1. ASSUME NEW q \in Pid, NEW i \in callbacks'[q]
        PROVE  at[i] = q /\ stage'[i] \in Locked
    <3>1. q # p /\ i \in callbacks[q]
          BY <1>2, <2>1
    <3>2. i \in Job /\ at[i] = q /\ stage[i] \in Locked
          BY <3>1, HasBegun
    <3> QED
        BY <1>3, <3>1, <3>2 DEF Locked
  <2>2. ASSUME NEW q \in Pid, NEW k \in Killer, NEW h \in todo'[q][k]
        PROVE  at[h[1]] = q /\ stage'[h[1]] \notin Unbegun
    <3>1. q # p /\ h \in todo[q][k]
          BY <1>2, <2>2
    <3>2. h[1] \in Job /\ at[h[1]] = q /\ stage[h[1]] \notin Unbegun
          BY <3>1, HasBegun
    <3> QED
        BY <1>3, <3>1, <3>2 DEF Unbegun
  <2>3. up'[Main] # "none"
        BY <1>2, PidAssumption DEF Placed, PlaceInv, ProcessesPlaced
  <2> QED
      BY <1>2, <2>1, <2>2, <2>3 DEF Placed, PlaceInv, ProcessesPlaced
<1> QED
    BY <1>4, <1>5, <1>6, <1>7 DEF Placed, PlaceInv

\* The kinds together.
LEMMA PlacedStep == Placed /\ ServiceStep => Placed'
<1>1. ASSUME Placed, Staying PROVE Placed'
      BY <1>1 DEF Staying, jobVars, Placed, ServiceTypes, PlaceInv, JobsPlaced, LockPlaced,
                  ProcessesPlaced, Opened
<1> QED
    BY <1>1, OpeningPlaced, AcceptingPlaced, TellingPlaced, JobPlaced, CallbackPlaced, EndingPlaced
    DEF ServiceStep

-----------------------------------------------------------------------------
(* What a successful exit leaves behind.                                   *)

\* An entry is in the journal of a run.
In(r, e) == e \in journal[r]

\* A job appends a record to the journal of its run, a step that no other job
\* takes part in.
Saying(j, v) ==
  /\ Add(j, v) /\ Opened(j) /\ runOf[j] \in Run /\ stage'[j] \notin Unbegun
  /\ v = "started" => stage[j] = "opening"
  /\ stage'[j] \in {"closing", "returned"} =>
       \/ stage[j] = stage'[j] /\ state'[j] = state[j]
       \/ stage[j] = "verdict" /\ v = state[j] /\ state'[j] = state[j]
  /\ stage[j] = "returned" => stage'[j] = "returned"
  /\ \A i \in Job : i # j => stage'[i] = stage[i] /\ state'[i] = state[i]
  /\ UNCHANGED <<at, runOf, resumed, command, code>>

\* A step that records nothing and opens nothing.
Silent ==
  /\ UNCHANGED <<journal, at, runOf, resumed, command>>
  /\ \A j \in Job :
       /\ stage'[j] \in Unbegun => stage[j] \in Unbegun
       /\ stage'[j] \in {"closing", "returned"} =>
            stage[j] \in {"closing", "returned"} /\ state'[j] = state[j]
       /\ stage[j] = "returned" => stage'[j] = "returned"
  /\ \A p \in Pid : code'[p] = "0" =>
       \/ code[p] = "0"
       \/ p = Main /\ command # "run"
       \/ \A j \in JobsOf(p) : MayGoOn(j)

\* What the journal sees of a step.
LEMMA WordsOfStep ==
  Placed /\ ServiceStep =>
    \/ Silent
    \/ \E j \in Job, v \in Fact : Saying(j, v)
    \/ \E j \in Job, r \in Run : Accepting(j, r) \/ \E p \in Pid : Opening(j, r, p)
<1> SUFFICES ASSUME Placed, ServiceStep
             PROVE  \/ Silent
                    \/ \E j \in Job, v \in Fact : Saying(j, v)
                    \/ \E j \in Job, r \in Run : Accepting(j, r) \/ \E p \in Pid : Opening(j, r, p)
    OBVIOUS
<1>t. /\ state \in [Job -> {"none", "running", "completed", "failed", "aborted"}]
      /\ stage \in [Job -> JobStages]
      BY DEF Placed, ServiceTypes
<1>v. \A j \in Job : /\ stage[j] \in {"verdict", "closing", "returned"} => state[j] \in Verdict
                     /\ stage[j] \in Active => runOf[j] \in Run /\ Opened(j)
      BY IsPlaced DEF Placed, PlaceInv, JobsPlaced
<1>g. ASSUME NEW j \in Job, NEW s1 \in JobStages, NEW s2 \in JobStages, Running(j, s1, s2)
      PROVE  /\ stage[j] = s1 /\ stage'[j] = s2 /\ \A i \in Job : i # j => stage'[i] = stage[i]
             /\ UNCHANGED <<at, runOf, resumed, command, code>>
      BY <1>g, GoesOn DEF Placed, Running
<1>0. CASE Staying
      BY <1>0 DEF Staying, jobVars, Silent
<1>1. ASSUME NEW p \in Pid, NEW k \in Killer, Telling(p, k) PROVE Silent
      BY <1>1 DEF Telling, jobVars, Silent
<1>2. ASSUME NEW p \in Pid, NEW k \in Killer, NEW j \in Job, Calling(p, k, j) PROVE Silent
  <2>1. \A i \in Job : state'[i] = state[i] \/ state[i] = "running"
        BY <1>2, <1>t DEF Calling
  <2>2. UNCHANGED <<journal, at, runOf, resumed, command, stage, code>>
        BY <1>2 DEF Calling
  <2> QED
      BY <1>v, <2>1, <2>2 DEF Silent, Verdict
<1>3. ASSUME NEW p \in Pid, NEW k \in Killer, NEW j \in Job, Appending(p, k, j)
      PROVE  Saying(j, "failed")
  <2>1. PICK h \in todo[p][k] : h[1] = j
        BY <1>3 DEF Appending
  <2>2. at[j] = p /\ stage[j] \notin Unbegun /\ runOf[j] \in Run
        BY <2>1, HasBegun
  <2> QED
      BY <1>3, <2>2, PidAssumption DEF Appending, Saying, Opened
<1>4. ASSUME NEW j \in Job, Starting(j) PROVE Saying(j, "started")
  <2>1. Running(j, "opening", "working") /\ Add(j, "started") /\ state' = state
        BY <1>4 DEF Starting
  <2> QED
      BY <1>g, <1>v, <2>1 DEF Saying, JobStages, Active, Unbegun
<1>5. ASSUME NEW j \in Job, Refusing(j) \/ \E v \in Verdict : Judging(j, v)
      PROVE  Silent
  <2>1. \E s1 \in {"opening", "working"}, s2 \in {"threw", "verdict"} : Running(j, s1, s2)
        BY <1>5 DEF Refusing, Judging
  <2>2. /\ journal' = journal
        /\ \A i \in Job : i # j => state'[i] = state[i]
        BY <1>5, <1>t DEF Refusing, Judging
  <2> QED
      BY <1>g, <2>1, <2>2 DEF Silent, JobStages, Unbegun
<1>6. ASSUME NEW j \in Job, Wording(j) PROVE state[j] \in Fact /\ Saying(j, state[j])
  <2>1. Running(j, "verdict", "closing") /\ Add(j, state[j]) /\ state' = state
        BY <1>6 DEF Wording
  <2>2. stage[j] = "verdict" /\ state[j] \in Verdict
        BY <1>v, <2>1 DEF Running
  <2> QED
      BY <1>g, <1>v, <2>1, <2>2 DEF Saying, JobStages, Active, Unbegun, Fact, Verdict
<1>9. ASSUME NEW j \in Job, Aborting(j) PROVE Silent
  <2>1. Running(j, "working", "working") /\ journal' = journal
        /\ \A i \in Job : i # j => state'[i] = state[i]
        BY <1>9, <1>t DEF Aborting
  <2> QED
      BY <1>g, <2>1 DEF Silent, JobStages, Unbegun
<1>7. ASSUME NEW j \in Job, Closing(j) PROVE Silent \/ Saying(j, "failed")
  <2>1. CASE Running(j, "closing", "returned") /\ UNCHANGED <<state, journal>>
        BY <1>g, <2>1 DEF Silent, JobStages, Unbegun
  <2>2. CASE Running(j, "working", "threw") /\ UNCHANGED <<state, journal>>
        BY <1>g, <2>2 DEF Silent, JobStages, Unbegun
  <2>3. CASE /\ Running(j, "working", "threw")
             /\ state' = [state EXCEPT ![j] = "failed"] /\ Add(j, "failed")
    <3>1. \A i \in Job : i # j => state'[i] = state[i]
          BY <1>t, <2>3
    <3> QED
        BY <1>g, <1>v, <2>3, <3>1 DEF Saying, JobStages, Active, Unbegun
  <2> QED
      BY <1>7, <2>1, <2>2, <2>3 DEF Closing
<1>8. ASSUME NEW p \in Pid, NEW c \in {"0", "1", "2", "143"}, Ending(p, c) PROVE Silent
  <2>1. /\ code'[p] = c /\ \A q \in Pid : q # p => code'[q] = code[q]
        /\ UNCHANGED <<command, at, runOf, resumed, state, journal>>
        BY <1>8, EndDoes DEF Ending
  <2>2. \A j \in Job :
          \/ stage'[j] = stage[j]
          \/ stage'[j] = "cut" /\ stage[j] = "verdict"
          \/ stage'[j] = "lost" /\ (~Over(j) \/ stage[j] = "asked")
        BY <1>8, EndDoes DEF Ending
  <2>3. c = "0" => (p = Main /\ command # "run") \/ \A j \in JobsOf(p) : MayGoOn(j)
        BY <1>8 DEF Ending
  <2> QED
      BY <2>1, <2>2, <2>3 DEF Silent, Unbegun, Over
<1> QED
  BY <1>0, <1>1, <1>2, <1>3, <1>4, <1>5, <1>6, <1>7, <1>8, <1>9
  DEF ServiceStep, Fact, Verdict

\* A job has no record before it has begun.
UnbegunSayNothing ==
  \A j \in Job : stage[j] \in Unbegun => \A r \in Run, w \in Fact : ~In(r, <<j, w>>)

\* The engine closes a run after it has recorded how it ended.
ClosedIsSaid ==
  \A j \in Job : stage[j] \in {"closing", "returned"} => In(runOf[j], <<j, state[j]>>)

\* A `run` or a spawned engine exits with 0 when all its jobs have succeeded.
ZeroIsSuccess ==
  \A p \in Pid : code[p] = "0" /\ ~(p = Main /\ command # "run") =>
    \A j \in JobsOf(p) : MayGoOn(j)

WordInv == UnbegunSayNothing /\ ClosedIsSaid /\ ZeroIsSuccess

\* At the beginning no job has recorded anything.
LEMMA InitWords == InitService => WordInv
<1> SUFFICES ASSUME InitService PROVE WordInv
    OBVIOUS
<1> USE PidAssumption
<1>1. ASSUME NEW r \in Run, NEW j \in Job, NEW w \in Fact PROVE ~In(r, <<j, w>>)
  <2>1. journal[r] = {None} \X {"started", "failed"} \/ journal[r] = {}
        BY DEF InitService
  <2> QED
      BY <2>1 DEF In
<1>2. \A j \in Job : ~Opened(j) /\ stage[j] = "none" /\ runOf[j] = None
      BY DEF InitService, Opened
<1>3. \A p \in Pid : code[p] = "none"
      BY DEF InitService
<1> QED
    BY <1>1, <1>2, <1>3 DEF WordInv, UnbegunSayNothing, ClosedIsSaid, ZeroIsSuccess

\* A record more: what is in the journals.
LEMMA SaidMore ==
  ASSUME Placed, NEW j \in Job, NEW v \in Fact, Saying(j, v)
  PROVE  \A r \in Run : \A e : In(r, e)' <=> In(r, e) \/ (r = runOf[j] /\ e = <<j, v>>)
<1>1. ServiceTypes /\ runOf[j] \in Run /\ Add(j, v)
      BY DEF Placed, Saying
<1> QED
    BY <1>1, AddOne DEF In

\* A job that says something has begun, and closes with what it was to say.
LEMMA SayingKeepsWords ==
  ASSUME Placed, WordInv, NEW j \in Job, NEW v \in Fact, Saying(j, v)
  PROVE  WordInv'
<1>f. UNCHANGED <<at, runOf, resumed, command, code>>
      BY DEF Saying
<1>o. Opened(j) /\ runOf[j] \in Run /\ runOf[j] # None /\ at[j] # None
      BY PidAssumption DEF Saying, Opened
<1>s. /\ stage'[j] \notin Unbegun /\ (v = "started" => stage[j] = "opening")
      /\ \A i \in Job : i # j => stage'[i] = stage[i] /\ state'[i] = state[i]
      /\ stage'[j] \in {"closing", "returned"} =>
           \/ stage[j] = stage'[j] /\ state'[j] = state[j]
           \/ stage[j] = "verdict" /\ v = state[j] /\ state'[j] = state[j]
      /\ stage[j] = "returned" => stage'[j] = "returned"
      BY DEF Saying
<1>i. \A r \in Run : \A e : In(r, e)' <=> In(r, e) \/ (r = runOf[j] /\ e = <<j, v>>)
      BY SaidMore
<1>1. UnbegunSayNothing'
  <2> SUFFICES ASSUME NEW i \in Job, stage'[i] \in Unbegun, NEW r \in Run, NEW w \in Fact
               PROVE  ~In(r, <<i, w>>)'
      BY DEF UnbegunSayNothing, Unbegun
  <2>1. i # j /\ stage[i] \in Unbegun
        BY <1>s
  <2>2. ~In(r, <<i, w>>) /\ <<i, w>> # <<j, v>>
        BY <2>1 DEF WordInv, UnbegunSayNothing
  <2> QED
      BY <1>i, <2>2
<1>3. ClosedIsSaid'
  <2> SUFFICES ASSUME NEW i \in Job, stage'[i] \in {"closing", "returned"}
               PROVE  In(runOf[i], <<i, state[i]>>)'
      BY DEF ClosedIsSaid
  <2>1. state'[i] = state[i] /\ (In(runOf[i], <<i, state[i]>>) \/ (i = j /\ v = state[i]))
        BY <1>s DEF WordInv, ClosedIsSaid
  <2>2. runOf[i] \in Run
    <3>1. CASE i = j
          BY <1>o, <3>1
    <3>2. CASE i # j
      <4>1. stage[i] \in {"closing", "returned"}
            BY <1>s, <3>2
      <4> QED
          BY <4>1 DEF Placed, ServiceTypes, PlaceInv, JobsPlaced
    <3> QED
        BY <3>1, <3>2
  <2> QED
      BY <1>f, <1>i, <2>1, <2>2
<1>4. ZeroIsSuccess'
  <2>1. \A i \in Job : MayGoOn(i) => MayGoOn(i)'
        BY <1>s DEF MayGoOn
  <2> QED
      BY <1>f, <2>1 DEF WordInv, ZeroIsSuccess, JobsOf
<1> QED
    BY <1>1, <1>3, <1>4 DEF WordInv

\* A step that records nothing leaves what is said as it was.
LEMMA SilentKeepsWords == ASSUME Placed, WordInv, Silent PROVE WordInv'
<1>f. UNCHANGED <<journal, at, runOf, resumed, command>>
      BY DEF Silent
<1>s. \A j \in Job :
        /\ stage'[j] \in Unbegun => stage[j] \in Unbegun
        /\ stage'[j] \in {"closing", "returned"} =>
             stage[j] \in {"closing", "returned"} /\ state'[j] = state[j]
        /\ stage[j] = "returned" => stage'[j] = "returned"
      BY DEF Silent
<1>i. \A r, e : In(r, e)' <=> In(r, e)
      BY <1>f DEF In
<1>1. UnbegunSayNothing'
      BY <1>s, <1>i DEF WordInv, UnbegunSayNothing, Unbegun
<1>3. ClosedIsSaid'
      BY <1>f, <1>s, <1>i DEF WordInv, ClosedIsSaid
<1>4. ZeroIsSuccess'
  <2>1. \A i \in Job : MayGoOn(i) => MayGoOn(i)'
        BY <1>s DEF MayGoOn
  <2>2. \A p \in Pid : code'[p] = "0" /\ ~(p = Main /\ command # "run") =>
          \A j \in JobsOf(p) : MayGoOn(j)
        BY DEF WordInv, ZeroIsSuccess, Silent
  <2> QED
      BY <1>f, <2>1, <2>2 DEF ZeroIsSuccess, JobsOf
<1> QED
    BY <1>1, <1>3, <1>4 DEF WordInv

\* A job that is to come has nothing recorded.
LEMMA AcceptingKeepsWords ==
  ASSUME Placed, WordInv, NEW j \in Job, NEW r \in Run, Accepting(j, r)
  PROVE  WordInv'
<1>f. /\ UNCHANGED <<journal, at, state, resumed, command, code>>
      /\ stage[j] = "none" /\ stage'[j] = "asked"
      /\ \A i \in Job : i # j => stage'[i] = stage[i]
      BY GoesOn DEF Placed, Accepting, CanRun, JobStages
<1>r. /\ runOf'[j] = r /\ \A i \in Job : i # j => runOf'[i] = runOf[i]
      BY DEF Placed, ServiceTypes, Accepting
<1>n. at[j] = None /\ at'[j] = None
      BY <1>f DEF Placed, PlaceInv, JobsPlaced
<1>i. \A q, e : In(q, e)' <=> In(q, e)
      BY <1>f DEF In
<1>1. UnbegunSayNothing'
      BY <1>f, <1>i DEF WordInv, UnbegunSayNothing, Unbegun
<1>3. ClosedIsSaid'
  <2> SUFFICES ASSUME NEW i \in Job, stage'[i] \in {"closing", "returned"}
               PROVE  In(runOf[i], <<i, state[i]>>)'
      BY DEF ClosedIsSaid
  <2>1. i # j
        BY <1>f
  <2>2. In(runOf[i], <<i, state[i]>>) /\ runOf'[i] = runOf[i] /\ state'[i] = state[i]
        BY <1>f, <1>r, <2>1 DEF WordInv, ClosedIsSaid
  <2> QED
      BY <1>i, <2>2
<1>4. ZeroIsSuccess'
      BY <1>f, <1>n, PidAssumption DEF WordInv, ZeroIsSuccess, JobsOf, MayGoOn
<1> QED
    BY <1>1, <1>3, <1>4 DEF WordInv

\* Nor has a job that has just come to its process.
LEMMA OpeningKeepsWords ==
  ASSUME Placed, WordInv, NEW j \in Job, NEW r \in Run, NEW p \in Pid, Opening(j, r, p)
  PROVE  WordInv'
<1>f. /\ UNCHANGED <<journal, command, code>>
      /\ stage[j] \in {"none", "asked"} /\ stage'[j] = "opening"
      /\ \A i \in Job : i # j => stage'[i] = stage[i]
      /\ up[p] # "gone"
      BY GoesOn DEF Placed, Opening, Opens, JobStages
<1>r. /\ runOf'[j] = r /\ at'[j] = p
      /\ \A i \in Job : i # j => runOf'[i] = runOf[i] /\ at'[i] = at[i] /\ state'[i] = state[i]
      BY DEF Placed, ServiceTypes, Opening, Opens
<1>i. \A q, e : In(q, e)' <=> In(q, e)
      BY <1>f DEF In
<1>1. UnbegunSayNothing'
      BY <1>f, <1>i DEF WordInv, UnbegunSayNothing, Unbegun
<1>3. ClosedIsSaid'
  <2> SUFFICES ASSUME NEW i \in Job, stage'[i] \in {"closing", "returned"}
               PROVE  In(runOf[i], <<i, state[i]>>)'
      BY DEF ClosedIsSaid
  <2>1. i # j
        BY <1>f
  <2>2. In(runOf[i], <<i, state[i]>>) /\ runOf'[i] = runOf[i] /\ state'[i] = state[i]
        BY <1>f, <1>r, <2>1 DEF WordInv, ClosedIsSaid
  <2> QED
      BY <1>i, <2>2
<1>4. ZeroIsSuccess'
  <2> SUFFICES ASSUME NEW q \in Pid, code[q] = "0", ~(q = Main /\ command # "run"),
                      NEW i \in Job, at'[i] = q
               PROVE  MayGoOn(i)'
      BY <1>f DEF ZeroIsSuccess, JobsOf
  <2>1. up[q] = "gone"
        BY DEF Placed, PlaceInv, ProcessesPlaced
  <2>2. i # j
        BY <1>f, <1>r, <2>1
  <2>3. MayGoOn(i)
        BY <1>r, <2>2 DEF WordInv, ZeroIsSuccess, JobsOf
  <2> QED
      BY <1>f, <1>r, <2>2, <2>3 DEF MayGoOn
<1> QED
    BY <1>1, <1>3, <1>4 DEF WordInv

\* The kinds together.
LEMMA WordStep == Placed /\ WordInv /\ ServiceStep => WordInv'
BY WordsOfStep, SilentKeepsWords, SayingKeepsWords, AcceptingKeepsWords, OpeningKeepsWords

\* A job stays with the process that it has come to.
LEMMA StaysOpened ==
  ASSUME Placed, ServiceStep, NEW j \in Job, Opened(j) PROVE Opened(j)'
<1>1. CASE UNCHANGED at
      BY <1>1 DEF Opened
<1>2. ASSUME NEW i \in Job, NEW r \in Run, NEW p \in Pid, Opening(i, r, p) PROVE Opened(j)'
      BY <1>2, PidAssumption DEF Placed, ServiceTypes, Opening, Opens, Opened
<1>3. ASSUME NEW p \in Pid, NEW c \in {"0", "1", "2", "143"}, Ending(p, c) PROVE UNCHANGED at
      BY <1>3, EndDoes DEF Ending
<1> QED
  BY <1>1, <1>2, <1>3
  DEF ServiceStep, Staying, Accepting, Telling, Calling, Appending, Starting, Refusing,
      Aborting, Wording, Closing, Judging, Running, jobVars

\* cancel_run probes the owner of the lock, and then forgets it.
LEMMA ProbedStep == Placed /\ ProbedInv /\ [ServiceNext]_serviceVars => ProbedInv'
<1> SUFFICES ASSUME Placed, ProbedInv, [ServiceNext]_serviceVars PROVE ProbedInv'
    OBVIOUS
<1>1. \A j \in Job : Opened(j) => Opened(j)'
      BY KindsOfStep, StaysOpened
<1>2. ASSUME NEW j \in Job, ProbeHolder(j) PROVE probed' = j /\ Opened(j)
      BY <1>2, PidAssumption
      DEF ProbeHolder, Placed, PlaceInv, LockPlaced, JobsPlaced, Locked, Active
<1>3. ASSUME NEW p \in Pid, RunExit(p) \/ ShutdownOf(p) PROVE probed' = probed
      BY <1>3 DEF RunExit, ShutdownOf, KillerExits, CallBack, CallAppend, Ends
<1>4. \/ probed' \in {probed, None}
      \/ \E j \in Job : ProbeHolder(j)
  BY <1>3
  DEF ServiceNext, StartCycle, StartInServer, AskInBackground, CancelRun, TakeLock, RefuseLock,
      PrepareFails, OverBudget, Aborts, GraphEnds, RecordVerdict, CloseJob, SpawnEngine,
      InitExit, Signal, StdinCloses, HostDies, WatchdogFires, InitCommand, Ends, processVars,
      serviceVars
<1> QED
    BY <1>1, <1>2, <1>4 DEF ProbedInv, Opened

\* Things are always in their place, and whoever is about to be signalled has a
\* process.
LEMMA AlwaysPlaced == ServiceSpec => [](Placed /\ ProbedInv)
<1>1. InitService => ProbedInv
      BY DEF InitService, ProbedInv
<1>2. Placed /\ ProbedInv /\ [ServiceNext]_serviceVars => Placed'
      BY KindsOfStep, PlacedStep
<1>3. Placed /\ ProbedInv /\ [ServiceNext]_serviceVars => ProbedInv'
      BY KindsOfStep, ProbedStep
<1> QED
    BY InitPlaced, <1>1, <1>2, <1>3, PTL DEF ServiceSpec

-----------------------------------------------------------------------------
(* What a shutdown leaves behind.                                          *)

\* A job at work in a process that is up has its callbacks there, and once one
\* killAll has been started the run is marked, and then recorded, as failed, or
\* the callback that does so is still to come; but for one that a human has aborted.
Told(p, j) ==
  up[p] = "up" /\ at[j] = p =>
    /\ stage[j] \in Locked => j \in callbacks[p]
    /\ stage[j] # "lost"
    /\ stage[j] = "working" /\ killing[p] = {} => state[j] \in {"running", "aborted"}
    /\ \A k \in Killer : killing[p] = {k} /\ j \in settled /\ stage[j] = "working" =>
         /\ state[j] = "running" => <<j, "call">> \in todo[p][k]
         /\ state[j] = "failed" => <<j, "append">> \in todo[p][k] \/ In(runOf[j], <<j, "failed">>)

\* Nothing is left to call for a killAll that has not begun.
NothingToDo == \A p \in Pid, k \in Killer : todo[p][k] # {} => k \in killing[p]

\* What a process that one killAll has ended leaves behind.
SettledBy(p, k) ==
  code[p] = "143" /\ killing[p] = {k} =>
    \A j \in settled : at[j] = p /\ stage[j] = "lost" =>
      state[j] = "aborted" \/ \E v \in Verdict : In(runOf[j], <<j, v>>)

ToldInv == /\ NothingToDo
           /\ \A p \in Pid, j \in Job : Told(p, j)
           /\ \A p \in Pid, k \in Killer : SettledBy(p, k)

\* At the beginning nothing has been told to stop.
LEMMA InitTold == InitService => ToldInv
<1> SUFFICES ASSUME InitService PROVE ToldInv
    OBVIOUS
<1>1. /\ \A p \in Pid, k \in Killer : todo[p][k] = {}
      /\ \A p \in Pid : code[p] = "none"
      /\ \A j \in Job : at[j] = None
      BY DEF InitService
<1> QED
    BY <1>1, PidAssumption DEF ToldInv, NothingToDo, Told, SettledBy

\* What has been recorded stays.
LEMMA RecordsStay ==
  ASSUME Placed, ServiceStep PROVE \A r \in Run : \A e : In(r, e) => In(r, e)'
<1>1. CASE UNCHANGED journal
      BY <1>1 DEF In
<1>2. ASSUME NEW j \in Job, NEW v \in Fact, Saying(j, v)
      PROVE  \A r \in Run : \A e : In(r, e) => In(r, e)'
      BY <1>2, SaidMore
<1> QED
    BY <1>1, <1>2, WordsOfStep DEF Silent, Accepting, Opening, Opens

\* A step that does not touch what a process owes a job.
Undisturbed(p, j) ==
  up'[p] = "up" /\ at'[j] = p =>
    /\ up[p] = "up" /\ at[j] = p /\ runOf'[j] = runOf[j]
    /\ stage'[j] = "lost" => stage[j] = "lost"
    /\ stage'[j] \in Locked => stage[j] \in Locked /\ (j \in callbacks[p] => j \in callbacks'[p])
    /\ stage'[j] = "working" => /\ stage[j] = "working" /\ state'[j] \in {state[j], "aborted"}
                                /\ j \in settled' => j \in settled
    /\ killing'[p] = killing[p]
    /\ \A k \in Killer, w \in {"call", "append"} :
         <<j, w>> \in todo[p][k] => <<j, w>> \in todo'[p][k]

\* Such a step leaves that debt what it was.
LEMMA UndisturbedStaysTold ==
  ASSUME Placed, ServiceStep, NEW p \in Pid, NEW j \in Job, Told(p, j), Undisturbed(p, j)
  PROVE  Told(p, j)'
<1> SUFFICES ASSUME up'[p] = "up", at'[j] = p
             PROVE  /\ stage'[j] \in Locked => j \in callbacks'[p]
                    /\ stage'[j] # "lost"
                    /\ stage'[j] = "working" /\ killing'[p] = {} =>
                         state'[j] \in {"running", "aborted"}
                    /\ \A k \in Killer : killing'[p] = {k} /\ j \in settled' /\ stage'[j] = "working" =>
                         /\ state'[j] = "running" => <<j, "call">> \in todo'[p][k]
                         /\ state'[j] = "failed" =>
                              <<j, "append">> \in todo'[p][k] \/ In(runOf[j], <<j, "failed">>)'
    BY DEF Told, Locked
<1>1. /\ up[p] = "up" /\ at[j] = p /\ runOf'[j] = runOf[j]
      /\ stage'[j] = "lost" => stage[j] = "lost"
      /\ stage'[j] \in Locked => stage[j] \in Locked /\ (j \in callbacks[p] => j \in callbacks'[p])
      /\ stage'[j] = "working" => /\ stage[j] = "working" /\ state'[j] \in {state[j], "aborted"}
                                  /\ j \in settled' => j \in settled
      /\ killing'[p] = killing[p]
      /\ \A k \in Killer, w \in {"call", "append"} :
           <<j, w>> \in todo[p][k] => <<j, w>> \in todo'[p][k]
      BY DEF Undisturbed
<1>2. /\ stage[j] \in Locked => j \in callbacks[p]
      /\ stage[j] # "lost"
      /\ stage[j] = "working" /\ killing[p] = {} => state[j] \in {"running", "aborted"}
      /\ \A k \in Killer : killing[p] = {k} /\ j \in settled /\ stage[j] = "working" =>
           /\ state[j] = "running" => <<j, "call">> \in todo[p][k]
           /\ state[j] = "failed" => <<j, "append">> \in todo[p][k] \/ In(runOf[j], <<j, "failed">>)
      BY <1>1 DEF Told
<1>3. stage[j] = "working" => runOf[j] \in Run
      BY IsPlaced DEF Active
<1>4. stage[j] = "working" /\ In(runOf[j], <<j, "failed">>) => In(runOf[j], <<j, "failed">>)'
  <2>1. \A r \in Run : \A e : In(r, e) => In(r, e)'
        BY RecordsStay
  <2>2. \A r \in Run : r = runOf[j] => \A e : In(r, e)' <=> In(runOf[j], e)'
        BY <1>1 DEF In
  <2> QED
      BY <1>3, <2>1, <2>2
<1> QED
    BY <1>1, <1>2, <1>4

\* The steps that no process owes anything for, but the opening and the start of
\* a job itself.
LEMMA MostStepsStayTold ==
  ASSUME Placed, ServiceStep, NEW p \in Pid, NEW j \in Job, Told(p, j),
         \/ Staying
         \/ \E i \in Job, r \in Run : Accepting(i, r)
         \/ \E i \in Job : \/ Refusing(i) \/ Aborting(i) \/ Wording(i) \/ Closing(i)
                           \/ \E v \in Verdict : Judging(i, v)
         \/ \E q \in Pid, c \in {"0", "1", "2", "143"} : Ending(q, c)
  PROVE  Told(p, j)'
<1>t. /\ at \in [Job -> Pid \cup {None}] /\ callbacks \in [Pid -> SUBSET Job]
      /\ state \in [Job -> {"none", "running", "completed", "failed", "aborted"}] /\ p # None
      BY PidAssumption DEF Placed, ServiceTypes
<1>g. ASSUME NEW i \in Job, NEW s1 \in JobStages, NEW s2 \in JobStages, Running(i, s1, s2)
      PROVE  /\ stage[i] = s1 /\ stage'[i] = s2 /\ \A h \in Job : h # i => stage'[h] = stage[h]
             /\ UNCHANGED <<at, runOf, up, killing, todo>>
      BY <1>g, GoesOn DEF Placed, Running
<1>1. CASE Staying
  <2>1. UNCHANGED <<at, runOf, up, killing, todo, stage, state, callbacks, settled>>
        BY <1>1 DEF Staying, jobVars
  <2> QED
      BY <2>1, UndisturbedStaysTold DEF Undisturbed
<1>2. ASSUME NEW i \in Job, NEW r \in Run, Accepting(i, r) PROVE Told(p, j)'
  <2>1. /\ UNCHANGED <<at, up, killing, todo, state, callbacks, settled>>
        /\ stage[i] = "none" /\ \A h \in Job : h # i => stage'[h] = stage[h] /\ runOf'[h] = runOf[h]
        BY <1>2, GoesOn DEF Placed, ServiceTypes, Accepting, CanRun, JobStages
  <2>2. at[i] = None
        BY <2>1 DEF Placed, PlaceInv, JobsPlaced
  <2> QED
      BY <1>t, <2>1, <2>2, UndisturbedStaysTold DEF Undisturbed
<1>3. ASSUME NEW i \in Job,
             \/ Refusing(i) \/ Wording(i) \/ Closing(i)
             \/ \E v \in Verdict : Judging(i, v)
      PROVE  Told(p, j)'
  <2>1. PICK s1 \in {"opening", "working", "verdict", "closing"},
             s2 \in {"threw", "verdict", "closing", "returned"} :
          Running(i, s1, s2) /\ (s2 \in Locked => s1 \in Locked /\ callbacks' = callbacks)
        BY <1>3 DEF Refusing, Wording, Closing, Judging, Locked
  <2>2. /\ settled' = settled
        /\ \A h \in Job : h # i => state'[h] = state[h]
        BY <1>3, <1>t DEF Refusing, Wording, Closing, Judging
  <2>3. \A h \in Job : h # i => (h \in callbacks[p] => h \in callbacks'[p])
        BY <1>3, <1>t DEF Refusing, Wording, Closing, Closes, Judging
  <2>4. /\ stage[i] = s1 /\ stage'[i] = s2 /\ \A h \in Job : h # i => stage'[h] = stage[h]
        /\ UNCHANGED <<at, runOf, up, killing, todo>>
        BY <1>g, <2>1 DEF JobStages
  <2>5. CASE i = j
        BY <2>1, <2>2, <2>4, <2>5, UndisturbedStaysTold DEF Undisturbed
  <2>6. CASE i # j
        BY <2>2, <2>3, <2>4, <2>6, UndisturbedStaysTold DEF Undisturbed
  <2> QED
      BY <2>5, <2>6
<1>5. ASSUME NEW i \in Job, Aborting(i) PROVE Told(p, j)'
  <2>1. /\ stage[i] = "working" /\ stage' = stage
        /\ UNCHANGED <<at, runOf, up, killing, todo, callbacks, settled>>
        BY <1>5 DEF Aborting, Running, Go, Placed, ServiceTypes
  <2>2. \A h \in Job : state'[h] \in {state[h], "aborted"}
        BY <1>5, <1>t DEF Aborting
  <2> QED
      BY <2>1, <2>2, UndisturbedStaysTold DEF Undisturbed
<1>4. ASSUME NEW q \in Pid, NEW c \in {"0", "1", "2", "143"}, Ending(q, c) PROVE Told(p, j)'
  <2>1. /\ UNCHANGED <<killing, at, runOf, state, settled>> /\ up'[q] = "gone"
        /\ p # q => up'[p] = up[p] /\ todo'[p] = todo[p] /\ callbacks'[p] = callbacks[p]
        BY <1>4, EndDoes DEF Ending
  <2>2. \/ stage'[j] = stage[j]
        \/ at[j] = q
        \/ stage[j] = "asked"
        BY <1>4, EndDoes DEF Ending
  <2>3. stage[j] = "asked" => at[j] = None
        BY DEF Placed, PlaceInv, JobsPlaced
  <2> QED
      BY <1>t, <2>1, <2>2, <2>3, UndisturbedStaysTold DEF Undisturbed
<1> QED
    BY <1>1, <1>2, <1>3, <1>4, <1>5

\* A job that has only come to a process has registered nothing.
LEMMA OpeningStaysTold ==
  ASSUME Placed, ServiceStep, NEW p \in Pid, NEW j \in Job, Told(p, j),
         NEW i \in Job, NEW r \in Run, NEW q \in Pid, Opening(i, r, q)
  PROVE  Told(p, j)'
<1>1. /\ stage[i] \in {"none", "asked"} /\ stage'[i] = "opening"
      /\ \A h \in Job : h # i => stage'[h] = stage[h]
      /\ UNCHANGED <<callbacks, killing, todo, settled>>
      BY GoesOn DEF Placed, Opening, Opens, JobStages
<1>2. /\ \A h \in Job : h # i => runOf'[h] = runOf[h] /\ at'[h] = at[h] /\ state'[h] = state[h]
      /\ \A x \in Pid : up'[x] = "up" /\ x # q => up[x] = "up"
      /\ up[q] = "none" => \A h \in Job : at[h] # q
      /\ up[q] \in {"none", "up"}
      BY DEF Placed, ServiceTypes, PlaceInv, ProcessesPlaced, Opening, Opens
<1>3. CASE i = j
      BY <1>1, <1>3 DEF Told, Locked
<1>4. CASE i # j
  <2>1. up'[p] = "up" /\ at'[j] = p => up[p] = "up"
        BY <1>2, <1>4
  <2> QED
      BY <1>1, <1>2, <1>4, <2>1, UndisturbedStaysTold DEF Undisturbed
<1> QED
    BY <1>3, <1>4

\* A job registers its callbacks when it takes the lock, and counts as settled only
\* in a process that nobody has told to stop.
LEMMA StartingStaysTold ==
  ASSUME Placed, ServiceStep, NEW p \in Pid, NEW j \in Job, Told(p, j), NEW i \in Job, Starting(i)
  PROVE  Told(p, j)'
<1>1. /\ stage[i] = "opening" /\ stage'[i] = "working"
      /\ \A h \in Job : h # i => stage'[h] = stage[h]
      /\ UNCHANGED <<at, runOf, up, killing, todo, state>>
      /\ callbacks' = [callbacks EXCEPT ![at[i]] = @ \cup {i}]
      /\ settled' = IF ShutsDown(at[i]) THEN settled ELSE settled \cup {i}
      BY GoesOn DEF Placed, Starting, Running, JobStages
<1>2. at[i] \in Pid /\ state[i] = "running" /\ i \notin settled
      BY <1>1, IsPlaced DEF Placed, PlaceInv, JobsPlaced, Active, Unbegun
<1>3. \A h \in callbacks[p] : h \in callbacks'[p]
      BY <1>1, <1>2 DEF Placed, ServiceTypes
<1>4. CASE i = j
  <2>1. at[j] = p => j \in callbacks'[p]
        BY <1>1, <1>2, <1>4 DEF Placed, ServiceTypes
  <2>2. at[j] = p => (j \in settled' => killing[p] = {})
        BY <1>1, <1>2, <1>4 DEF ShutsDown
  <2> QED
      BY <1>1, <1>2, <1>4, <2>1, <2>2 DEF Told
<1>5. CASE i # j
      BY <1>1, <1>3, <1>5, UndisturbedStaysTold DEF Undisturbed
<1> QED
    BY <1>4, <1>5

\* The first killAll finds the callbacks of every job at work.
LEMMA TellingStaysTold ==
  ASSUME Placed, ServiceStep, NothingToDo, NEW p \in Pid, NEW j \in Job, Told(p, j),
         NEW q \in Pid, NEW k \in Killer, Telling(q, k)
  PROVE  Told(p, j)'
<1>1. /\ UNCHANGED <<up, at, runOf, stage, state, callbacks, settled, journal>>
      /\ up[q] = "up" /\ k \notin killing[q]
      BY DEF Telling, jobVars
<1>2. /\ killing'[q] = killing[q] \cup {k} /\ killing[q] \subseteq Killer
      /\ todo'[q][k] = {<<i, "call">> : i \in callbacks[q]}
      /\ p # q => killing'[p] = killing[p] /\ todo'[p] = todo[p]
      BY DEF Placed, ServiceTypes, Telling, KillAll
<1>3. CASE p # q
      BY <1>1, <1>2, <1>3, UndisturbedStaysTold DEF Undisturbed
<1>4. CASE p = q
  <2>1. killing'[p] # {} /\ \A l \in Killer : killing'[p] = {l} => l = k /\ killing[p] = {}
        BY <1>1, <1>2, <1>4
  <2>2. at[j] = p /\ stage[j] \in Locked => j \in callbacks[p]
        BY <1>1, <1>4 DEF Told
  <2>3. at[j] = p /\ stage[j] = "working" => <<j, "call">> \in todo'[p][k]
        BY <1>2, <1>4, <2>2 DEF Locked
  <2>4. at[j] = p /\ stage[j] = "working" /\ killing[p] = {} => state[j] \in {"running", "aborted"}
        BY <1>1, <1>4 DEF Told
  <2>5. at[j] = p => stage[j] # "lost"
        BY <1>1, <1>4 DEF Told
  <2> QED
      BY <1>1, <1>4, <2>1, <2>2, <2>3, <2>4, <2>5 DEF Told
<1> QED
    BY <1>3, <1>4

\* What a callback's second half records.
LEMMA AppendingSays ==
  ASSUME Placed, NEW p \in Pid, NEW k \in Killer, NEW j \in Job, Appending(p, k, j)
  PROVE  at[j] = p /\ In(runOf[j], <<j, "failed">>)'
<1>1. PICK h \in todo[p][k] : h[1] = j
      BY DEF Appending
<1>2. at[j] = p /\ stage[j] \notin Unbegun /\ runOf[j] \in Run
      BY <1>1, HasBegun
<1>3. Saying(j, "failed")
      BY <1>2, PidAssumption DEF Appending, Saying, Opened
<1>4. runOf' = runOf
      BY DEF Appending
<1> QED
    BY <1>2, <1>3, <1>4, SaidMore DEF Fact, Verdict

\* The call leaves the append to come, and the append leaves the record.
LEMMA CallbackStaysTold ==
  ASSUME Placed, ServiceStep, NothingToDo, NEW p \in Pid, NEW j \in Job, Told(p, j),
         NEW q \in Pid, NEW k \in Killer, NEW i \in Job, Calling(q, k, i) \/ Appending(q, k, i)
  PROVE  Told(p, j)'
<1>1. /\ UNCHANGED <<up, at, runOf, stage, callbacks, settled, killing>>
      /\ <<i, "call">> \in todo[q][k] \/ <<i, "append">> \in todo[q][k]
      BY DEF Calling, Appending
<1>2. at[i] = q /\ k \in killing[q]
  <2>1. PICK h \in todo[q][k] : h[1] = i
        BY <1>1
  <2> QED
      BY <2>1, HasBegun DEF NothingToDo
<1>3. /\ \A h \in Job, w \in {"call", "append"} : \A x \in Pid, l \in Killer :
           h # i /\ <<h, w>> \in todo[x][l] => <<h, w>> \in todo'[x][l]
      /\ \A h \in Job : h # i => state'[h] = state[h]
  <2>1. PICK new :
          /\ todo' = [todo EXCEPT ![q][k] = new]
          /\ \A h \in todo[q][k] : h[1] # i => h \in new
    <3>1. \A h : h[1] # i => h # <<i, "call">> /\ h # <<i, "append">>
          OBVIOUS
    <3>2. CASE Appending(q, k, i)
      <4> DEFINE new == todo[q][k] \ {<<i, "append">>}
      <4>1. todo' = [todo EXCEPT ![q][k] = new]
            BY <3>2 DEF Appending, Done
      <4>2. \A h \in todo[q][k] : h[1] # i => h \in new
            BY <3>1
      <4> HIDE DEF new
      <4> QED
          BY <4>1, <4>2
    <3>3. CASE Calling(q, k, i)
      <4>1. PICK new \in {todo[q][k] \ {<<i, "call">>},
                         (todo[q][k] \ {<<i, "call">>}) \cup {<<i, "append">>}} :
              todo' = [todo EXCEPT ![q][k] = new]
            BY <3>3 DEF Calling, Done
      <4> QED
          BY <3>1, <4>1
    <3> QED
        BY <3>2, <3>3
  <2>2. /\ todo'[q][k] = new
        /\ \A x \in Pid, l \in Killer : x # q \/ l # k => todo'[x][l] = todo[x][l]
        BY <2>1 DEF Placed, ServiceTypes
  <2>3. \A h \in Job, w \in {"call", "append"} : <<h, w>>[1] = h
        OBVIOUS
  <2>4. \A h \in Job : h # i => state'[h] = state[h]
        BY DEF Placed, ServiceTypes, Calling, Appending
  <2> QED
      BY <2>1, <2>2, <2>3, <2>4
<1>4. CASE i # j
      BY <1>1, <1>3, <1>4, UndisturbedStaysTold DEF Undisturbed
<1>5. CASE i = j /\ p = q
  <2> SUFFICES ASSUME up[p] = "up"
               PROVE  /\ stage[j] \in Locked => j \in callbacks[p]
                      /\ stage[j] # "lost"
                      /\ stage[j] = "working" /\ killing[p] = {} =>
                           state'[j] \in {"running", "aborted"}
                      /\ \A l \in Killer : killing[p] = {l} /\ j \in settled /\ stage[j] = "working" =>
                           /\ state'[j] = "running" => <<j, "call">> \in todo'[p][l]
                           /\ state'[j] = "failed" =>
                                <<j, "append">> \in todo'[p][l] \/ In(runOf[j], <<j, "failed">>)'
      BY <1>1 DEF Told, Locked
  <2>1. /\ stage[j] \in Locked => j \in callbacks[p]
        /\ stage[j] # "lost"
        BY <1>2, <1>5 DEF Told
  <2>2. ASSUME NEW l \in Killer, killing[p] = {l}, j \in settled, stage[j] = "working"
        PROVE  /\ state'[j] = "running" => <<j, "call">> \in todo'[p][l]
               /\ state'[j] = "failed" =>
                    <<j, "append">> \in todo'[p][l] \/ In(runOf[j], <<j, "failed">>)'
    <3>1. l = k
          BY <1>2, <1>5, <2>2
    <3>2. /\ state[j] = "running" => <<j, "call">> \in todo[p][k]
          /\ state[j] = "failed" => <<j, "append">> \in todo[p][k] \/ In(runOf[j], <<j, "failed">>)
          BY <1>2, <1>5, <2>2, <3>1 DEF Told
    <3>3. CASE Appending(p, k, j)
      <4>1. In(runOf[j], <<j, "failed">>)' /\ state' = state
            BY <3>3, AppendingSays DEF Appending
      <4>2. todo'[p][k] = todo[p][k] \ {<<j, "append">>}
            BY <3>3 DEF Placed, ServiceTypes, Appending, Done
      <4>3. <<j, "call">> # <<j, "append">>
            OBVIOUS
      <4> QED
          BY <3>1, <3>2, <4>1, <4>2, <4>3
    <3>4. CASE Calling(p, k, j) /\ state[j] = "running"
      <4>1. state'[j] = "failed" /\ <<j, "append">> \in todo'[p][k]
            BY <3>4 DEF Placed, ServiceTypes, Calling
      <4> QED
          BY <3>1, <4>1
    <3>5. CASE Calling(p, k, j) /\ state[j] # "running"
      <4>1. state' = state /\ todo'[p][k] = todo[p][k] \ {<<j, "call">>}
            BY <3>5 DEF Placed, ServiceTypes, Calling, Done
      <4>2. UNCHANGED <<journal, runOf>>
            BY <3>5 DEF Calling
      <4>3. <<j, "call">> # <<j, "append">>
            OBVIOUS
      <4> QED
          BY <3>1, <3>2, <3>5, <4>1, <4>2, <4>3 DEF In
    <3> QED
        BY <1>5, <3>3, <3>4, <3>5
  <2> QED
      BY <1>2, <1>5, <2>1, <2>2
<1>6. CASE i = j /\ p # q
      BY <1>1, <1>2, <1>6 DEF Told
<1> QED
    BY <1>4, <1>5, <1>6

\* Only a killAll leaves something to call.
LEMMA NothingToDoStep == Placed /\ NothingToDo /\ ServiceStep => NothingToDo'
<1> SUFFICES ASSUME Placed, NothingToDo, ServiceStep PROVE NothingToDo'
    OBVIOUS
<1>1. CASE UNCHANGED <<killing, todo>>
      BY <1>1 DEF NothingToDo
<1>2. ASSUME NEW p \in Pid, NEW k \in Killer, Telling(p, k) PROVE NothingToDo'
  <2>1. /\ \A q \in Pid, l \in Killer : q # p \/ l # k => todo'[q][l] = todo[q][l]
        /\ \A q \in Pid : killing[q] \subseteq killing'[q]
        /\ k \in killing'[p]
        BY <1>2 DEF Placed, ServiceTypes, Telling, KillAll
  <2> QED
      BY <2>1 DEF NothingToDo
<1>3. ASSUME NEW p \in Pid, NEW k \in Killer, NEW j \in Job,
             Calling(p, k, j) \/ Appending(p, k, j)
      PROVE  NothingToDo'
  <2>1. /\ killing' = killing /\ todo[p][k] # {}
        BY <1>3 DEF Calling, Appending
  <2>2. \A q \in Pid, l \in Killer : q # p \/ l # k => todo'[q][l] = todo[q][l]
        BY <1>3 DEF Placed, ServiceTypes, Calling, Appending, Done
  <2> QED
      BY <2>1, <2>2 DEF NothingToDo
<1>4. ASSUME NEW p \in Pid, NEW c \in {"0", "1", "2", "143"}, Ending(p, c) PROVE NothingToDo'
  <2>1. /\ \A l \in Killer : todo'[p][l] = {}
        /\ \A q \in Pid : q # p => todo'[q] = todo[q]
        /\ killing' = killing
        BY <1>4, EndDoes DEF Ending
  <2> QED
      BY <2>1 DEF NothingToDo
<1> QED
  BY <1>1, <1>2, <1>3, <1>4
  DEF ServiceStep, Staying, Accepting, Opening, Starting, Refusing, Aborting, Wording, Closing,
      Judging, Running

\* A process that has gone takes part in nothing any more.
LEMMA GoneStays ==
  ASSUME Placed, ServiceStep, NEW p \in Pid, up[p] = "gone"
  PROVE  /\ killing'[p] = killing[p] /\ code'[p] = code[p]
         /\ \A j \in Job : at'[j] = p =>
              /\ at[j] = p /\ runOf'[j] = runOf[j]
              /\ stage'[j] = "lost" => stage[j] = "lost"
              /\ stage[j] = "lost" /\ state[j] = "aborted" => state'[j] = "aborted"
              /\ j \in settled' => j \in settled
<1>t. /\ at \in [Job -> Pid \cup {None}] /\ p # None
      /\ \A j \in Job : /\ stage[j] \in Active => at[j] # p
                        /\ stage[j] \in {"none", "asked"} => at[j] = None
      /\ state \in [Job -> {"none", "running", "completed", "failed", "aborted"}]
      BY PidAssumption DEF Placed, ServiceTypes, PlaceInv, JobsPlaced
<1>1. CASE /\ UNCHANGED <<killing, code, at, runOf, stage, settled>>
           /\ \A j \in Job : state[j] = "aborted" => state'[j] = "aborted"
      BY <1>1
<1>2. ASSUME NEW j \in Job, NEW r \in Run, Accepting(j, r)
      PROVE  /\ UNCHANGED <<killing, code, at, settled, state>> /\ at[j] # p
             /\ \A i \in Job : i # j => stage'[i] = stage[i] /\ runOf'[i] = runOf[i]
      BY <1>2, <1>t, GoesOn DEF Placed, ServiceTypes, Accepting, CanRun, JobStages
<1>3. ASSUME NEW j \in Job, NEW r \in Run, NEW q \in Pid, Opening(j, r, q)
      PROVE  /\ UNCHANGED <<killing, code, settled>> /\ at'[j] # p
             /\ \A i \in Job : i # j => /\ stage'[i] = stage[i] /\ runOf'[i] = runOf[i]
                                        /\ at'[i] = at[i] /\ state'[i] = state[i]
      BY <1>3, <1>t, GoesOn DEF Placed, ServiceTypes, Opening, Opens, JobStages
<1>4. ASSUME NEW q \in Pid, NEW k \in Killer, Telling(q, k)
      PROVE  killing'[p] = killing[p] /\ UNCHANGED <<code, at, runOf, stage, settled, state>>
      BY <1>4 DEF Placed, ServiceTypes, Telling, KillAll, jobVars
<1>5. ASSUME NEW j \in Job, \/ Starting(j) \/ Refusing(j) \/ Aborting(j) \/ Wording(j)
                            \/ Closing(j) \/ \E v \in Verdict : Judging(j, v)
      PROVE  /\ UNCHANGED <<killing, code, at, runOf>> /\ at[j] # p
             /\ \A i \in Job : i # j => /\ stage'[i] = stage[i] /\ state'[i] = state[i]
                                        /\ i \in settled' => i \in settled
  <2>1. PICK s1 \in Active, s2 \in JobStages : Running(j, s1, s2)
        BY <1>5 DEF Starting, Refusing, Aborting, Wording, Closing, Judging, Active, JobStages
  <2>2. \A i \in Job : i # j => (i \in settled' => i \in settled) /\ state'[i] = state[i]
        BY <1>5, <1>t DEF Starting, Refusing, Aborting, Wording, Closing, Judging
  <2> QED
      BY <1>t, <2>1, <2>2, GoesOn DEF Placed, Running
<1>6. ASSUME NEW q \in Pid, NEW c \in {"0", "1", "2", "143"}, Ending(q, c)
      PROVE  /\ UNCHANGED <<killing, at, runOf, settled, state>> /\ code'[p] = code[p]
             /\ \A j \in Job : at[j] = p => stage'[j] = stage[j]
  <2>1. q # p
        BY <1>6, EndDoes DEF Ending
  <2> QED
      BY <1>6, <1>t, <2>1, EndDoes DEF Ending
<1>7. ASSUME NEW q \in Pid, NEW k \in Killer, NEW j \in Job,
             Calling(q, k, j) \/ Appending(q, k, j)
      PROVE  /\ UNCHANGED <<killing, code, at, runOf, stage, settled>>
             /\ \A i \in Job : state[i] = "aborted" => state'[i] = "aborted"
      BY <1>7, <1>t DEF Calling, Appending
<1>8. CASE Staying
      BY <1>1, <1>8 DEF Staying, jobVars
<1>9. CASE \E j \in Job, r \in Run : Accepting(j, r) \/ \E q \in Pid : Opening(j, r, q)
      BY <1>2, <1>3, <1>9
<1>10. CASE \E q \in Pid, k \in Killer :
              Telling(q, k) \/ \E j \in Job : Calling(q, k, j) \/ Appending(q, k, j)
      BY <1>1, <1>4, <1>7, <1>10
<1>11. CASE \E j \in Job : \/ Starting(j) \/ Refusing(j) \/ Aborting(j) \/ Wording(j)
                           \/ Closing(j) \/ \E v \in Verdict : Judging(j, v)
      BY <1>5, <1>11
<1>12. CASE \E q \in Pid, c \in {"0", "1", "2", "143"} : Ending(q, c)
      BY <1>6, <1>12
<1> QED
    BY <1>8, <1>9, <1>10, <1>11, <1>12 DEF ServiceStep

\* When a killAll is over, every run that it was to mark has its verdict.
LEMMA EndingSettles ==
  ASSUME Placed, WordInv, ToldInv, ServiceStep,
         NEW p \in Pid, NEW k \in Killer, Ending(p, "143"), killing[p] = {k},
         NEW j \in settled, at[j] = p, stage'[j] = "lost", state[j] # "aborted"
  PROVE  \E v \in Verdict : In(runOf[j], <<j, v>>)
<1>1. j \in Job /\ stage[j] \in JobStages /\ stage[j] \notin Unbegun /\ up[p] = "up"
      BY EndDoes DEF Placed, ServiceTypes, PlaceInv, JobsPlaced, Ending
<1>2. Told(p, j)
      BY <1>1 DEF ToldInv
<1>3. stage[j] \in {"working", "closing"}
  <2>1. stage[j] # "lost"
        BY <1>1, <1>2 DEF Told
  <2>2. \/ stage'[j] = stage[j]
        \/ stage'[j] = "cut"
        \/ at[j] = p /\ stage[j] \notin {"none", "asked", "verdict"} /\ ~Over(j)
        \/ at[j] # p
        BY <1>1, EndDoes DEF Ending
  <2>3. stage[j] \notin {"none", "asked", "verdict"} /\ ~Over(j)
        BY <2>1, <2>2
  <2> QED
      BY <1>1, <2>3 DEF JobStages, Unbegun, Over
<1>4. CASE stage[j] = "closing"
      BY <1>1, <1>4 DEF WordInv, ClosedIsSaid, Placed, PlaceInv, JobsPlaced
<1>5. CASE stage[j] = "working"
  <2>1. todo[p][k] = {}
        BY DEF Ending, Awaited
  <2>2. /\ state[j] = "running" => <<j, "call">> \in todo[p][k]
        /\ state[j] = "failed" => <<j, "append">> \in todo[p][k] \/ In(runOf[j], <<j, "failed">>)
        /\ state[j] \in {"running", "failed"}
        BY <1>1, <1>2, <1>5 DEF Told, Placed, PlaceInv, JobsPlaced
  <2> QED
      BY <2>1, <2>2 DEF Verdict
<1> QED
    BY <1>3, <1>4, <1>5

\* What a shutdown has settled stays settled.
LEMMA SettledStep ==
  ASSUME Placed, WordInv, ToldInv, ServiceStep, Placed', NEW p \in Pid, NEW k \in Killer
  PROVE  SettledBy(p, k)'
<1> SUFFICES ASSUME code'[p] = "143", killing'[p] = {k},
                    NEW j \in settled', at'[j] = p, stage'[j] = "lost"
             PROVE  state'[j] = "aborted" \/ \E v \in Verdict : In(runOf[j], <<j, v>>)'
    BY DEF SettledBy
<1>j. j \in Job
      BY DEF Placed, ServiceTypes
<1>1. ASSUME j \in settled, at[j] = p, runOf'[j] = runOf[j], stage[j] \notin {"none"},
             \E v \in Verdict : In(runOf[j], <<j, v>>)
      PROVE  \E v \in Verdict : In(runOf[j], <<j, v>>)'
  <2>1. runOf[j] \in Run
        BY <1>1, <1>j DEF Placed, ServiceTypes, PlaceInv, JobsPlaced
  <2>2. \A e : In(runOf[j], e) => In(runOf[j], e)'
    <3>1. \A r \in Run : \A e : In(r, e) => In(r, e)'
          BY RecordsStay
    <3>2. \A r : r = runOf[j] => \A e : In(r, e)' <=> In(runOf[j], e)'
          BY <1>1 DEF In
    <3> QED
        BY <2>1, <3>1, <3>2
  <2> QED
      BY <1>1, <2>2
<1>2. CASE up[p] = "gone"
  <2>1. /\ killing[p] = {k} /\ code[p] = "143"
        /\ at[j] = p /\ runOf'[j] = runOf[j] /\ stage[j] = "lost" /\ j \in settled
        /\ state[j] = "aborted" => state'[j] = "aborted"
        BY <1>2, <1>j, GoneStays
  <2>2. SettledBy(p, k)
        BY DEF ToldInv
  <2>3. state[j] = "aborted" \/ \E v \in Verdict : In(runOf[j], <<j, v>>)
        BY <2>1, <2>2 DEF SettledBy
  <2> QED
      BY <1>1, <2>1, <2>3
<1>3. CASE up[p] # "gone"
  <2>1. code[p] = "none"
        BY <1>3 DEF Placed, PlaceInv, ProcessesPlaced
  <2>2. code' # code
        BY <2>1
  <2>3. PICK q \in Pid, c \in {"0", "1", "2", "143"} : Ending(q, c)
        BY <2>2 DEF ServiceStep, Staying, Accepting, Opening, Telling, Calling, Appending,
                    Starting, Refusing, Aborting, Wording, Closing, Judging, Running
  <2>4. q = p /\ c = "143"
        BY <2>1, <2>3, EndDoes DEF Ending
  <2>5. UNCHANGED <<killing, at, runOf, settled, state>>
        BY <2>3, EndDoes DEF Ending
  <2>6. state[j] = "aborted" \/ \E v \in Verdict : In(runOf[j], <<j, v>>)
        BY <2>3, <2>4, <2>5, EndingSettles
  <2>7. stage[j] # "none"
        BY <1>j, <2>5 DEF Placed, PlaceInv, JobsPlaced, Unbegun
  <2> QED
      BY <1>1, <2>5, <2>6, <2>7
<1> QED
    BY <1>2, <1>3

\* The kinds together.
LEMMA ToldStep == Placed /\ WordInv /\ ToldInv /\ ServiceStep => ToldInv'
<1> SUFFICES ASSUME Placed, WordInv, ToldInv, ServiceStep PROVE ToldInv'
    OBVIOUS
<1>1. Placed'
      BY PlacedStep
<1>2. NothingToDo /\ \A p \in Pid, j \in Job : Told(p, j)
      BY DEF ToldInv
<1>3. NothingToDo'
      BY <1>2, NothingToDoStep
<1>4. ASSUME NEW p \in Pid, NEW j \in Job PROVE Told(p, j)'
  <2>1. Told(p, j)
        BY <1>2
  <2>2. CASE \E i \in Job, r \in Run : \E q \in Pid : Opening(i, r, q)
        BY <2>1, <2>2, OpeningStaysTold
  <2>3. CASE \E i \in Job : Starting(i)
        BY <2>1, <2>3, StartingStaysTold
  <2>4. CASE \E q \in Pid, k \in Killer : Telling(q, k)
        BY <1>2, <2>1, <2>4, TellingStaysTold
  <2>5. CASE \E q \in Pid, k \in Killer, i \in Job : Calling(q, k, i) \/ Appending(q, k, i)
        BY <1>2, <2>1, <2>5, CallbackStaysTold
  <2>6. CASE \/ Staying
             \/ \E i \in Job, r \in Run : Accepting(i, r)
             \/ \E i \in Job : \/ Refusing(i) \/ Aborting(i) \/ Wording(i) \/ Closing(i)
                               \/ \E v \in Verdict : Judging(i, v)
             \/ \E q \in Pid, c \in {"0", "1", "2", "143"} : Ending(q, c)
        BY <2>1, <2>6, MostStepsStayTold
  <2> QED
      BY <2>2, <2>3, <2>4, <2>5, <2>6 DEF ServiceStep
<1>5. \A p \in Pid, k \in Killer : SettledBy(p, k)'
      BY <1>1, SettledStep
<1> QED
    BY <1>3, <1>4, <1>5 DEF ToldInv

\* The invariant gives the property.
LEMMA ToldMeansSettled == Placed /\ ToldInv => ShutdownSettlesRuns
<1> SUFFICES ASSUME Placed, ToldInv, NEW p \in Pid, code[p] = "143", Cardinality(killing[p]) = 1,
                    NEW j \in settled \cap JobsOf(p), stage[j] = "lost", state[j] # "aborted"
             PROVE  Recorded(j) \cap Verdict # {}
    BY DEF ShutdownSettlesRuns
<1>1. IsFiniteSet(killing[p]) /\ killing[p] \subseteq Killer
  <2>1. IsFiniteSet(Killer)
    <3>1. IsFiniteSet({"signal"} \cup {"watchdog"})
          BY FS_Singleton, FS_Union
    <3>2. Killer = {"signal"} \cup {"watchdog"}
          BY DEF Killer
    <3> QED
        BY <3>1, <3>2
  <2>2. killing[p] \subseteq Killer
        BY DEF Placed, ServiceTypes
  <2> QED
      BY <2>1, <2>2, FS_Subset
<1>2. PICK k : killing[p] = {k}
      BY <1>1, FS_Singleton
<1>3. k \in Killer /\ SettledBy(p, k) /\ at[j] = p /\ j \in settled
      BY <1>1, <1>2 DEF ToldInv, JobsOf
<1>4. \E v \in Verdict : In(runOf[j], <<j, v>>)
      BY <1>2, <1>3 DEF SettledBy
<1> QED
    BY <1>4 DEF Recorded, In, Fact

\* A process that one killAll shuts down exits only after the callbacks: a run that
\* had registered its own has a verdict, unless the main flow was just writing it or
\* a human had aborted the run and the graph was not at its end.
THEOREM ShutdownAlwaysSettles == ServiceSpec => []ShutdownSettlesRuns
<1>1. Placed /\ ProbedInv /\ WordInv /\ [ServiceNext]_serviceVars => WordInv'
      BY KindsOfStep, WordStep
<1>2. Placed /\ ProbedInv /\ WordInv /\ ToldInv /\ [ServiceNext]_serviceVars => ToldInv'
      BY KindsOfStep, ToldStep
<1> QED
    BY AlwaysPlaced, InitWords, InitTold, <1>1, <1>2, ToldMeansSettled, PTL DEF ServiceSpec

-----------------------------------------------------------------------------
(* A success stands.                                                       *)

\* A job has recorded something, in whatever journal.
Said(j, w) == \E r \in Run : In(r, <<j, w>>)

\* No failure of a job is recorded, and none is about to be.
Clean(j) == /\ ~Said(j, "failed")
            /\ \A p \in Pid, k \in Killer : <<j, "append">> \notin todo[p][k]

AfterSuccess == {"verdict", "closing", "returned", "cut", "lost"}

\* A success is recorded when the graph has succeeded; from then on the state shows
\* it, so no callback that begins later calls it a failure, and none was pending
\* if nobody had told the process to stop.
Stand(j) ==
  /\ Said(j, "completed") => state[j] = "completed"
  /\ state[j] = "completed" => stage[j] \in AfterSuccess
  /\ j \notin hurried /\ state[j] = "completed" => Clean(j)
  /\ stage[j] = "working" /\ killing[at[j]] = {} => Clean(j)

StandInv == \A j \in Job : Stand(j)

\* At the beginning nobody has said anything.
LEMMA InitStands == InitService => StandInv
<1> SUFFICES ASSUME InitService PROVE StandInv
    OBVIOUS
<1>1. ASSUME NEW j \in Job, NEW w \in Verdict PROVE ~Said(j, w)
  <2>1. UnbegunSayNothing /\ stage[j] = "none"
        BY InitWords DEF WordInv, InitService
  <2> QED
      BY <2>1 DEF UnbegunSayNothing, Unbegun, Said, Fact
<1>2. \A j \in Job : state[j] = "none" /\ stage[j] = "none"
      BY DEF InitService
<1> QED
    BY <1>1, <1>2 DEF StandInv, Stand, Verdict

\* A record is one more of its job.
LEMMA AddSays ==
  ASSUME ServiceTypes, NEW j \in Job, runOf[j] \in Run, NEW v \in Fact, Add(j, v)
  PROVE  \A i \in Job : \A w : Said(i, w)' <=> Said(i, w) \/ (i = j /\ w = v)
BY AddOne DEF Said, In

\* A job that has not begun has said nothing, and nothing is pending for it.
LEMMA UnbegunIsClean ==
  ASSUME Placed, WordInv, NEW j \in Job, stage[j] \in Unbegun
  PROVE  Clean(j) /\ \A w \in Fact : ~Said(j, w)
<1>1. \A w \in Fact : ~Said(j, w)
      BY DEF WordInv, UnbegunSayNothing, Said
<1>2. ASSUME NEW p \in Pid, NEW k \in Killer, <<j, "append">> \in todo[p][k] PROVE FALSE
  <2>1. <<j, "append">>[1] = j
        OBVIOUS
  <2> QED
      BY <1>2, <2>1, HasBegun
<1> QED
    BY <1>1, <1>2 DEF Clean, Fact, Verdict

\* A step that adds nothing to what a job has said or is about to say.
Untouched(j) ==
  /\ state'[j] = state[j] /\ (Clean(j) => Clean(j)')
  /\ Said(j, "completed")' => Said(j, "completed")
  /\ stage[j] \in AfterSuccess => stage'[j] \in AfterSuccess
  /\ stage'[j] = "working" =>
       stage[j] = "working" /\ (killing'[at'[j]] = {} => killing[at[j]] = {})

LEMMA UntouchedStands ==
  ASSUME NEW j \in Job, Stand(j), Untouched(j), hurried \subseteq hurried' PROVE Stand(j)'
BY DEF Stand, Untouched, AfterSuccess

\* Whatever is not in the journal now or about to be written leaves a job clean.
LEMMA StaysClean ==
  ASSUME NEW j \in Job, Clean(j), Said(j, "failed")' => Said(j, "failed"),
         \A p \in Pid, k \in Killer : <<j, "append">> \in todo'[p][k] => <<j, "append">> \in todo[p][k]
  PROVE  Clean(j)'
BY DEF Clean

\* The steps of the processes, in which jobs only end.
LEMMA ProcessStands ==
  ASSUME Placed, WordInv, NEW j \in Job, Stand(j), hurried \subseteq hurried',
         \/ Staying
         \/ \E i \in Job, r \in Run : Accepting(i, r)
         \/ \E p \in Pid, k \in Killer : Telling(p, k)
         \/ \E p \in Pid, c \in {"0", "1", "2", "143"} : Ending(p, c)
  PROVE  Stand(j)'
<1>s. journal' = journal => \A w : Said(j, w)' <=> Said(j, w)
      BY DEF Said, In
<1>1. CASE Staying
  <2>1. UNCHANGED <<journal, todo, stage, state, at, killing>>
        BY <1>1 DEF Staying, jobVars
  <2> QED
      BY <1>s, <2>1, StaysClean, UntouchedStands DEF Untouched
<1>2. ASSUME NEW i \in Job, NEW r \in Run, Accepting(i, r) PROVE Stand(j)'
  <2>1. UNCHANGED <<journal, todo, state, at, killing>> /\ stage[i] = "none" /\ stage'[i] = "asked"
        /\ \A h \in Job : h # i => stage'[h] = stage[h]
        BY <1>2, GoesOn DEF Placed, Accepting, CanRun, JobStages
  <2> QED
      BY <1>s, <2>1, StaysClean, UntouchedStands DEF Untouched, AfterSuccess
<1>3. ASSUME NEW p \in Pid, NEW k \in Killer, Telling(p, k) PROVE Stand(j)'
  <2>1. UNCHANGED <<journal, stage, state, at>>
        BY <1>3 DEF Telling, jobVars
  <2>2. /\ \A q \in Pid, l \in Killer : q # p \/ l # k => todo'[q][l] = todo[q][l]
        /\ todo'[p][k] = {<<i, "call">> : i \in callbacks[p]}
        /\ \A q \in Pid : killing'[q] = {} => killing[q] = {}
        BY <1>3 DEF Placed, ServiceTypes, Telling, KillAll
  <2>3. <<j, "append">> \notin todo'[p][k]
        BY <2>2
  <2>4. stage[j] = "working" => at[j] \in Pid
        BY IsPlaced DEF Active
  <2> QED
      BY <1>s, <2>1, <2>2, <2>3, <2>4, StaysClean, UntouchedStands DEF Untouched
<1>4. ASSUME NEW p \in Pid, NEW c \in {"0", "1", "2", "143"}, Ending(p, c) PROVE Stand(j)'
  <2>1. /\ UNCHANGED <<killing, at, state, journal>>
        /\ \A k \in Killer : todo'[p][k] = {}
        /\ \A q \in Pid : q # p => todo'[q] = todo[q]
        BY <1>4, EndDoes DEF Ending
  <2>2. stage'[j] = stage[j] \/ stage'[j] \in {"cut", "lost"}
        BY <1>4, EndDoes DEF Ending
  <2> QED
      BY <1>s, <2>1, <2>2, StaysClean, UntouchedStands DEF Untouched, AfterSuccess
<1> QED
    BY <1>1, <1>2, <1>3, <1>4

\* A job that comes to its process is clean.
LEMMA OpeningStands ==
  ASSUME Placed, WordInv, NEW j \in Job, Stand(j), hurried \subseteq hurried',
         NEW i \in Job, NEW r \in Run, NEW p \in Pid, Opening(i, r, p)
  PROVE  Stand(j)'
<1>1. /\ UNCHANGED <<journal, todo, killing>> /\ stage[i] \in Unbegun /\ stage'[i] = "opening"
      /\ \A h \in Job : h # i => stage'[h] = stage[h]
      BY GoesOn DEF Placed, Opening, Opens, JobStages, Unbegun
<1>2. /\ state'[i] = "running"
      /\ \A h \in Job : h # i => at'[h] = at[h] /\ state'[h] = state[h]
      BY DEF Placed, ServiceTypes, Opening, Opens
<1>s. \A w : Said(j, w)' <=> Said(j, w)
      BY <1>1 DEF Said, In
<1>3. CASE i = j
  <2>1. ~Said(j, "completed")
        BY <1>1, <1>3, UnbegunIsClean DEF Fact, Verdict
  <2> QED
      BY <1>1, <1>2, <1>3, <1>s, <2>1 DEF Stand
<1>4. CASE i # j
      BY <1>1, <1>2, <1>4, <1>s, StaysClean, UntouchedStands DEF Untouched
<1> QED
    BY <1>3, <1>4

\* A callback finds a success in the state, and leaves it.
LEMMA CallbackStands ==
  ASSUME Placed, NothingToDo, NEW j \in Job, Stand(j), hurried \subseteq hurried',
         NEW p \in Pid, NEW k \in Killer, NEW i \in Job, Calling(p, k, i) \/ Appending(p, k, i)
  PROVE  Stand(j)'
<1>1. /\ UNCHANGED <<at, stage, killing>>
      /\ <<i, "call">> \in todo[p][k] \/ <<i, "append">> \in todo[p][k]
      BY DEF Calling, Appending
<1>2. at[i] = p /\ killing[p] # {} /\ runOf[i] \in Run
  <2>1. PICK h \in todo[p][k] : h[1] = i
        BY <1>1
  <2> QED
      BY <2>1, HasBegun DEF NothingToDo
<1>3. CASE Appending(p, k, i)
  <2>1. state' = state /\ \A q \in Pid, l \in Killer : todo'[q][l] \subseteq todo[q][l]
        BY <1>3 DEF Placed, ServiceTypes, Appending, Done
  <2>2. \A h \in Job : \A w : Said(h, w)' <=> Said(h, w) \/ (h = i /\ w = "failed")
        BY <1>2, <1>3, AddSays DEF Appending, Placed, Fact, Verdict
  <2>3. CASE i = j
    <3>1. ~Clean(j)
          BY <1>3, <2>3 DEF Appending, Clean
    <3> QED
        BY <1>1, <1>2, <2>1, <2>2, <2>3, <3>1 DEF Stand
  <2>4. CASE i # j
        BY <1>1, <2>1, <2>2, <2>4, StaysClean, UntouchedStands DEF Untouched
  <2> QED
      BY <2>3, <2>4
<1>4. CASE Calling(p, k, i) /\ state[i] # "running"
  <2>1. /\ UNCHANGED <<state, journal>>
        /\ \A q \in Pid, l \in Killer : todo'[q][l] \subseteq todo[q][l]
        BY <1>4 DEF Placed, ServiceTypes, Calling, Done
  <2>2. \A w : Said(j, w)' <=> Said(j, w)
        BY <2>1 DEF Said, In
  <2> QED
      BY <1>1, <2>1, <2>2, StaysClean, UntouchedStands DEF Untouched
<1>5. CASE Calling(p, k, i) /\ state[i] = "running"
  <2>1. /\ journal' = journal /\ state'[i] = "failed"
        /\ \A h \in Job : h # i => state'[h] = state[h]
        BY <1>5 DEF Placed, ServiceTypes, Calling
  <2>2. \A w : Said(j, w)' <=> Said(j, w)
        BY <2>1 DEF Said, In
  <2>3. /\ todo'[p][k] = (todo[p][k] \ {<<i, "call">>}) \cup {<<i, "append">>}
        /\ \A q \in Pid, l \in Killer : q # p \/ l # k => todo'[q][l] = todo[q][l]
        BY <1>5 DEF Placed, ServiceTypes, Calling
  <2>4. CASE i = j
        BY <1>1, <1>2, <1>5, <2>1, <2>2, <2>4 DEF Stand
  <2>5. CASE i # j
    <3>1. <<j, "append">> # <<i, "append">>
          BY <2>5
    <3>2. \A q \in Pid, l \in Killer :
            <<j, "append">> \in todo'[q][l] => <<j, "append">> \in todo[q][l]
          BY <2>3, <3>1
    <3> QED
        BY <1>1, <2>1, <2>2, <2>5, <3>2, StaysClean, UntouchedStands DEF Untouched
  <2> QED
      BY <2>4, <2>5
<1> QED
    BY <1>3, <1>4, <1>5

\* The engine puts a success into the state at the end of its graph, and records what
\* the state says.
LEMMA JobStands ==
  ASSUME Placed, WordInv, NEW j \in Job, Stand(j), hurried \subseteq hurried', NEW i \in Job,
         \/ Starting(i) \/ Refusing(i) \/ Aborting(i) \/ Wording(i) \/ Closing(i)
         \/ \E v \in Verdict : Judging(i, v)
  PROVE  Stand(j)'
<1>1. PICK s1 \in Active, s2 \in JobStages : Running(i, s1, s2)
      BY DEF Starting, Refusing, Aborting, Wording, Closing, Judging, Active, JobStages
<1>2. /\ stage[i] = s1 /\ stage'[i] = s2 /\ \A h \in Job : h # i => stage'[h] = stage[h]
      /\ UNCHANGED <<at, killing, todo>>
      BY <1>1, GoesOn DEF Placed, Running
<1>3. runOf[i] \in Run
      BY <1>2, IsPlaced
<1>4. /\ state \in [Job -> {"none", "running", "completed", "failed", "aborted"}]
      /\ stage[i] = "opening" => state[i] = "running"
      /\ stage[i] = "working" => state[i] # "completed"
      /\ stage[i] = "verdict" => state[i] \in Verdict
      BY DEF Placed, ServiceTypes, PlaceInv, JobsPlaced
<1>5. \/ journal' = journal
      \/ \E v \in Fact : Add(i, v)
      BY <1>2, <1>4 DEF Starting, Refusing, Aborting, Wording, Closing, Judging, Running,
                        Fact, Verdict
<1>6. \A h \in Job : h # i => \A w : Said(h, w)' <=> Said(h, w)
      BY <1>3, <1>5, AddSays DEF Said, In, Placed
<1>7. CASE i # j
  <2>1. state'[j] = state[j]
        BY <1>4, <1>7 DEF Starting, Refusing, Aborting, Wording, Closing, Judging
  <2> QED
      BY <1>2, <1>6, <1>7, <2>1, StaysClean, UntouchedStands DEF Untouched
<1>8. CASE i = j
  <2> USE <1>8
  <2>s. journal' = journal => \A w : Said(j, w)' <=> Said(j, w)
        BY DEF Said, In
  <2>c. journal' = journal /\ Clean(j) => Clean(j)'
        BY <1>2, <2>s, StaysClean
  <2>w. stage[j] = "working" => ~Said(j, "completed")
        BY <1>4 DEF Stand
  <2>1. CASE Starting(j)
    <3>1. state' = state /\ Add(j, "started") /\ stage[j] = "opening" /\ stage'[j] = "working"
          BY <1>2, <2>1, GoesOn DEF Starting, Running, Placed, JobStages
    <3>2. \A w : Said(j, w)' <=> Said(j, w) \/ w = "started"
          BY <1>3, <3>1, AddSays DEF Placed, Fact
    <3>3. Clean(j) /\ ~Said(j, "completed")
          BY <3>1, UnbegunIsClean DEF Unbegun, Fact, Verdict
    <3>4. Clean(j)'
          BY <1>2, <3>2, <3>3, StaysClean
    <3> QED
        BY <1>4, <3>1, <3>2, <3>3, <3>4 DEF Stand
  <2>2. CASE Refusing(j)
    <3>1. UNCHANGED <<state, journal>> /\ stage[j] = "opening" /\ stage'[j] = "threw"
          BY <1>2, <2>2, GoesOn DEF Refusing, Running, Placed, JobStages
    <3> QED
        BY <1>4, <2>s, <3>1 DEF Stand
  <2>3. CASE Aborting(j)
    <3>1. /\ state'[j] = "aborted" /\ journal' = journal
          /\ stage[j] = "working" /\ stage'[j] = "working"
          BY <1>2, <1>4, <2>3, GoesOn DEF Aborting, Running, Placed, JobStages
    <3> QED
        BY <1>2, <2>s, <2>c, <2>w, <3>1 DEF Stand
  <2>4. CASE Wording(j)
    <3>1. /\ state' = state /\ Add(j, state[j])
          /\ stage[j] = "verdict" /\ stage'[j] = "closing" /\ state[j] \in Verdict
          BY <1>2, <1>4, <2>4, GoesOn DEF Wording, Running, Placed, JobStages
    <3>2. \A w : Said(j, w)' <=> Said(j, w) \/ w = state[j]
          BY <1>3, <3>1, AddSays DEF Placed, Fact
    <3>3. state[j] = "completed" /\ Clean(j) => Clean(j)'
          BY <1>2, <3>2, StaysClean
    <3> QED
        BY <3>1, <3>2, <3>3 DEF Stand, AfterSuccess
  <2>5. CASE Closing(j)
    <3>1. CASE Running(j, "closing", "returned") /\ UNCHANGED <<state, journal>>
      <4>1. stage[j] = "closing" /\ stage'[j] = "returned"
            BY <3>1, GoesOn DEF Running, Placed, JobStages
      <4> QED
          BY <2>s, <2>c, <3>1, <4>1 DEF Stand, AfterSuccess
    <3>2. CASE Running(j, "working", "threw") /\ UNCHANGED <<state, journal>>
      <4>1. stage[j] = "working" /\ stage'[j] = "threw"
            BY <3>2, GoesOn DEF Running, Placed, JobStages
      <4> QED
          BY <1>4, <2>s, <3>2, <4>1 DEF Stand
    <3>3. CASE /\ Running(j, "working", "threw")
               /\ state' = [state EXCEPT ![j] = "failed"] /\ Add(j, "failed")
      <4>1. stage[j] = "working" /\ stage'[j] = "threw" /\ state'[j] = "failed"
            BY <1>4, <3>3, GoesOn DEF Running, Placed, JobStages
      <4>2. \A w : Said(j, w)' <=> Said(j, w) \/ w = "failed"
            BY <1>3, <3>3, AddSays DEF Placed, Fact, Verdict
      <4> QED
          BY <2>w, <4>1, <4>2 DEF Stand
    <3> QED
        BY <2>5, <3>1, <3>2, <3>3 DEF Closing
  <2>6. ASSUME NEW v \in Verdict, Judging(j, v) PROVE Stand(j)'
    <3>1. /\ state'[j] = v /\ journal' = journal
          /\ v = "completed" /\ killing[at[j]] # {} => j \in hurried'
          /\ stage[j] = "working" /\ stage'[j] = "verdict"
          BY <1>2, <1>4, <2>6, GoesOn DEF Judging, Running, Placed, JobStages, ShutsDown
    <3> QED
        BY <2>s, <2>c, <2>w, <3>1 DEF Stand, AfterSuccess
  <2> QED
      BY <2>1, <2>2, <2>3, <2>4, <2>5, <2>6
<1> QED
    BY <1>7, <1>8

\* What happened in a hurry is never taken back.
LEMMA HurriedStays == [ServiceNext]_serviceVars => hurried \subseteq hurried'
<1> SUFFICES ASSUME [ServiceNext]_serviceVars PROVE hurried \subseteq hurried'
    OBVIOUS
<1>1. ASSUME NEW p \in Pid, RunExit(p) \/ ShutdownOf(p) PROVE hurried' = hurried
      BY <1>1 DEF RunExit, ShutdownOf, KillerExits, CallBack, CallAppend, Ends, serviceHistory
<1> QED
  BY <1>1
  DEF ServiceNext, StartCycle, StartInServer, AskInBackground, ProbeHolder, CancelRun,
      TakeLock, RefuseLock, PrepareFails, OverBudget, Aborts, GraphEnds, RecordVerdict,
      CloseJob, SpawnEngine, InitExit, Signal, StdinCloses, HostDies, WatchdogFires,
      InitCommand, Ends, serviceHistory, serviceVars

\* The kinds together.
LEMMA StandStep ==
  Placed /\ ProbedInv /\ WordInv /\ NothingToDo /\ StandInv /\ [ServiceNext]_serviceVars
    => StandInv'
<1> SUFFICES ASSUME Placed, ProbedInv, WordInv, NothingToDo, StandInv,
                    [ServiceNext]_serviceVars, NEW j \in Job
             PROVE  Stand(j)'
    BY DEF StandInv
<1>1. ServiceStep /\ Stand(j) /\ hurried \subseteq hurried'
      BY KindsOfStep, HurriedStays DEF StandInv
<1>2. CASE \/ Staying
           \/ \E i \in Job, r \in Run : Accepting(i, r)
           \/ \E p \in Pid, k \in Killer : Telling(p, k)
           \/ \E p \in Pid, c \in {"0", "1", "2", "143"} : Ending(p, c)
      BY <1>1, <1>2, ProcessStands
<1>3. CASE \E i \in Job, r \in Run, p \in Pid : Opening(i, r, p)
      BY <1>1, <1>3, OpeningStands
<1>4. CASE \E p \in Pid, k \in Killer, i \in Job : Calling(p, k, i) \/ Appending(p, k, i)
      BY <1>1, <1>4, CallbackStands
<1>5. CASE \E i \in Job : \/ Starting(i) \/ Refusing(i) \/ Aborting(i) \/ Wording(i) \/ Closing(i)
                          \/ \E v \in Verdict : Judging(i, v)
      BY <1>1, <1>5, JobStands
<1> QED
    BY <1>1, <1>2, <1>3, <1>4, <1>5 DEF ServiceStep

\* The invariants give the property.
LEMMA StandingMeansSuccess == Placed /\ WordInv /\ StandInv => SuccessStands
<1> SUFFICES ASSUME Placed, WordInv, StandInv PROVE SuccessStands
    OBVIOUS
<1>1. ASSUME NEW p \in Pid, code[p] = "0", ~(p = Main /\ command # "run"), NEW j \in JobsOf(p)
      PROVE  "completed" \in Recorded(j)
  <2>1. j \in Job /\ stage[j] = "returned" /\ state[j] = "completed"
        BY <1>1 DEF WordInv, ZeroIsSuccess, JobsOf, MayGoOn
  <2> QED
      BY <2>1 DEF WordInv, ClosedIsSaid, Recorded, In, Fact, Verdict
<1>2. ASSUME NEW j \in Job, runOf[j] # None, {"completed", "failed"} \subseteq Recorded(j)
      PROVE  j \in hurried
  <2>1. runOf[j] \in Run
        BY <1>2 DEF Placed, ServiceTypes
  <2>2. Said(j, "completed") /\ Said(j, "failed")
        BY <1>2, <2>1 DEF Recorded, Said, In
  <2> QED
      BY <2>2 DEF StandInv, Stand, Clean
<1> QED
    BY <1>1, <1>2 DEF SuccessStands

\* A process that exits with 0 has recorded the success of each run it made, and a
\* success that was reached before anyone told its process to stop is never followed,
\* or preceded, by a failure of the same job, whatever arrives between the verdict, its
\* record and the exit.
THEOREM SuccessAlwaysStands == ServiceSpec => []SuccessStands
<1>1. Placed /\ ProbedInv /\ WordInv /\ [ServiceNext]_serviceVars => WordInv'
      BY KindsOfStep, WordStep
<1>2. Placed /\ ProbedInv /\ NothingToDo /\ [ServiceNext]_serviceVars => NothingToDo'
      BY KindsOfStep, NothingToDoStep
<1>3. InitService => NothingToDo
      BY InitTold DEF ToldInv
<1> QED
    BY AlwaysPlaced, InitWords, InitStands, <1>1, <1>2, <1>3, StandStep, StandingMeansSuccess,
       PTL DEF ServiceSpec

-----------------------------------------------------------------------------
(* What `init` leaves alone.                                               *)

\* The list that unwindScaffold is given is empty until the copy is done; a file
\* is nobody's, the scaffolder's or the user's; and the user's file that the copy is
\* about to replace was written after its stat.
ListIsLate == /\ scaffold # "done" => created = {}
              /\ target \in [File -> {"absent", "scaffolder", "user"}]
              /\ \A f \in looked : f \in File /\ (target[f] = "user" => f \in late)

\* What the user writes is theirs, and late if the copy has just looked there.
LEMMA WritingIsLate == ASSUME ListIsLate, NEW g \in File, UserWrites(g) PROVE ListIsLate'
<1>1. /\ UNCHANGED <<looked, created, scaffold>> /\ late' = late \cup (looked \cap {g})
      /\ target' = [target EXCEPT ![g] = "user"]
      BY DEF UserWrites
<1>2. target' \in [File -> {"absent", "scaffolder", "user"}]
      BY <1>1 DEF ListIsLate
<1>3. ASSUME NEW f \in looked, target'[f] = "user" PROVE f \in late'
  <2>1. CASE f = g
        BY <1>1, <2>1
  <2>2. CASE f # g
    <3>1. target[f] = "user"
          BY <1>1, <1>3, <2>2 DEF ListIsLate
    <3> QED
        BY <1>1, <3>1 DEF ListIsLate
  <2> QED
      BY <2>1, <2>2
<1> QED
    BY <1>1, <1>2, <1>3 DEF ListIsLate

\* No step takes a user's file out of the target folder or replaces it, but for one
\* that the user wrote between the stat and the write of the copy.
THEOREM UserFilesStay == ServiceSpec => UserFilesAreKept
<1>1. InitService => ListIsLate
      BY DEF InitService, InitScaffold, ListIsLate
<1>2. ASSUME [ServiceNext]_serviceVars PROVE ScaffoldNext \/ UNCHANGED scaffoldVars
  <2> USE DEF serviceVars
  <2>1. ASSUME NEW p \in Pid, ShutdownOf(p) PROVE UNCHANGED scaffoldVars
        BY <2>1 DEF ShutdownOf, KillerExits, CallBack, CallAppend
  <2> QED
    BY <1>2, <2>1
    DEF ServiceNext, StartCycle, StartInServer, AskInBackground, ProbeHolder, CancelRun,
        TakeLock, RefuseLock, PrepareFails, OverBudget, Aborts, GraphEnds, RecordVerdict,
        CloseJob, SpawnEngine, RunExit, InitExit, Signal, StdinCloses, HostDies,
        WatchdogFires, InitCommand
<1>3. ListIsLate /\ [ServiceNext]_serviceVars => ListIsLate'
  <2> SUFFICES ASSUME ListIsLate, [ServiceNext]_serviceVars PROVE ListIsLate'
      OBVIOUS
  <2> USE DEF ListIsLate
  <2>1. CASE UNCHANGED scaffoldVars
        BY <2>1 DEF scaffoldVars
  <2>2. CASE Preflight \/ CopyReturns \/ Unwind
        BY <2>2 DEF Preflight, CopyReturns, Unwind, Unwound
  <2>3. ASSUME NEW g \in File, LookAt(g) PROVE ListIsLate'
        BY <2>3 DEF LookAt, Taken
  <2>4. ASSUME NEW g \in File, WriteFile(g) \/ CopyThrows(g) PROVE ListIsLate'
    <3>1. target' \in [File -> {"absent", "scaffolder", "user"}]
          BY <2>4 DEF WriteFile, CopyThrows
    <3> QED
        BY <2>4, <3>1 DEF WriteFile, CopyThrows
  <2> QED
      BY <1>2, <2>1, <2>2, <2>3, <2>4, WritingIsLate DEF ScaffoldNext
<1>4. ListIsLate /\ [ServiceNext]_serviceVars
        => [\A f \in File : target[f] = "user" /\ f \notin late
                              => target'[f] = "user"]_scaffoldVars
  <2> SUFFICES ASSUME ListIsLate, [ServiceNext]_serviceVars,
                      NEW f \in File, target[f] = "user", f \notin late
               PROVE  target'[f] = "user" \/ UNCHANGED scaffoldVars
      OBVIOUS
  <2>1. CASE UNCHANGED scaffoldVars
        BY <2>1
  <2>2. CASE Preflight \/ CopyReturns \/ \E g \in File : LookAt(g)
        BY <2>2 DEF Preflight, CopyReturns, LookAt
  <2>3. CASE Unwind
        BY <2>3 DEF Unwind, Unwound, ListIsLate
  <2>4. ASSUME NEW g \in File, WriteFile(g) \/ CopyThrows(g) PROVE target'[f] = "user"
    <3>1. \/ target' = target
          \/ g \in looked /\ \E w : target' = [target EXCEPT ![g] = w]
          BY <2>4 DEF WriteFile, CopyThrows
    <3>2. g \in looked => g # f
          BY DEF ListIsLate
    <3> QED
        BY <3>1, <3>2 DEF ListIsLate
  <2>5. ASSUME NEW g \in File, UserWrites(g) PROVE target'[f] = "user"
        BY <2>5 DEF UserWrites, ListIsLate
  <2> QED
      BY <1>2, <2>1, <2>2, <2>3, <2>4, <2>5 DEF ScaffoldNext
<1> QED
    BY <1>1, <1>3, <1>4, PTL DEF ServiceSpec, UserFilesAreKept

=============================================================================
