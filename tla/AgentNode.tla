----------------------------- MODULE AgentNode -----------------------------
(***************************************************************************)
(* What the scheduler calls the work of one node, for the nodes that can   *)
(* stop and ask a human.                                                   *)
(*                                                                         *)
(* An agent node (executeAgentNode) takes turns with its runtime           *)
(* (runAgent): a first turn, then, while its rules fail, continuations of  *)
(* the same session.  A turn in which the agent asks a question ends       *)
(* there; the node is recorded as waiting, ask_script delivers the         *)
(* question, and runHitlLoop polls the inbox and check_script until there  *)
(* is a reply, which it sends to the session that asked.  A hitl node      *)
(* (runHitlNode) asks and polls without an agent.                          *)
(*                                                                         *)
(* Beside the engine there are the people: a writer is one call of         *)
(* deliverHumanAnswer, which tests the record of the node and then writes  *)
(* the inbox, and somebody may reply where ask_script delivered.  The      *)
(* engine may die at any moment; a later start of the node goes by its     *)
(* record.  Every change of the record is journalled before the engine     *)
(* goes on, so memory and journal are one variable (see Journal).          *)
(*                                                                         *)
(* Questions and sessions are numbered; 0 stands for none.  An answer is   *)
(* the question that its author had read.                                  *)
(***************************************************************************)
EXTENDS Naturals, FiniteSets

CONSTANTS Writer,            \* the calls of deliverHumanAnswer that can overlap
          MaxContinuations,  \* settings.max_continuations
          MaxStarts,         \* bound on the starts of the node
          MaxQuestions,      \* bound on the questions
          MaxAnswers         \* bound on the answers that are accepted

ASSUME BoundsAssumption ==
  /\ MaxContinuations \in Nat
  /\ MaxStarts \in Nat
  /\ MaxQuestions \in Nat
  /\ MaxAnswers \in Nat

Question == 1 .. MaxQuestions
Session  == 1 .. MaxStarts

VARIABLES
  kind,      \* node.type, "agent" or "hitl"
  rules,     \* the node has validate rules or allowed_paths
  hitl,      \* defaults.hitl is configured, and the runtime takes MCP servers
  node,      \* the record of the node: status, session_id, question_json
  pc,        \* where the engine is in its work on the node
  work,      \* its local variables, see Work
  starts,    \* the starts so far
  raised,    \* the questions raised so far
  asked,     \* how often ask_script delivered a question
  inbox,     \* the answer in the inbox file
  remote,    \* the reply that check_script would report
  writer,    \* the answer a writer is about to put in the inbox
  accepted,  \* the answers accepted so far
  audit,     \* the records of a question in hitl.jsonl
  asker,     \* history: the session that raised a question
  answered,  \* history: how often a session was sent a reply to a question
  cut,       \* history: how often a crash cut short the turn after a reply
  sent,      \* history: the last reply that a session was sent
  strayed    \* history: an answer was left, or came, when its wait was over

engine == <<hitl, node, pc, work, starts>>
people == <<remote, writer, accepted>>
history == <<asker, answered, cut, sent, strayed>>
vars == <<kind, rules, engine, raised, asked, inbox, people, audit, history>>

Statuses == {"pending", "running", "waiting", "completed", "failed"}
PCs == {"down", "turn", "check", "finish", "gate", "ask", "poll", "probe",
        "record", "resume", "reply"}

(* The locals of runAgent and runHitlLoop: the session of the last result, *)
(* the question its observer captured, whether it carried an error, the    *)
(* continuations, whether the last turn's work passed the rules, whether a *)
(* human was asked, the question asked, whether its deadline has passed,   *)
(* and the reply in hand with the channel it came by.                      *)
Work == [session : 0 .. MaxStarts, heard : 0 .. MaxQuestions, error : BOOLEAN,
         continuations : 0 .. MaxContinuations, valid : BOOLEAN, human : BOOLEAN,
         asking : 0 .. MaxQuestions, late : BOOLEAN,
         reply : 0 .. MaxQuestions, local : BOOLEAN]

Idle == [session |-> 0, heard |-> 0, error |-> FALSE, continuations |-> 0,
         valid |-> FALSE, human |-> FALSE, asking |-> 0, late |-> FALSE,
         reply |-> 0, local |-> FALSE]

Init ==
  /\ kind \in {"agent", "hitl"}
  /\ rules \in BOOLEAN
  /\ hitl = FALSE
  /\ node = [status |-> "pending", session |-> 0, question |-> 0]
  /\ pc = "down"
  /\ work = Idle
  /\ starts = 0
  /\ raised = 0
  /\ asked = [q \in Question |-> 0]
  /\ inbox = 0
  /\ remote = 0
  /\ writer = [w \in Writer |-> 0]
  /\ accepted = 0
  /\ audit = [q \in Question |-> 0]
  /\ asker = [q \in Question |-> 0]
  /\ answered = [q \in Question |-> 0]
  /\ cut = [q \in Question |-> 0]
  /\ sent = [to |-> 0, of |-> 0, text |-> 0, local |-> FALSE]
  /\ strayed = FALSE

-----------------------------------------------------------------------------
(* The record of the node.                                                 *)

\* nodeFailed, and the return of executeNode.
Fail ==
  /\ node' = [node EXCEPT !.status = "failed"]
  /\ pc' = "down"

(* nodeCompleted with the session that recordSession took; a node that has *)
(* cost more than its own budget is demoted.                               *)
Complete(session) ==
  /\ \E status \in {"completed", "failed"} :
       node' = [node EXCEPT !.status = status, !.session = session]
  /\ pc' = "down"

\* The wait for an answer ends otherwise than by the inbox, which is not read.
StopWaiting == strayed' = (strayed \/ inbox # 0)

\* A question is raised, by a session or by a hitl node (session 0).
Raise(session) ==
  /\ raised < MaxQuestions
  /\ raised' = raised + 1
  /\ asker' = [asker EXCEPT ![raised + 1] = session]

-----------------------------------------------------------------------------
(* executeNode: what the record says is read before nodeStarted overwrites *)
(* it.                                                                     *)

(* A start in an engine process of its own, which has read workflow.yaml   *)
(* again.                                                                  *)
Starts ==
  /\ pc = "down"
  /\ node.status # "completed"
  /\ starts < MaxStarts
  /\ starts' = starts + 1
  /\ hitl' \in BOOLEAN
  /\ UNCHANGED <<kind, rules, asked, inbox, people, audit, answered, cut, sent>>

(* The first turn, in a new session.                                       *)
StartTurn ==
  /\ Starts
  /\ kind = "agent"
  /\ node.status # "waiting"
  /\ node' = [node EXCEPT !.status = "running"]
  /\ work' = Idle
  /\ pc' = "turn"
  /\ UNCHANGED <<raised, asker, strayed>>

\* Mutant: the question is asked again.
WaitAsking ==
  /\ node' = [node EXCEPT !.status = "running"]
  /\ work' = [Idle EXCEPT !.session = node.session, !.asking = node.question,
                          !.human = TRUE]
  /\ pc' = "ask"

(* The node was waiting: poll on for the question of its record.           *)
WaitOn ==
  /\ node' = [node EXCEPT !.status = "running"]
  /\ work' = [Idle EXCEPT !.session = node.session, !.asking = node.question,
                          !.human = TRUE]
  /\ pc' = "poll"

StartWaiting ==
  /\ Starts
  /\ kind = "agent"
  /\ node.status = "waiting"
  /\ IF hitl' /\ node.session # 0 /\ node.question # 0
     THEN WaitOn /\ UNCHANGED strayed
     ELSE Fail /\ StopWaiting /\ UNCHANGED work
  /\ UNCHANGED <<raised, asker>>

(* A hitl node asks anew at every start.                                   *)
StartHitlNode ==
  /\ Starts
  /\ kind = "hitl"
  /\ IF hitl'
     THEN /\ Raise(0)
          /\ node' = [node EXCEPT !.status = "running"]
          /\ work' = [Idle EXCEPT !.asking = raised + 1, !.human = TRUE]
          /\ pc' = "ask"
     ELSE Fail /\ UNCHANGED <<work, raised, asker>>
  /\ UNCHANGED strayed

-----------------------------------------------------------------------------
(* runAgent.                                                               *)

\* Only the engine's work on the node changes in these steps.
Inside == UNCHANGED <<kind, rules, hitl, starts, asked, inbox, people, audit,
                      answered, cut, sent>>

(* The session that a turn runs in: a continuation's is the last one's.    *)
TurnSession == IF work.continuations = 0 THEN starts ELSE work.session

(* The observer has captured a question: runAgent returns at once, before  *)
(* the rules.  An abort by the observer leaves a result with a session.    *)
TurnAsks ==
  /\ pc = "turn"
  /\ hitl
  /\ Raise(TurnSession)
  /\ work' = [work EXCEPT !.session = TurnSession, !.heard = raised + 1]
  /\ pc' = "gate"
  /\ Inside /\ UNCHANGED <<node, strayed>>

(* The turn ends with a result: in a continuation even one with an error,  *)
(* which may have no output and so no session; in the first turn an error  *)
(* without output, or an is_error, fails the node (TurnFails).             *)
TurnEnds ==
  /\ pc = "turn"
  /\ \E error \in BOOLEAN, session \in {0, TurnSession} :
       /\ session = 0 => error /\ work.continuations > 0
       /\ work' = [work EXCEPT !.session = session, !.error = error]
  /\ pc' = "check"
  /\ Inside /\ UNCHANGED <<node, raised, asker, strayed>>

(* The before hook or the runtime throws, the wall-clock budget is         *)
(* exceeded, the stream log cannot be written, or the first turn errs.     *)
TurnFails ==
  /\ pc = "turn"
  /\ Fail
  /\ Inside /\ UNCHANGED <<work, raised, asker, strayed>>

(* The head of the continuation loop: no rules, or all of them pass.       *)
CheckPasses ==
  /\ pc = "check"
  /\ work' = [work EXCEPT !.valid = TRUE]
  /\ pc' = "finish"
  /\ Inside /\ UNCHANGED <<node, raised, asker, strayed>>

(* A rule fails: the same session is sent the failures.                    *)
Continue ==
  /\ pc = "check" /\ rules
  /\ work.continuations < MaxContinuations
  /\ work.session # 0
  /\ work' = [work EXCEPT !.continuations = @ + 1, !.valid = FALSE]
  /\ pc' = "turn"
  /\ Inside /\ UNCHANGED <<node, raised, asker, strayed>>

(* A rule fails for good: the limit is reached, or there is no session.    *)
GiveUp ==
  /\ pc = "check" /\ rules
  /\ work.continuations >= MaxContinuations \/ work.session = 0
  /\ Fail
  /\ Inside /\ UNCHANGED <<work, raised, asker, strayed>>

\* Mutant: the error of a continuation is not looked at.
FinishAnyTurns ==
  /\ pc = "finish"
  /\ pc' = "gate"
  /\ Inside /\ UNCHANGED <<node, work, raised, asker, strayed>>

(* The last result's error, the after hook, the flush of the stream log.   *)
FinishTurns ==
  /\ pc = "finish"
  /\ ~work.error
  /\ pc' = "gate"
  /\ Inside /\ UNCHANGED <<node, work, raised, asker, strayed>>

FinishFails ==
  /\ pc = "finish"
  /\ Fail
  /\ Inside /\ UNCHANGED <<work, raised, asker, strayed>>

-----------------------------------------------------------------------------
(* executeAgentNode after runAgent has succeeded.                          *)

(* A leak out of the tree, or memory files that were not committed.        *)
Reject ==
  /\ pc = "gate"
  /\ Fail
  /\ Inside /\ UNCHANGED <<work, raised, asker, strayed>>

(* handleAgentHitl: the node is waiting, and the journal has it, before    *)
(* the question is delivered.                                              *)
Wait ==
  /\ pc = "gate"
  /\ work.heard # 0
  /\ node' = [status |-> "waiting", session |-> work.session, question |-> work.heard]
  /\ work' = [work EXCEPT !.asking = work.heard, !.human = TRUE]
  /\ pc' = "ask"
  /\ Inside /\ UNCHANGED <<raised, asker, strayed>>

(* The answer and the attempt are recorded, and the node completes.        *)
Deliver ==
  /\ pc = "gate"
  /\ work.heard = 0
  /\ Complete(work.session)
  /\ Inside /\ UNCHANGED <<work, raised, asker, strayed>>

-----------------------------------------------------------------------------
(* runHitlLoop, and runHitlNode, which asks and polls in the same way.     *)

(* ask_script; what it delivered last is what check_script looks at.       *)
Ask ==
  /\ pc = "ask"
  /\ asked' = [asked EXCEPT ![work.asking] = @ + 1]
  /\ remote' = 0
  /\ pc' = "poll"
  /\ UNCHANGED <<kind, rules, hitl, node, work, starts, raised, inbox, writer,
                 accepted, audit, history>>

AskFails ==
  /\ pc = "ask"
  /\ Fail /\ StopWaiting
  /\ Inside /\ UNCHANGED <<work, raised, asker>>

DeadlinePasses ==
  /\ pc \in {"poll", "probe"}
  /\ ~work.late
  /\ work' = [work EXCEPT !.late = TRUE]
  /\ Inside /\ UNCHANGED <<node, pc, raised, asker, strayed>>

\* Mutant: check_script is asked again after the deadline.
TryOnceMore ==
  /\ pc = "poll"
  /\ work.late
  /\ pc' = "probe"
  /\ Inside /\ UNCHANGED <<node, work, raised, asker, strayed>>

(* The deadline is looked at after the sleep and before the inbox.         *)
TimeOut ==
  /\ pc = "poll"
  /\ work.late
  /\ Fail /\ StopWaiting
  /\ Inside /\ UNCHANGED <<work, raised, asker>>

\* Mutant: the inbox is read and not removed.
PeekInbox ==
  /\ pc = "poll"
  /\ ~work.late
  /\ inbox # 0
  /\ work' = [work EXCEPT !.reply = inbox, !.local = TRUE]
  /\ pc' = "record"
  /\ UNCHANGED <<kind, rules, hitl, node, starts, raised, asked, inbox, people,
                 audit, history>>

(* readAndConsumeInbox.                                                    *)
PickUp ==
  /\ pc = "poll"
  /\ ~work.late
  /\ inbox # 0
  /\ work' = [work EXCEPT !.reply = inbox, !.local = TRUE]
  /\ inbox' = 0
  /\ pc' = "record"
  /\ UNCHANGED <<kind, rules, hitl, node, starts, raised, asked, people, audit, history>>

FindNothing ==
  /\ pc = "poll"
  /\ ~work.late
  /\ inbox = 0
  /\ pc' = "probe"
  /\ Inside /\ UNCHANGED <<node, work, raised, asker, strayed>>

(* check_script: a reply, nothing yet, or a transient error.               *)
ProbeReplies ==
  /\ pc = "probe"
  /\ remote # 0
  /\ work' = [work EXCEPT !.reply = remote, !.local = FALSE]
  /\ pc' = "record"
  /\ StopWaiting
  /\ Inside /\ UNCHANGED <<node, raised, asker>>

ProbeFails ==
  /\ pc = "probe"
  /\ pc' = "poll"
  /\ Inside /\ UNCHANGED <<node, work, raised, asker, strayed>>

(* appendHitlAuditRecord: before the session is resumed.                   *)
RecordReply ==
  /\ audit' = [audit EXCEPT ![work.asking] = @ + 1]
  /\ UNCHANGED <<kind, rules, hitl, starts, asked, inbox, people, raised, asker,
                 answered, cut, sent>>

RecordAgentReply ==
  /\ pc = "record" /\ kind = "agent"
  /\ RecordReply
  /\ pc' = "resume"
  /\ UNCHANGED <<node, work, strayed>>

(* recordReply of a hitl node: the reply is its artifact, or it aborts.    *)
RecordHitlReply ==
  /\ pc = "record" /\ kind = "hitl"
  /\ RecordReply
  /\ Complete(node.session) \/ Fail
  /\ UNCHANGED <<work, strayed>>

(* resumeWithReply: the reply becomes the next turn of the session.        *)
Resume ==
  /\ pc = "resume"
  /\ answered' = [answered EXCEPT ![work.asking] = @ + 1]
  /\ sent' = [to |-> work.session, of |-> work.asking, text |-> work.reply,
              local |-> work.local]
  /\ work' = [work EXCEPT !.heard = 0]
  /\ pc' = "reply"
  /\ UNCHANGED <<kind, rules, hitl, node, starts, asked, inbox, people, audit,
                 raised, asker, cut, strayed>>

(* The turn after the reply: its result is the node's, with whatever the   *)
(* observer of this turn captured left unread by executeAgentNode.         *)
ReplyEnds ==
  /\ pc = "reply"
  /\ Complete(work.session)
  /\ Inside /\ UNCHANGED <<work, raised, asker, strayed>>

ReplyAsks ==
  /\ pc = "reply"
  /\ Raise(work.session)
  /\ work' = [work EXCEPT !.heard = raised + 1]
  /\ Complete(work.session)
  /\ Inside /\ UNCHANGED strayed

ReplyFails ==
  /\ pc = "reply"
  /\ Fail
  /\ Inside /\ UNCHANGED <<work, raised, asker, strayed>>

-----------------------------------------------------------------------------
(* The engine dies.                                                        *)
Crash ==
  /\ pc # "down"
  /\ pc' = "down"
  /\ work' = Idle
  /\ cut' = IF pc = "reply" THEN [cut EXCEPT ![work.asking] = @ + 1] ELSE cut
  /\ strayed' = (strayed \/ (inbox # 0 /\ node.status # "waiting"))
  /\ UNCHANGED <<kind, rules, hitl, node, starts, raised, asked, inbox, people,
                 audit, asker, answered, sent>>

(* deliverHumanAnswer replays the journal, which must have the node        *)
(* waiting, ...                                                            *)
Accept(w) ==
  /\ writer[w] = 0
  /\ accepted < MaxAnswers
  /\ node.status = "waiting"
  /\ writer' = [writer EXCEPT ![w] = node.question]
  /\ accepted' = accepted + 1
  /\ UNCHANGED <<kind, rules, engine, raised, asked, inbox, remote, audit, history>>

\* The engine waits for an answer to q, or will when the node resumes.
StillOpen(q) ==
  \/ pc \in {"ask", "poll", "probe"} /\ work.asking = q
  \/ pc = "down" /\ node.status = "waiting" /\ node.question = q

(* ... and puts the answer in the inbox, over whatever is there.           *)
WriteInbox(w) ==
  /\ writer[w] # 0
  /\ inbox' = writer[w]
  /\ writer' = [writer EXCEPT ![w] = 0]
  /\ strayed' = (strayed \/ ~StillOpen(writer[w]))
  /\ UNCHANGED <<kind, rules, engine, raised, asked, remote, accepted, audit,
                 asker, answered, cut, sent>>

(* Somebody replies to the question that was delivered last.               *)
RemoteReply ==
  /\ remote = 0
  /\ \E q \in Question :
       /\ asked[q] > 0
       /\ \A p \in Question : asked[p] > 0 => p <= q
       /\ remote' = q
  /\ UNCHANGED <<kind, rules, engine, raised, asked, inbox, writer, accepted,
                 audit, history>>

-----------------------------------------------------------------------------

AnyStart == StartTurn \/ StartWaiting \/ StartHitlNode

EngineStep ==
  \/ TurnAsks \/ TurnEnds \/ TurnFails
  \/ CheckPasses \/ Continue \/ GiveUp
  \/ FinishTurns \/ FinishFails
  \/ Reject \/ Wait \/ Deliver
  \/ Ask \/ AskFails
  \/ TimeOut \/ PickUp \/ FindNothing
  \/ ProbeReplies \/ ProbeFails
  \/ RecordAgentReply \/ RecordHitlReply
  \/ Resume \/ ReplyEnds \/ ReplyAsks \/ ReplyFails

Next ==
  \/ AnyStart
  \/ EngineStep
  \/ DeadlinePasses
  \/ Crash
  \/ \E w \in Writer : Accept(w) \/ WriteInbox(w)
  \/ RemoteReply

Spec == Init /\ [][Next]_vars

(* Turns and scripts end, and time goes by.  Nothing makes the engine      *)
(* start, a human answer, or a crash happen.                               *)
FairSpec == Spec /\ WF_vars(EngineStep) /\ WF_vars(DeadlinePasses)

-----------------------------------------------------------------------------
(* Properties.                                                             *)

(* Every variable holds a value of its type; the continuations stay within *)
(* max_continuations.                                                      *)
TypeOK ==
  /\ kind \in {"agent", "hitl"}
  /\ rules \in BOOLEAN
  /\ hitl \in BOOLEAN
  /\ node \in [status : Statuses, session : 0 .. MaxStarts, question : 0 .. MaxQuestions]
  /\ pc \in PCs
  /\ work \in Work
  /\ starts \in 0 .. MaxStarts
  /\ raised \in 0 .. MaxQuestions
  /\ asked \in [Question -> Nat]
  /\ inbox \in 0 .. MaxQuestions
  /\ remote \in 0 .. MaxQuestions
  /\ writer \in [Writer -> 0 .. MaxQuestions]
  /\ accepted \in 0 .. MaxAnswers
  /\ audit \in [Question -> Nat]
  /\ asker \in [Question -> 0 .. MaxStarts]
  /\ answered \in [Question -> Nat]
  /\ cut \in [Question -> Nat]
  /\ sent \in [to : 0 .. MaxStarts, of : 0 .. MaxQuestions, text : 0 .. MaxQuestions,
               local : BOOLEAN]
  /\ strayed \in BOOLEAN

(* A question is delivered once, however often the engine dies and starts  *)
(* again: handleAgentHitl skips ask_script for a node that was waiting.    *)
AskedAtMostOnce == \A q \in Question : asked[q] <= 1

(* An agent hears the answer to a question once, but for the turns that a  *)
(* crash cut short: a node that was answered is not left waiting.          *)
AnsweredOnce == \A q \in Question : answered[q] <= 1 + cut[q]

(* Together: one question, one delivery, one answer (FR-E8).               *)
OneQuestionOneAnswer == AskedAtMostOnce /\ AnsweredOnce

(* A reply goes to the session that raised the question, across crashes,   *)
(* failed attempts and new sessions of the node.                           *)
ReplyReachesAsker == sent.of # 0 => sent.to = asker[sent.of]

(* What the inbox gave an agent was written for its question, unless an    *)
(* answer came when its wait was over, or was left behind by one: the      *)
(* inbox is named after the node, not after the question.                  *)
InboxAnswersItsQuestion == sent.local /\ ~strayed => sent.text = sent.of

(* No session hears an answer that hitl.jsonl does not hold (FR-E64).      *)
AuditedBeforeUse == \A q \in Question : answered[q] <= audit[q]

(* Together: what a session hears is the recorded answer to the question   *)
(* that it raised itself (resumeWithReply, appendHitlAuditRecord).         *)
AnswerFitsQuestion == ReplyReachesAsker /\ InboxAnswersItsQuestion /\ AuditedBeforeUse

(* An agent that asked nobody completes only with work that has passed its *)
(* rules in its last turn, which reported no error.                        *)
CompletedWorkIsChecked ==
  node.status = "completed" /\ kind = "agent" /\ ~work.human =>
    /\ rules => work.valid
    /\ ~work.error

(* A node that does not ask, or is not answered, comes to an end too.      *)
AttemptSettles == (pc # "down") ~> (pc = "down")

(* FR-E8: mcpServers are injected again "so nested HITL on resume is       *)
(* supported": the node does not complete over a question of its agent.    *)
NestedQuestionIsHeard == node.status = "completed" => work.heard = 0

(* handleAgentHitl: "skipAsk - question already delivered".                *)
PolledQuestionWasAsked == pc \in {"poll", "probe"} => asked[work.asking] > 0

=============================================================================
