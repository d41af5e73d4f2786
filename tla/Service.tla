------------------------------ MODULE Service ------------------------------
(***************************************************************************)
(* The processes of the binary (cli.ts): one that a user or a host has     *)
(* started with a subcommand -- `run`, `mcp` or `init` -- and the detached *)
(* engines that an MCP server starts (commands.ts, mcp-server.ts).  Each   *)
(* has the signal handler of process-registry.ts, and a server also the    *)
(* watchdog on its parent (parent-watchdog.ts); both run killAll of the    *)
(* process registry, an external library, while the main flow goes on.  A  *)
(* job is one call of Engine.run from its lock to its return (engine.ts);  *)
(* what the lock file and the probes go through is module RunLock, what    *)
(* the graph does is module Scheduler; here a job has the lock or not.     *)
(***************************************************************************)
EXTENDS Scaffold

CONSTANTS Pid, Main,   \* processes, and the one that is there at first
          Job, Run,    \* calls of Engine.run, and what they run, both numbered
          None,
          Cycles,      \* --cycles
          MaxCancels   \* bound on the successful calls of cancel_run

ASSUME PidAssumption == Main \in Pid /\ None \notin Pid \cup Job \cup Run
ASSUME JobAssumption == Job \subseteq Nat /\ Run \subseteq Nat
ASSUME CyclesAssumption == Cycles \in Nat \ {0} /\ MaxCancels \in Nat

VARIABLES
  command,    \* the subcommand of the first process
  up,         \* of a process: "none" before its spawn, "up", "gone"
  code,       \* its exit code, "143" after any signal
  killing,    \* who has called killAll in it
  todo,       \* the shutdown callbacks that each of them has yet to run
  callbacks,  \* of its registry: the jobs that have registered theirs
  watchdog,   \* of a server: it still polls
  host,       \* who started the server is there
  probed,     \* the job whose holder a cancel_run of the server is about to signal
  lock,       \* the job that owns the workflow folder, or None
  stage,      \* where a job is
  at,         \* its process
  runOf,      \* its run
  resumed,    \* the jobs that resume theirs
  state,      \* its RunState.status
  journal,    \* of a run: the records that begin and end its attempts, with their jobs
  cancelled,  \* history: jobs that cancel_run has reported as cancelled
  settled,    \* history: jobs that had registered their callbacks before their
              \* process began to shut down
  hurried     \* history: jobs whose graph succeeded in a process that was shutting down

processVars == <<command, up, code, killing, todo, watchdog, host, probed>>
jobVars     == <<lock, stage, at, runOf, resumed, state, journal, callbacks>>
serviceHistory == <<cancelled, settled, hurried>>
serviceVars == <<processVars, jobVars, serviceHistory, scaffoldVars>>

Killer  == {"signal", "watchdog"}
Verdict == {"completed", "failed", "aborted"}
Fact    == {"started"} \cup Verdict

ShutsDown(p) == killing[p] # {}
JobsOf(p)    == {j \in Job : at[j] = p}
Over(j)      == stage[j] \in {"returned", "threw", "lost", "cut"}
Recorded(j)  == {w \in Fact : <<j, w>> \in journal[runOf[j]]}

Go(j, s) == stage' = [stage EXCEPT ![j] = s]
Add(j, w) == journal' = [journal EXCEPT ![runOf[j]] = @ \cup {<<j, w>>}]

InitService ==
  /\ InitScaffold
  /\ command \in {"run", "mcp", "init"}
  /\ command # "init" => folder
  /\ up = [p \in Pid |-> IF p = Main THEN "up" ELSE "none"]
  /\ code = [p \in Pid |-> "none"]
  /\ killing = [p \in Pid |-> {}]
  /\ todo = [p \in Pid |-> [k \in Killer |-> {}]]
  /\ watchdog = (command = "mcp") /\ host = TRUE
  /\ lock = None /\ probed = None
  /\ stage = [j \in Job |-> "none"] /\ at = [j \in Job |-> None]
  /\ runOf = [j \in Job |-> None] /\ resumed = {}
  /\ state = [j \in Job |-> "none"]
  /\ \E old \in SUBSET Run :  \* what a --resume may find
       /\ old # {} => command = "run"
       /\ journal = [r \in Run |-> IF r \in old THEN {None} \X {"started", "failed"} ELSE {}]
  /\ callbacks = [p \in Pid |-> {}]
  /\ cancelled = {} /\ settled = {} /\ hurried = {}

-----------------------------------------------------------------------------
(* Who calls Engine.run.                                                   *)

\* A fresh run has an id of its own, the next one; a resume replays a journal.
IsNew(r)     == journal[r] = {} /\ \A j \in Job : runOf[j] # r
CanRun(j, r) == /\ stage[j] = "none" /\ \A i \in Job : i < j => stage[i] # "none"
                /\ \/ journal[r] # {}
                   \/ IsNew(r) /\ (\A q \in Run : q < r => ~IsNew(q))

Opens(j, r, p) ==
  /\ Go(j, "opening")
  /\ at' = [at EXCEPT ![j] = p]
  /\ runOf' = [runOf EXCEPT ![j] = r]
  /\ state' = [state EXCEPT ![j] = "running"]
  /\ resumed' = IF journal[r] = {} THEN resumed ELSE resumed \cup {j}
  /\ UNCHANGED <<lock, journal, callbacks>>

\* Mutant: the result of a cycle is not looked at.
MayGoOnAlways(i) == stage[i] = "returned"

MayGoOn(i) == stage[i] = "returned" /\ state[i] = "completed"

\* How often a `run` calls the engine: --resume and --run-id exclude --cycles.
Wanted(p) == IF p = Main /\ \A j \in JobsOf(p) : j \notin resumed THEN Cycles ELSE 1

\* runEngine: a resume, or one cycle after the other.
StartCycle(j, r) ==
  /\ command = "run" /\ up[Main] = "up" /\ CanRun(j, r)
  /\ JobsOf(Main) # {} => journal[r] = {}
  /\ Cardinality(JobsOf(Main)) < Wanted(Main) /\ \A i \in JobsOf(Main) : MayGoOn(i)
  /\ Opens(j, r, Main)
  /\ UNCHANGED <<processVars, serviceHistory, scaffoldVars>>

Serves == command = "mcp" /\ up[Main] = "up"

\* start_run and resume_node with wait: the engine runs in the server.
StartInServer(j, r) ==
  /\ Serves /\ CanRun(j, r)
  /\ Opens(j, r, Main)
  /\ UNCHANGED <<processVars, serviceHistory, scaffoldVars>>

\* start_run and resume_node without: the folder is found free ...
AskInBackground(j, r) ==
  /\ Serves /\ CanRun(j, r) /\ lock = None
  /\ Go(j, "asked")
  /\ runOf' = [runOf EXCEPT ![j] = r]
  /\ UNCHANGED <<lock, at, resumed, state, journal, callbacks, processVars, serviceHistory,
                 scaffoldVars>>

\* ... and an engine of its own is spawned, whatever has happened since.
SpawnEngine(j, p) ==
  /\ Serves /\ stage[j] = "asked" /\ up[p] = "none"
  /\ up' = [up EXCEPT ![p] = "up"]
  /\ Opens(j, runOf[j], p)
  /\ UNCHANGED <<command, code, killing, todo, watchdog, host, probed, serviceHistory,
                 scaffoldVars>>

\* Mutant: the signal goes to the process that was asked.
HolderPidOwn(j) == Main

HolderPid(j) == at[j]

\* killAll takes down the agents of the process, and then calls the callbacks.
KillAll(p, k) == /\ killing' = [killing EXCEPT ![p] = @ \cup {k}]
                 /\ todo' = [todo EXCEPT ![p][k] = {<<j, "call">> : j \in callbacks[p]}]

\* installSignalHandlers: the handler starts one killAll in the life of a process.
Signalled(p) ==
  IF "signal" \in killing[p] THEN UNCHANGED <<killing, todo>> ELSE KillAll(p, "signal")

\* cancel_run: the run that is asked for has the folder ...
ProbeHolder(j) ==
  /\ Serves /\ lock = j /\ probed = None /\ Cardinality(cancelled) < MaxCancels
  /\ probed' = j
  /\ UNCHANGED <<command, up, code, killing, todo, watchdog, host, jobVars, serviceHistory,
                 scaffoldVars>>

\* ... and by the time its holder is signalled, that may have ended, or another job
\* may be under way in its process.  A process that is gone is not cancelled.
CancelRun(j) ==
  /\ Serves /\ probed = j
  /\ probed' = None
  /\ IF up[HolderPid(j)] = "up"
     THEN Signalled(HolderPid(j)) /\ cancelled' = cancelled \cup {j}
     ELSE UNCHANGED <<killing, todo, cancelled>>
  /\ UNCHANGED <<command, up, code, watchdog, host, jobVars, settled, hurried, scaffoldVars>>

-----------------------------------------------------------------------------
(* Engine.run.                                                             *)

IsAlive(j) == up[at[j]] = "up"

\* acquireLock, the callbacks of a job that has it, and the facts that open an
\* attempt.
TakeLock(j) ==
  /\ stage[j] = "opening" /\ IsAlive(j) /\ lock = None
  /\ lock' = j
  /\ Go(j, "working")
  /\ callbacks' = [callbacks EXCEPT ![at[j]] = @ \cup {j}]
  /\ settled' = IF ShutsDown(at[j]) THEN settled ELSE settled \cup {j}
  /\ Add(j, "started")
  /\ UNCHANGED <<at, runOf, resumed, state, processVars, cancelled, hurried,
                 scaffoldVars>>

\* A refused engine throws; its worktree and run folder stay.
RefuseLock(j) ==
  /\ stage[j] = "opening" /\ IsAlive(j) /\ lock # None
  /\ Go(j, "threw")
  /\ UNCHANGED <<lock, at, runOf, resumed, state, journal, callbacks, processVars,
                 serviceHistory, scaffoldVars>>

Released(j) == IF lock = j THEN None ELSE lock

\* The `finally` of run.
Closes(j, s) == /\ Go(j, s)
                /\ lock' = Released(j)
                /\ callbacks' = [callbacks EXCEPT ![at[j]] = @ \ {j}]

\* prepare_command, which a resume does not run, exits with an error:
\* runPrepareCommand throws, and nothing more is recorded.  The graph has not begun,
\* so no human has aborted the run.
PrepareFails(j) ==
  /\ stage[j] = "working" /\ IsAlive(j) /\ j \notin resumed /\ state[j] # "aborted"
  /\ Closes(j, "threw")
  /\ UNCHANGED <<at, runOf, resumed, state, journal, processVars, serviceHistory, scaffoldVars>>

\* The budget is spent when a resume begins.
OverBudget(j) ==
  /\ stage[j] = "working" /\ IsAlive(j) /\ j \in resumed /\ state[j] # "aborted"
  /\ state' = [state EXCEPT ![j] = "failed"]
  /\ Add(j, "failed")
  /\ Closes(j, "threw")
  /\ UNCHANGED <<at, runOf, resumed, processVars, serviceHistory, scaffoldVars>>

\* A human aborts the run (executeHitlNode, executeHumanNode): markRunAborted puts
\* that into the state at once, and records nothing; the siblings, the failure
\* hook and the nodes that wait for the outcome are still to come.
Aborts(j) ==
  /\ stage[j] = "working" /\ IsAlive(j) /\ state[j] # "aborted"
  /\ state' = [state EXCEPT ![j] = "aborted"]
  /\ UNCHANGED <<lock, stage, at, runOf, resumed, journal, callbacks, processVars,
                 serviceHistory, scaffoldVars>>

\* The verdict of the graph: success whatever a callback or a human has put into the
\* state, an abort where there is one, or else a failure ...
FinalState(j, success) ==
  IF success THEN "completed" ELSE IF state[j] = "aborted" THEN "aborted" ELSE "failed"

GraphEnds(j, success) ==
  /\ stage[j] = "working" /\ IsAlive(j)
  /\ Go(j, "verdict")
  /\ state' = [state EXCEPT ![j] = FinalState(j, success)]
  /\ hurried' = IF success /\ ShutsDown(at[j]) THEN hurried \cup {j} ELSE hurried
  /\ UNCHANGED <<lock, at, runOf, resumed, journal, callbacks, processVars, cancelled,
                 settled, scaffoldVars>>

\* ... and recorded by recordRunTerminal.
RecordVerdict(j) ==
  /\ stage[j] = "verdict" /\ IsAlive(j)
  /\ Go(j, "closing")
  /\ Add(j, state[j])
  /\ UNCHANGED <<lock, at, runOf, resumed, state, callbacks, processVars, serviceHistory,
                 scaffoldVars>>

CloseJob(j) ==
  /\ stage[j] = "closing" /\ IsAlive(j)
  /\ Closes(j, "returned")
  /\ UNCHANGED <<at, runOf, resumed, state, journal, processVars, serviceHistory, scaffoldVars>>

-----------------------------------------------------------------------------
(* How a process ends.                                                     *)

\* The kernel drops its lock and its threads; its agents are on their own.
Ends(p, c) ==
  /\ up[p] = "up"
  /\ up' = [up EXCEPT ![p] = "gone"]
  /\ code' = [code EXCEPT ![p] = c]
  /\ lock' = IF lock # None /\ at[lock] = p THEN None ELSE lock
  /\ stage' = [j \in Job |->
                  IF at[j] = p /\ stage[j] = "verdict" THEN "cut"
                  ELSE IF (at[j] = p /\ ~Over(j)) \/ (p = Main /\ stage[j] = "asked")
                  THEN "lost" ELSE stage[j]]
  /\ todo' = [todo EXCEPT ![p] = [k \in Killer |-> {}]]
  /\ callbacks' = [callbacks EXCEPT ![p] = {}]
  /\ UNCHANGED <<command, killing, watchdog, host, probed, at, runOf, resumed, state, journal,
                 serviceHistory>>

\* runEngine, in an engine that a user or a server has started.
RunExit(p) ==
  /\ p = Main => command = "run"
  /\ \/ /\ \E j \in JobsOf(p) : stage[j] = "threw"
        /\ Ends(p, "2")
     \/ /\ \E j \in JobsOf(p) : stage[j] = "returned" /\ state[j] # "completed"
        /\ Ends(p, "1")
     \/ /\ Cardinality(JobsOf(p)) = Wanted(p) /\ \A j \in JobsOf(p) : MayGoOn(j)
        /\ Ends(p, "0")
  /\ UNCHANGED scaffoldVars

InitExit ==
  /\ command = "init" /\ ScaffoldEnds
  /\ Ends(Main, IF scaffold = "done" THEN "0" ELSE "1")
  /\ UNCHANGED scaffoldVars

\* stdin of a server is closed: it exits, whatever it has under way.
StdinCloses ==
  /\ command = "mcp"
  /\ Ends(Main, "0")
  /\ UNCHANGED scaffoldVars

HostDies ==
  /\ command = "mcp" /\ host /\ up[Main] = "up"
  /\ host' = FALSE
  /\ UNCHANGED <<command, up, code, killing, todo, watchdog, probed, jobVars, serviceHistory,
                 scaffoldVars>>

\* A user's or the host's signal to the first process; the others are signalled by
\* cancel_run.
Signal ==
  /\ up[Main] = "up" /\ "signal" \notin killing[Main]
  /\ Signalled(Main)
  /\ UNCHANGED <<command, up, code, watchdog, host, probed, jobVars, serviceHistory,
                 scaffoldVars>>

\* Mutant: the parent is looked at once, when the server starts.
OrphanedNever == FALSE

\* parentIsOrphaned: init is the parent.
Orphaned == ~host

\* A poll that finds the parent gone is the last one.
WatchdogFires ==
  /\ watchdog /\ up[Main] = "up" /\ Orphaned
  /\ watchdog' = FALSE
  /\ KillAll(Main, "watchdog")
  /\ UNCHANGED <<command, up, code, host, probed, jobVars, serviceHistory,
                 scaffoldVars>>

Done(p, k, h) == todo' = [todo EXCEPT ![p][k] = @ \ {h}]

\* Mutant: whatever has not failed counts as running.
StillRunsUnlessFailed(j) == state[j] # "failed"

StillRuns(j) == state[j] = "running"

\* The callbacks are awaited one after the other: the lock is released, a run that
\* still runs is marked as failed, and then that is recorded ...
CallBack(p, k, j) ==
  /\ up[p] = "up" /\ <<j, "call">> \in todo[p][k]
  /\ lock' = Released(j)
  /\ IF StillRuns(j)
     THEN /\ todo' = [todo EXCEPT ![p][k] = (@ \ {<<j, "call">>}) \cup {<<j, "append">>}]
          /\ state' = [state EXCEPT ![j] = "failed"]
     ELSE Done(p, k, <<j, "call">>) /\ UNCHANGED state
  /\ UNCHANGED <<command, up, code, killing, watchdog, host, probed, stage, at, runOf, resumed,
                 journal, callbacks, serviceHistory, scaffoldVars>>

CallAppend(p, k, j) ==
  /\ up[p] = "up" /\ <<j, "append">> \in todo[p][k]
  /\ Done(p, k, <<j, "append">>)
  /\ Add(j, "failed")
  /\ UNCHANGED <<command, up, code, killing, watchdog, host, probed, lock, stage, at, runOf, resumed,
                 state, callbacks, serviceHistory, scaffoldVars>>

\* Mutant: the process exits while killAll is under way.
AwaitedNever(p, k) == TRUE

Awaited(p, k) == todo[p][k] = {}

\* ... and the process exits.
KillerExits(p, k) ==
  /\ k \in killing[p] /\ Awaited(p, k)
  /\ Ends(p, "143")
  /\ UNCHANGED scaffoldVars

InitCommand ==
  /\ command = "init" /\ up[Main] = "up" /\ ScaffoldNext
  /\ UNCHANGED <<processVars, jobVars, serviceHistory>>

ShutdownOf(p) == \E k \in Killer :
  \/ KillerExits(p, k)
  \/ \E j \in Job : CallBack(p, k, j) \/ CallAppend(p, k, j)

ServiceNext ==
  \/ \E j \in Job, r \in Run :
       StartCycle(j, r) \/ StartInServer(j, r) \/ AskInBackground(j, r)
  \/ \E j \in Job :
       \/ ProbeHolder(j) \/ CancelRun(j) \/ TakeLock(j) \/ RefuseLock(j)
       \/ PrepareFails(j) \/ OverBudget(j)
       \/ Aborts(j) \/ GraphEnds(j, TRUE) \/ GraphEnds(j, FALSE)
       \/ RecordVerdict(j) \/ CloseJob(j)
  \/ \E p \in Pid :
       \/ \E j \in Job : SpawnEngine(j, p)
       \/ RunExit(p) \/ ShutdownOf(p)
  \/ InitExit \/ Signal \/ StdinCloses \/ HostDies \/ WatchdogFires \/ InitCommand

ServiceSpec == InitService /\ [][ServiceNext]_serviceVars

\* The runtime runs callbacks and timers; nobody has to send a signal, an agent
\* may take for ever, and so may a graph.
Fairness == /\ \A p \in Pid : WF_serviceVars(ShutdownOf(p))
            /\ WF_serviceVars(WatchdogFires)

FairServiceSpec == ServiceSpec /\ Fairness

-----------------------------------------------------------------------------
(* Properties.                                                             *)

\* Every variable holds a value of its type; the lock is that of a job of a
\* process that is up, and a callback left to call is one that was registered.
ServiceTypeOK ==
  /\ command \in {"run", "mcp", "init"}
  /\ up \in [Pid -> {"none", "up", "gone"}] /\ code \in [Pid -> {"none", "0", "1", "2", "143"}]
  /\ killing \in [Pid -> SUBSET Killer] /\ watchdog \in BOOLEAN /\ host \in BOOLEAN
  /\ todo \in [Pid -> [Killer -> SUBSET (Job \X {"call", "append"})]]
  /\ probed \in Job \cup {None}
  /\ lock # None => lock \in Job /\ up[at[lock]] = "up"
  /\ at \in [Job -> Pid \cup {None}] /\ runOf \in [Job -> Run \cup {None}]
  /\ stage \in [Job -> {"none", "asked", "opening", "working", "verdict", "closing",
                        "returned", "threw", "lost", "cut"}]
  /\ state \in [Job -> {"none", "running"} \cup Verdict]
  /\ journal \in [Run -> SUBSET ((Job \cup {None}) \X Fact)]
  /\ \A p \in Pid : callbacks[p] \subseteq JobsOf(p)
  /\ resumed \cup cancelled \cup settled \cup hurried \subseteq Job
  /\ \A p \in Pid : up[p] = "none" => ~ShutsDown(p) /\ JobsOf(p) = {}

\* A success that is announced stands.  A process that exits with 0 has recorded
\* run_completed for each run it made, and a job has both run_completed and
\* run_failed in its journal only when its process was already shutting down
\* before its graph ended: a signal that comes between the verdict, its record and
\* the exit does not add a failure to a success (runWithLock puts the verdict into the
\* state before it awaits the record; the shutdown callback of Engine.run).
SuccessStands ==
  /\ \A p \in Pid : code[p] = "0" /\ ~(p = Main /\ command # "run") =>
        \A j \in JobsOf(p) : "completed" \in Recorded(j)
  /\ \A j \in Job :
       runOf[j] # None /\ {"completed", "failed"} \subseteq Recorded(j) => j \in hurried

\* A process that one killAll shuts down exits only after the callbacks: a run
\* that had registered them before has its verdict, unless the main flow was just
\* writing it, or a human had aborted the run and the graph was not at its end
\* (FR-E25; AbortedRunsAreSettled says what happens there).
ShutdownSettlesRuns ==
  \A p \in Pid : code[p] = "143" /\ Cardinality(killing[p]) = 1 =>
     \A j \in settled \cap JobsOf(p) :
        stage[j] = "lost" /\ Recorded(j) \cap Verdict = {} => state[j] = "aborted"

\* Whoever is told to stop stops: a process that has received a signal, and a
\* server whose host has died without one, also when both happen (FR-E25, FR-E83).
StopsWhenTold == ("signal" \in killing[Main] \/ ~host) ~> up[Main] = "gone"

\* Every run that cancel_run has reported as cancelled comes to an end, also when it
\* had ended, or made room for another, between the probe and the signal.
CancelledRunsEnd == cancelled # {} ~> \A j \in cancelled : Over(j)

-----------------------------------------------------------------------------
(* What documents and comments say and the code does not do.               *)

\* An engine that ends by itself records how its run has ended: without that,
\* its journal's last word is "run_started, i.e. a run that looks alive
\* forever" (comment on the budget check of runWithLock).
EndsWithAVerdict ==
  \A j \in settled : stage[j] \in {"returned", "threw"} => Recorded(j) # {"started"}

\* "Terminal run records (`run_completed`, `run_failed`, `run_aborted`) are
\* authoritative" (05-cli-and-observability.md:396), so a run that a human has aborted
\* has one once its process is gone.  A signal during the failure hook, a sibling
\* or the outcome wave finds a status other than running, and records nothing.
AbortedRunsAreSettled ==
  \A j \in settled : state[j] = "aborted" /\ stage[j] = "lost" /\ code[at[j]] = "143" =>
     Recorded(j) \cap Verdict # {}

=============================================================================
