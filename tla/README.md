# A verification project for flowai-workflow

TLA+ models of the workflow engine in `src/src`, TLC configurations that check
them on small instances, and proofs checked by TLAPS. All paths below are
relative to the repository's `src/` directory unless they name a module.

Contents: 1 Inventory - 2 Plan - 3 Modules - 4 Runs, bounds and fairness -
5 Proofs - 6 Where code and documents disagree - 7 Not modelled.

## 1. Inventory

The engine runs a *workflow*: a graph of nodes (agents, commands, humans,
loops, forks) read from `workflow.yaml`. One `Engine` is one JavaScript thread
in one process. Inside it, nodes are asynchronous tasks that interleave at
`await`s only. Between processes (several engines, the MCP server, the CLI) there
is the file system: the lock file, the journal, the inbox of a question, git.

| Component | State | Operations | Hard behaviour | What makes it correct |
|---|---|---|---|---|
| **Workflow graph** (`config/config.ts`, `engine/dag.ts`, `isolation/branch-scope.ts`) | none; derived from the config | branch membership, terminals, dependencies, cycle search, levels | joins have edges no input names | the cycle verdict is right, levels respect every edge, a join comes after all of its group |
| **Config loading** (`config/config.ts`, `config/migrate.ts`, `isolation/glob.ts`, `config/template.ts`) | the parsed document | migrate, validate, merge defaults, validate again | rules that compare nodes pairwise, over a graph, across levels of settings | what is accepted can be run: sessions, scopes, loops, questions and variables resolve |
| **Run scheduler** (`engine/engine.ts`, `engine/node-dispatch.ts`) | run status, node statuses, `untaken`, `failedGroups`, locals of `runNodes` | `run`, `runWithLock`, `runNodes`, `gateNode`, `runScheduledNode` | tasks settle while the loop awaits; failure modes; two waves; crash and resume | order, caps, exclusive nodes, joins; the record is true; done work is not redone; every attempt ends |
| **Run journal** (`state/run-journal.ts`, `engine/node-lifecycle.ts`, `state/state.ts`) | `journal.jsonl`, next number, previous hash, attempt | bootstrap, `append`, `open`, `replayRunJournal`, audit of the chain | concurrent appends, torn writes, restarts | a restart finds what was awaited; the file parses; attempts count once; the chain verifies |
| **Guardrail and scope check** (`isolation/guardrail.ts`, `isolation/scope-check.ts`, `engine/agent.ts`) | depth, `before`, `allowed`, `runningScopes`, `bracketScopes`, the working trees | `enter`, `leave`, `detectLeaks`, `rollbackLeaks`, check in the continuation loop | each snapshot is an await between a test and its update | leaks are undone, the user's and the allowed files are not, nobody is blamed for others |
| **Run lock** (`state/lock.ts`) | the kernel lock, the record in the file | `acquireLock`, `liveLockHolder`, `release` | several processes, deaths, probes, shutdown callbacks | one engine at work per folder; probes do not refuse runs; takeovers lose nothing |
| **Human in the loop** (`hitl/`, `engine/human.ts`) | status `waiting`, session, question, inbox file | ask, poll, consume, resume the agent, abort, time out | answer and timeout race; crash around the question and the answer | a question is asked, one answer is used once and for its own question |
| **Agent invocation** (`engine/agent.ts`, `engine/command.ts`, `engine/session.ts`) | session ids, continuation counter | invoke, validate, continue, look up a session | nested limits, session reuse on resume | limits hold; a success was checked; no failed conversation is re-entered |
| **Loop nodes** (`engine/loop.ts`, `engine/predicate.ts`, `config/validate.ts`) | iteration, statuses of the body, costs, artifacts on disk | gate, run, validate, settle, read the exit, iterate | resume in the middle; artifacts of earlier iterations; two readers of one file | a success stands for a whole last iteration and a validated exit; iterations are numbered and limited |
| **Worktrees and branch trees** (`isolation/worktree.ts`, `inBranchTree`, `branchDone`, `maybeIsolated`) | `branchTrees`, the trees on disk, rescue branches | create, copy, share, pin, remove, keep | two nodes of a branch at once; git failures; crash between two steps | no tree is taken away from its user; commits stay reachable |
| **Fork items** (`engine/branch.ts`, `engine/answer.ts`, `executeFork`, `writeBranchManifest`) | expanded branches, in the journal too | expand, run a pool, collect, manifest | expansion across a resume; items that throw | the set of branches lasts; the fork's verdict is earned; the join sees all |
| **Processes** (`cli.ts`, `mcp/`, `process-registry.ts`, `parent-watchdog.ts`) | who is up, `shuttingDown`, callbacks | run, cycles, start, resume, cancel, signals, watchdog | shutdown beside the main flow; a second shutdown; the host dies | an announced success stands; told to stop means stop; a cancelled run ends |
| **Init** (`init/`) | the target folder, lists of created paths | preflight, copy, unwind | failure half way; a user who writes meanwhile | the user's files survive, as far as the code looks |
| Output, logs, stream log; scripts of the repository | none that lasts | text in, text out | - | not modelled, see 7 |

How they interact:

* `Engine.run` replays or creates the state, opens the journal writer, then
  takes the lock, then calls `runWithLock`. Its shutdown callbacks release the
  lock and record `run_failed`.
* `runWithLock` runs the graph wave, passes the verdict, runs the nodes that
  wait for it (`run_on`) as a second wave, and leaves the terminal record.
* `runNodes` asks `gateNode` and starts `runScheduledNode`, which enters the
  guardrail's bracket, calls `executeNode` and leaves the bracket.
* Every change of a node's state goes through `emitNodeLifecycle`, which awaits
  the journal.
* A loop runs its body inside one scheduled node, a fork its items; both use the
  journal, the agent runtime and the human loop of ordinary nodes.
* The command layer probes the lock (`liveLockHolder`), writes the inbox, signals
  the holder and spawns engines, or runs one in its own process (`wait`).

The hazards this code is exposed to, each at its line, with the properties that
cover it, are listed in `PROJECT.json`.

## 2. Plan

In this order; all of it is done but for the last line. The proofs of a component are
in a module of their own, `<component>Proofs`:

1. `Dag`, `Scheduler` with the abstract `RunContract`; `SchedulerProofs`.
2. `Levels`: the algorithms of `dag.ts` as a transition system (proved with `Loader`).
3. `Journal` with the abstract `DurableState`, from the bootstrap to the end of the run;
   `JournalProofs`.
4. `Guardrail`: bracket and scope check; `GuardrailProofs`.
5. `RunLock`: lock, probes, shutdown, and the order of replay and lock; `RunLockProofs`.
6. `AgentNode`: the turns and continuations of an agent, question, inbox,
   `check_script`, timeout, crash and resume, composed with `deliverHumanAnswer`;
   `AgentServiceProofs`.
7. `Artifacts` and `Loop`: the rules of `validate`, the reader of the exit condition,
   iterations, sessions, budgets, waits and resume; `LoopProofs`.
8. `Branches`: the trees of branches and items, the fork's pool, its journalled
   expansion, the manifest for the join; `BranchesProofs`.
9. `Globs`, `Templates`, `Loader` over `Levels`: what an accepted workflow promises, and that it
   is what the scheduler's proofs assume; `LoaderProofs`.
10. `Scaffold` and `Service`: processes, cycles, server, shutdown, watchdog, init; proved
    in `AgentServiceProofs`, beside the node that asks a human.
11. Last proved: `BranchesKeepApart`, by an argument about every path that two patterns may
    both match, and the number of steps that an attempt, and a call of a loop, can take.
12. To model next: the memory check beside concurrent nodes, git failures inside the
    guardrail, patches of a workflow while its runs load it.

## 3. Modules

**Dag** - operators only. `Membership` is the fixpoint of
`resolveBranchMembership`; `BranchTerminals`, `Dependencies`, `Exclusive` are the
functions of the same names. Recursion is written as a recursive function over a
bounded number of passes, so that modules with proofs can use it.

**Scheduler** (extends Dag) - `runWithLock`, `runNodes`, `gateNode`,
`runScheduledNode`. `pc` is where the engine awaits or works; the actions of the
loop (`LoopTop`, `Consider`, `OpenGate`, `ShutGate`, `EndScan`, `Collect`, `Drain`,
`Judged`, `Finalize`) follow the code from await to await. A task has a
`stage`, and its actions are enabled only while the engine awaits (`Awaiting`),
because there is one thread. A *plan* is a workflow with its run options; Init
chooses one. `Invocation` starts an attempt, `Crash` ends one anywhere; a
completion whose record has not been written may be lost. What a node does is
its outcome: completed, failed, failed and carried on, aborted by a human,
over its budget, or a leak found when the last node leaves the bracket. `StepsLeft` is a
number for each state, which `StepsAreNumbered` says no step of an attempt fails to lower:
the parts of the attempt to come, then how far each node of the wave still has to go, then
the turns of the loop that move no node.

**RunContract** - what a host may rely on: the verdict is passed once per
attempt, only when nothing works; nodes that wait for it work only after it; the
record agrees with it. `Scheduler!Contract` is the refinement mapping.

**Levels** (extends Dag) - depth-first search with its three colours and path,
then Kahn's levels, one step per iteration of the code's loops. It has no
specification of its own: `Loader` calls its `Compute` on the graph it has accepted.

**Globs** - patterns and paths as sequences of segments; `Matches` is `globMatch`, that is,
the regular expression the code builds, read from one place of the pattern to the next
(`Takes` is what one segment of it matches); `globsOverlap` is the test of the loader.
Neither declares a recursion, so that what they do can be proved.

**Templates** - a variable is a prefix, a name and a node. `Accepts` is
`validateTemplateVars`, `Resolves` is `interpolate` against a context.

**Loader** (extends Levels, Globs, Templates) - a config is a record of what the
checks look at; `Accepted` is `loadConfig` as one conjunction of named checks, with
`Merged` for `mergeDefaults` between the two halves. The behaviour is: read, `Load`,
`BuildLevels`. Scopes are the texts that a parser of patterns returns (`ScopesAreParsed`). Its properties compare what is accepted with what other code does later:
the trees `runNodeTree` gives, the contexts `buildContext` builds, the order of the levels.

**Journal** - `StartRun`, `Declare`, `StartAttempt`, `Transit`, `EndRun` each begin an
`append`; number and predecessor are taken (`Issue`), the digest is awaited
(`Hashed`), the line is written (`Written`). `Crash` may tear a line; `Resume` is the replay
with `RunJournalWriter.open`. A snapshot stands for a node's state, a stamp for a digest.
**DurableState** is the promise: a change is on disk before the next change of that
node, and a restart finds a state it had.

**Guardrail** - files are model values inside or outside the run's worktree.
The code has two modes, and `Grouped` tells them apart. With any `max_parallel` but 1 the
nodes share a bracket: `Enter`, `Open`, `Leave`, `Check`, `RollBack` are the pieces between the
awaits of `enter` and `leave`. With `max_parallel` 1 there is no such bracket (`engine.ts:550`):
`EnterAlone`, `Open`, `CallEnds`, `Check`, `RollBack` are those of `runWithGuardrail` around
the runtime call of an agent node. What no bracket encloses is the stage `loose`: there, a node that
is no agent, an agent resumed with an answer, and the round with a human behind a call (`HumanRound`).
A call that throws (`Throw`) is not judged at all. The history `loose` records what is written in
either way. `Begin`, `Write`, `Return`, `Reject`, `Pass` are the scope check of the continuation loop;
other history variables record who worked with whom.

**RunLock** - processes that run `Engine.run` and processes that probe.
`TryLock` is one attempt; a probe holds its shared lock for an instant only, so
it does not outlast the 50 ms between two attempts. `Truncate` and `Publish` are
the two writes of `publish`. `Signal`, `CallRelease` and `CallRecord` are the
shutdown, which goes on beside the main flow; `Die` ends a process at any moment.

**AgentNode** - one node from `executeNode` inwards. `pc` is where the engine is:
in a `turn`, in the `check` of the continuation loop, behind it (`finish`, `gate`),
then `ask`, `poll`, `probe`, `record`, `resume`, `reply` of `runHitlLoop`. `node` is its
record; since the engine awaits the journal before it goes on, memory and journal
are one variable. `Accept` and `WriteInbox` are the two halves of
`deliverHumanAnswer`, of which several calls may overlap; `RemoteReply` is somebody
who answers where `ask_script` delivered. Questions and sessions are numbered, and an
answer is the question its author had read, so that a wrong pairing shows. Each start
is a new process: a later attempt of the same run, or a resume after `Crash`. The
scheduler's outcome of a node is what this module computes.

**Artifacts** - a document is its frontmatter lines and its headings. `AllPassed` is
`runValidations` for the rules that read files; `ConditionValues` is what
`extractConditionValue` may return, over the order in which the file system lists a
directory. The two have patterns of their own, and the model keeps them apart.

**Loop** (extends Artifacts) - one call of `runLoop`, from the scheduler's view one node.
`at` is where it stands. `Preempt`, `StartIteration`, `Exhausted` are the head of an
iteration; `SkipNode`, `GateThrows`, `BeginAttempt` the gate of a body node;
`AgentAnswers`, `CommandEnds`, `AskHuman`, `HumanAnswers`, `RouterGivesUp` an attempt;
`SettleFailure`, `SettleSuccess`, `OverNodeBudget`, `OverRunBudget`, `NextNode` what follows
it; `ExitHolds`, `ExitUnreadable`, `ExitDoesNotHold` the exit. `nodes` is the state in memory,
`saved` what a replay gives, which differ where the code appends no record. `Resume`
replays and starts the loop again at iteration 1.

**Branches** - a group of one static branch, whose members share a tree, and one
fork with items. `at` of a unit follows `inBranchTree` and `maybeIsolated` from await to
await: `adding`, `copying`, `work`, `pinning`, `removing`, `verdict`; each may fail.
`Expand` reads the list or takes the journalled one, a pool of `MaxConcurrent` runs the items, chunk by
chunk; `Manifest` is `writeBranchManifest`. A unit of `Silent` may complete without an answer, as a merge,
a human or a hitl node does, and an agent whose round had a human in it. Work is a commit: `holds` is what each tree
has, `pinned` what a rescue branch reaches.

**Scaffold** - `init`: `Preflight`, `LookAt` (the stat of a file's place) and `WriteFile` (what comes two awaits
later), `CopyThrows`, `CopyReturns`, `Unwind`, and a user who writes into the same folder at any moment, also
between the two (`UserWrites`).

**Service** (extends Scaffold) - processes and the jobs (calls of `Engine.run`) in them.
`StartCycle` is the command line; `StartInServer`, `AskInBackground`, `SpawnEngine`, `ProbeHolder`, `CancelRun`
the server, where anything may come between the probe and the signal; `TakeLock` to `CloseJob` the outline of
`Engine.run`, with `Aborts` for the human who aborts a run whose graph goes on (`markRunAborted`); `Signal`, `WatchdogFires`,
`StdinCloses`, `CallBack`, `CallAppend`, `KillerExits` the ways to end. The lock is atomic
here and in full in `RunLock`. Its specification,
type invariant and so on are named `ServiceSpec`, `ServiceTypeOK`, ..., so that a module of
proofs can extend it together with `AgentNode`.

**SchedulerProofs, JournalProofs, GuardrailProofs, RunLockProofs, AgentServiceProofs,
LoopProofs, BranchesProofs, LoaderProofs** hold the theorems of section 5 and the inductive
invariants they rest on.

**MCScheduler, MCJournal, MCGuardrail, MCRunLock, MCAgentNode, MCLoop, MCBranches,
MCLoader, MCService** give the constants their values. Definitions marked "Mutant" are
plausible faults of the definition below them; `PROJECT.json` pairs each with the property
that notices it.

## 4. Runs, bounds and fairness

| Run | Shows | Bounds |
|---|---|---|
| `scheduler` | `NoDependencyAtWork`, `ConcurrencyIsBounded`, `WorksOnWholeInputs`, `VerdictIsTrue`, `NeverStalls`, `DoneIsDone`, `AttemptEnds`, `KeepsContract` | 9 plans of 6 nodes, 2 attempts |
| `journal` | `JournalCanBeTrusted`, `KeepsStateDurable` | 2 nodes and the run as writers, 7 records |
| `guardrail` | `ScopeVerdictIsRight`, `RollbackTakesTheLeaks` | 3 agent nodes, 2 of them scoped, 5 files, `max_parallel` 1 and 2 |
| `runlock` | `OneAtWork`, `RefusedByARun`, `ActsOnWholeRun` | 2 engines, 2 probes, 2 runs, 3 records |
| `agentnode` | `OneQuestionOneAnswer`, `AnswerFitsQuestion`, `CompletedWorkIsChecked`, `AttemptSettles` | 3 starts, 1 continuation, 3 questions, 2 answers |
| `loop` | `SuccessIsEarned`, `InputsAreOfThisIteration`, `FailedSessionIsLeftAlone`, `CallIsNumbered` | body of 3, 3 iterations, run budget 4, node budget 3, costs 1, 2 and 4, 1 crash, 3 files |
| `branches` | `NoTreeTakenAway`, `BranchWorkIsKept`, `ForkVerdictIsEarned`, `ManifestCoversGroup`, `BranchSetIsDurable`, `GroupSettles` | 2 members, up to 2 items, one that may leave no answer, pool of 2, every failure mode, 1 resume |
| `loader` | `LevelsAreRight`, `SessionCanBeContinued`, `BranchesKeepApart`, `GraphsCanBeScheduled`, `NodesAreComplete`, `VariablesResolve` | 33 659 configs of 4 nodes and 2 body nodes in 9 families |
| `service` | `SuccessStands`, `ShutdownSettlesRuns`, `UserFilesAreKept`, `StopsWhenTold`, `CancelledRunsEnd` | 2 processes, 2 jobs, 2 runs, 2 cycles, 1 cancellation, 2 files |

Several of these are conjunctions, whose parts are defined and explained above them:
`ConcurrencyIsBounded` of `WithinCap`, `AloneIsAlone`; `WorksOnWholeInputs` of `InputsAreThere`,
`JoinSeesWholeGroup`; `VerdictIsTrue` of `CompletionIsEarned`, `OutcomeWaveIsWhole`;
`JournalCanBeTrusted` of `JournalStaysReadable`, `SettledNodesAreOnDisk`, `AttemptsAreCounted`,
`SequentialChainVerifies`; `ScopeVerdictIsRight` of `BlameNeedsAStray`, `PassesOnlyInScope`;
`RollbackTakesTheLeaks` of `UserWorkIsKept`, `AllowedWritesAreKept`, `LeaksAreUndone`;
`ActsOnWholeRun` of `SeesItsWholeRun`, `NoRecordIsIgnored`; `OneQuestionOneAnswer` of
`AskedAtMostOnce`, `AnsweredOnce`; `AnswerFitsQuestion` of `ReplyReachesAsker`,
`InboxAnswersItsQuestion`, `AuditedBeforeUse`; `LevelsAreRight` of `CycleVerdictIsRight`,
`LevelsAreEarliest`, `JoinComesLast`; `GraphsCanBeScheduled` of `BranchesAreClosed`,
`DependenciesSuffice`; `NodesAreComplete` of `LoopBodyIsFed`, `QuestionsCanBeAwaited`;
`SuccessIsEarned` of `LastIterationIsWhole`, `ExitWasValidated`; `BranchWorkIsKept` of `SeesItsBranch`, `NoCommitIsLost`.

Each module with variables defines a `TypeOK` (`ServiceTypeOK` in `Service`). It holds in
every one of the configurations above (put it as the INVARIANT in place of the properties).
The scheduler's is a theorem; those of `AgentNode`, `Guardrail` and `Branches`, and the
types the other proofs need, are conjuncts of the invariants of section 5. Likewise the run
`scheduler` stays within `StepsAreNumbered` (put as a PROPERTY), which says in how many steps an attempt of
the run is over. It is a theorem, and `AttemptEnds` is what the run itself shows of the matter.
`CallIsNumbered` says the same of a call of a loop: each of its steps lowers a number, so that no iteration
and no node of it is begun again. There is no property that a loop settles, for the code does not see to it:
the predicates of `when` and `until` and `custom_script` rules have no timeout (`predicate.ts:38-43`,
`validate.ts:340-346`), and a loop waits for one that hangs.

`CHECK_DEADLOCK FALSE` because all of these systems stop: a run ends, a load answers, the
attempts, records or resumptions are used up.

*Scheduler.* The plans are compiled by `Dag`'s operators from two shapes: a
fork of two branches, each of two nodes, with its join and a node behind it,
and a diamond with an independent node. Between them they use every failure
mode, a `when` gate, a branch without a tree, a guarded bracket, `on_error:
continue`, humans, both budgets, `prepare_command`, `--skip`, and every value
of `run_on`. Two attempts are enough to crash or fail once and resume: what an
attempt inherits is the node statuses alone, so a third one starts from a state
of the same kind. In two of the plans, whose fork is a chain in one branch, a branch is carried
past a first node that has failed, and an inner node waits for the verdict: the proof of
`WorksOnWholeInputs` met both, and the other plans are too small for them. Where a branch may
go on past a node that is to be redone, a resumed join need not wait for that node, so
`JoinSeesWholeGroup` has the hypothesis `GoesInOrder` (section 6). `FairSpec` assumes weak fairness of the engine's own steps and
of every task: the event loop runs what is ready, and
agents, commands and questions have a timeout. That `when` gates, `prepare_command` and hooks come to an
end is an assumption about those scripts, since the engine gives them no timeout: `AttemptEnds` is about
attempts whose scripts end. Crashes are not fair and no fairness makes the engine start again.

*Journal.* Two nodes and the run are three writers, of which any two may overlap. The
bootstrap takes four records; three more allow two transitions that overlap, a crash, and
an attempt more. `Tears` excludes the tear exactly before the newline, after which the
code's journal is malformed for good (see hazards). `SequentialChainVerifies` is stated for
histories without overlapping appends, since the other ones break the chain (section 6).

*Guardrail.* Three nodes allow two to overlap while a third opens the next
bracket; one after the other, they show what an earlier node leaves to a later one. All are agents, since
an agent may do all that another node does (`EnterAlone`). `UserWorkIsKept`, `AllowedWritesAreKept` and `LeaksAreUndone` carry the
hypothesis that nobody opens or closes the bracket at the same moment as
another: the history variables `overlapped` and `crossed` say so, and section 6
shows that the hypothesis is needed. They do not arise with `max_parallel` 1, where `LeaksAreUndone` excepts
instead what `loose` holds: nothing rolls that back, in the code either (section 6). The items of a fork with
`max_concurrent` above 1 keep a bracket each at the same time when `max_parallel` is 1 (the engine warns of
it, `engine.ts:900`); that is not modelled.

*RunLock.* Two engines are one that owns the folder and one that waits, takes
over or is refused; two probes can spoil two of the three attempts in a row,
and the third attempt is then free, which is what `RefusedByARun` relies on.
Engines, probes and runs are symmetric. `SeesItsWholeRun` and
`NoRecordIsIgnored` are about engines that started while the folder was free and
about folders in which nobody shuts down; the other cases are in section 6.

*AgentNode.* Three starts give every order of fresh attempt, wait, crash, resume and
retry, and a second crash after a resume. Three questions allow one that is answered,
one nested in its reply and one of a later start; two answers that overlap can both pass the test of
the record before either is written. One continuation is enough to reach and to
exceed the limit. `InboxAnswersItsQuestion` has the hypothesis `~strayed`: the inbox is
named after the node and not after the question, so an answer that comes too late is
used for the node's next question (section 6). Weak fairness of `EngineStep` and of
`DeadlinePasses`: turns end (the runtime has `timeout_seconds`), time passes, and scripts
end. The last is an assumption about the scripts, since the engine gives them no timeout.
There is no fairness for starts, people and crashes.

*Loop.* A chain `build`, `check`, `revise`, where `check` is the command whose artifact holds the
exit condition and which a `when` predicate may skip, `build` comes before it and `revise` after it. Three
iterations let a skip in the second one hide between two that ran. The costs are such that a
node goes over its cap, the run over its own, an iteration is preempted by the mean of the
ones before, and the iterations are used up. The outputs are the documents on which the two readers
could disagree: fields quoted, twice, empty, in the wrong file, behind a padded fence. No
fairness is used: all that the run shows is safety.
`ExitWasValidated` is about a condition node that is a command (an agent may have taken up an answer,
after which its artifact is not validated) and about directories in which one file gives the field.

*Branches.* Two members, one after the other or side by side, are the smallest branch whose
tree is shared, handed over and closed; two items in a pool of two are the smallest pool in which one
fails or throws while another works. A list never needs a second chunk here: with lists of three items
the safety properties of `MCBranches.cfg` hold too (3.1 million states with `Silent = {}`), and the theorems
are about lists and pools of any size. One silent item gives a manifest with an answer and one without.
Every git command may fail, and the run may be resumed once, from any state. Weak fairness of `GroupStep`: git commands and nodes end.

*Loader.* Each family varies what one group of rules looks at and keeps the rest plain: four nodes give
every cycle length and nesting the graph rules distinguish, a body of two every order in a body,
patterns of up to two segments over two letters every pair of segment kinds, checked against every path
of up to three segments. `BranchesKeepApart` leaves out a `**` inside a segment, `VariablesResolve` what
`LeftToTheRun` lists (section 6). `BranchesAreClosed` says that membership has gone as far as it goes:
whoever reads a member of a branch is one, opens a branch of its own or joins. `DependenciesSuffice`
is the bridge to the scheduler: the dependencies of an accepted graph contain its inputs, are acyclic
from either end, and make a join, which is in no group, wait for whatever its group does not pass on.
The config `Relay`, a join that opens a branch of another group, is there because a loader that let it
through would break the last part.

*Service.* Two jobs over two runs give two cycles, a run and its resume, and a run in the server beside
one in a process of its own. `ShutdownSettlesRuns` is about processes in which one shutdown was under
way, for a second one may exit while the first still writes, and excepts runs that a human has aborted, which
the shutdown leaves without a record (section 6). `SuccessStands` allows both verdicts for a run that succeeds in a
process that shuts down already: the callback records its own beside the main flow. Weak fairness of each
process's shutdown and of the watchdog's poll: the runtime serves callbacks and timers. Nothing
makes a graph end.

## 5. Proofs

`tlapm` checks every leaf. The constants are arbitrary (any set of plans, of engines, of items,
any bound), within the named assumptions of the modules. These are what the code gives: nodes
are finitely many numbers (`NodeAssumption`), a plan's dependencies are acyclic and contain its
inputs, and a join depends on whatever no member of its group reads (`AcyclicAssumption`,
`DependenciesAssumption`, `JoinAssumption`), a body's order lists each node once and after its inputs
(`OrderAssumption`), parsed numbers are what the parser returns (`ConfigsAreParsed`), markers
such as `None` or `NoList` are not members of the sets they stand beside, and file names are texts
(`FilesAreNamed`). TLC evaluates every one of them on the instances. What the scheduler assumes of its plans is itself proved of what
the loader lets through: `AcceptedGraphsCanRun` says of every accepted workflow what
`AcyclicAssumption`, `DependenciesAssumption` and `JoinAssumption` say of a plan.

Every safety property and action property of the passing runs of section 4 is a theorem. A property is seldom inductive; the table names the invariant that is,
with what the property alone does not say. All are defined and explained in the proof module.
Recursion is met nowhere as induction over data: `Levels` takes its loops step by step, the fixpoint of
`Dag` and the places of a pattern in `Globs` are functions of a number of passes or letters, and where a
proof counts, it takes a least number that fails.

| Theorem | Property | Inductive invariant and argument |
|---|---|---|
| **SchedulerProofs** | | |
| `TypeCorrect` | `TypeOK` | `DataOK` and `FlagsOK`, one step per action |
| `DependenciesFirst` | `NoDependencyAtWork` | `WaveInv`: a task that is live belongs to the wave, is no longer pending, and all its dependencies in the wave are satisfied; what is satisfied is not live. Starting a node only looks at `satisfied` |
| `ContractKept` | `KeepsContract` | `VerdictInv` ties `pc`, `wave`, `outcome` and the terminal record; each action maps to a step of RunContract or to a stutter |
| `CapKept`, `AloneKept`, `BoundKept` | `ConcurrencyIsBounded` | `RoomInv`: the room left when a node leaves `pending` for its gate is still there when the gate opens, for tasks only leave meanwhile; while an exclusive node runs the scan is shut |
| `LoopNeverStalls` | `NeverStalls` | `TallyInv`: while nothing has failed, every node of the wave is pending, at its gate, live or satisfied. If all that is left is pending, the node of least rank among it has its dependencies satisfied, since the graph is acyclic |
| `InputsAlwaysThere` | `InputsAreThere` | `StatusInv`: what is satisfied is decided, and no live node has an input that was not taken; `StageInv`: the stage of a task tells the status of its node |
| `InputsAlwaysWhole` | `WorksOnWholeInputs` | `OrderInv` and `JoinInv`: what a completed or live member has read in its group is completed, and stays so into the next attempt; hence, when the nodes a join depends on are satisfied, all members are. The property asks this of groups that go in order (`GoesInOrder`): of the others it is false (section 6) |
| `DoneStaysDone` | `DoneIsDone` | `RedoInv`: a completed node is in `pending` or at its gate only when this attempt is to run it again |
| `VerdictIsAlwaysTrue` | `VerdictIsTrue` | `EarnedInv`: from the verdict to the record, each node of the graph has completed, was skipped, or failed where that is allowed |
| `AttemptsAreFinite` | (`StepsAreNumbered`) | `StepsLeft` counts pairs of a node and a stage it has ahead, so that one node moving on takes at least one pair away whatever the others do, and the loop may turn in between at most as often as `TurnsLeft` says; needs `WaveInv`. It is below 160 n + 20 for n nodes |
| **RunLockProofs** | | |
| `LockKeepsApart` | `OneAtWork` | `HasLock`: whoever is at work has the lock or has been told to shut down. `OneAtWork` alone would not exclude a third engine when the lock is taken |
| `OwnerSeesItsRun` | `ActsOnWholeRun` | `SeesInv`: what an engine read while the folder was free is still all there is when it gets the lock; `IdsInv`: ids on disk increase and the owner's next one is above them; `StartsFromNothing`: a run with records belongs to an engine that has started |
| `OnlyARunRefuses` | `RefusedByARun` | `TriesInv` counts: an engine that has met no other one has made at most as many attempts as there are probes it met. The hypothesis is the one of the run: fewer probes than attempts |
| **LoopProofs** | | |
| `InputsAreAlwaysOfThisIteration`, `LastIterationIsAlwaysWhole` | `InputsAreOfThisIteration`, a conjunct of `SuccessIsEarned` | `PassedAreWhole`: every node before the one under way was skipped or completed in this iteration; `IterationIsWhole` carries it over the top of the loop, where a budget may end it |
| `SuccessIsAlwaysEarned` | `SuccessIsEarned` | `CheckedInv`: once the condition node has passed, the files satisfy its rules, and nobody writes them before the exit is read; `ReadersAgree`, a lemma about `Artifacts`: if one file gives the field, the loop and the rules read one value. `ExitAssumption`: the value is compared out of its quotes, and rules name files |
| `FailedSessionsStayAlone` | `FailedSessionIsLeftAlone` | `SessionInv`: the session of a completed state, in memory or saved, is its node's own and last ended well. Hypothesis `OwnSessions`, as in the run; without it see section 6 |
| `CallsAreFinite` | `CallIsNumbered` | `CountInv`: the iteration under way is one of those allowed, and the position one of the body's or the exit behind it. An iteration is 5 n + 6 steps, a position 5 |
| **AgentServiceProofs** | | |
| `QuestionsGoOutOnce` | `OneQuestionOneAnswer` | `OnceInv`: a question not raised is nowhere; one about to be delivered has not been; one being waited for was answered only in turns that a crash cut short |
| `AnswersAlwaysFit` | `AnswerFitsQuestion` | `AskerInv`: whom the engine asks or answers for is the session that raised the question; `InboxInv`: while nothing has strayed the inbox holds the answer that is waited for; `AuditInv`: the record is ahead of the use |
| `UnseenWorkIsChecked` | `CompletedWorkIsChecked` | `CheckedInv`: the gate is reached, with no reply heard, only by work that passed and without an error |
| `SuccessAlwaysStands` | `SuccessStands` | `WordInv`: an exit code 0 was computed from jobs that returned, and a job returns after its record. `StandInv`: once the state of a job is `completed` no callback that begins later counts it as running, and before that none was pending unless the process was shutting down. `ServiceStep` says what each kind of step leaves alone |
| `ShutdownAlwaysSettles` | `ShutdownSettlesRuns` | `ToldInv`: of a run with callbacks, the call is to come, or its append is, or the record is there, or a human has aborted the run, which is the exception of the property; a killer exits when nothing is left to call |
| `UserFilesStay` | `UserFilesAreKept` | `ListIsLate`: `unwindScaffold` has an empty list until the copy is done, and a user's file whose place the copy has looked at is one of `late`, the exception of the property |
| **BranchesProofs** | | |
| `TreesStay` | `NoTreeTakenAway` | `ChunkInv` and `TreeInv`: who pins or removes the tree of the branch is the only member that is not over |
| `BranchWorkStays` | `BranchWorkIsKept` | `WorkInv`: a unit that is done is pinned or held by its tree; a tree is removed when all it holds is pinned |
| `ForkEarnsItsVerdict` | `ForkVerdictIsEarned` | `ForkInv`: every item of the list is to do, at work, failed, or has succeeded |
| `ManifestIsWhole` | `ManifestCoversGroup` | `ManifestInv`: while the join runs, every other node is over, so what the manifest was made of stays; with `ForkInv`, a branch it calls completed has units that succeeded. No assumption is made on who leaves an answer |
| `ListIsDurable` | `BranchSetIsDurable` | step by step |
| **GuardrailProofs** | | |
| `ScopeVerdictStaysRight` | `ScopeVerdictIsRight` | `EpochInv`: nodes at work (`AtWork`, of either mode) and those in `bracketScopes` are of one epoch; `ScopeInv`: what has changed since a node's snapshot was written by someone of its epoch |
| `RollbackTakesOnlyLeaks` | `RollbackTakesTheLeaks` | with a shared bracket `CrossInv`, `SoloInv`, `LeakInv`: who closes the bracket alone finds `before` and `allowed` as its members left them; `crossed` and `overlapped` are the hypotheses of the property. With `max_parallel` 1 `AloneInv`: one node is at work, and what should not be there was written by it, or outside a bracket |
| **JournalProofs** | | |
| `JournalStaysTrusted` | `JournalCanBeTrusted` | `JournalInv` = `ShapeInv`, `SeqInv` (numbers are unique, those under way included), `AppendInv` (who appends what at which stage), `DiskInv` (a node without an append under way replays as it is in memory), `AttemptInv`, `ChainInv`. Hypothesis `CutsShowInTheRecord`, the `Tears` of the run: no write is cut exactly before its newline |
| `StateIsDurable` | `KeepsStateDurable` | the same invariant; a transition or a declaration maps to `Change`, a line written to `Persist`, a crash to `Restart`, every other step to a stutter |
| **LoaderProofs** | | |
| `LevelsStayRight` | `LevelsAreRight` | `SearchInv` (colours and path), `RankInv` (finished nodes can be ranked, hence no cycle among them), `SortInv` (each level takes all that waits for nothing else); a cycle found is shown from the path, none found by the ranks |
| `LoopBodyStaysFed`, `QuestionsStayAwaited`, hence `NodesStayComplete`; `VariablesStayResolved`, `SessionsStayContinued` | `NodesAreComplete`, `VariablesResolve`, `SessionCanBeContinued` | `LoaderInv`: a config with levels is `Sound`, that is, it has passed the checks before and after the merge; each theorem then follows from the checks, the levels and, for sessions, from what `Membership` keeps from pass to pass |
| `BranchesStayApart` | `BranchesKeepApart` | the test finds two scopes disjoint at a segment before any `**`; up to there a segment of a pattern takes exactly one segment of a path, and no text is taken by both of two segments found apart. Hypothesis `StarsAreSegments`: a `**` is a segment of its own. Without it the property is false (section 6) |
| `MembershipIsFixpoint` | - | a pass that changes something gives a branch to a node without one, hence as many passes as there are nodes are enough; the least pass that changes nothing is among them |
| `BranchesStayClosed` | first conjunct of `GraphsCanBeScheduled` | `MembershipIsFixpoint`, and `Reached`, which every pass keeps: a member is reached from an opener along inputs, which the levels put in order |
| `DependenciesAlwaysSuffice`, hence `AcceptedGraphsCanRun` | `GraphsCanBeScheduled` | the levels give a node of least and one of greatest level in any set of nodes; the checks of joins, with the fixpoint, put every join outside all groups |

Only model-checked:

* Liveness: `AttemptEnds`, `AttemptSettles`, `GroupSettles`, `StopsWhenTold`,
  `CancelledRunsEnd`. They rest on fairness, hence on ENABLED, of which the provers know nothing. Of
  `AttemptEnds` the part that is not about fairness is proved: no attempt goes on for ever
  (`AttemptsAreFinite`); TLC shows the rest, that none stops half way.
* The properties of section 6, which do not hold.

## 6. Where code and documents disagree

Three are runs that TLC finishes with a counterexample; `PROJECT.json` quotes the lines.

* `journal_audit` - overlapping appends share a predecessor, so the audit reports
  tampering where there was none.
* `guardrail_scopes` - two nodes that open the bracket at once: the second clears
  the scope of the first, whose allowed files are rolled back.
* `agentnode_nested` - a question raised in the turn after an answer is captured and
  then dropped; its node completes.

The following end in a counterexample too, in a configuration of their own or in that of the run
with the property in place of its properties:

| Configuration | Property | What happens |
|---|---|---|
| `MCSchedulerAbort.cfg` | `AbortedIsNotCompleted` | `on_error: continue` on the asking node turns an abort into `run_completed` (`node-dispatch.ts:722`, `engine.ts:466-468`; 08-graph-and-isolation.md:375) |
| `MCScheduler.cfg` | `JoinWaitsForBranches` | a resumed attempt redoes the first node of a branch that had failed under `on_error: continue`, or was skipped; the branch's last node is done, and the join waits only for that one (`engine.ts:520-524`, 540) |
| `MCRunLockResume.cfg` | `ResumesAreSerial` | the journal is replayed (`engine.ts:280`) before the lock is taken (326): a resume that waits for the lock acts on an older state (07-mcp-and-plugin-runtime.md:72-74) |
| `MCAgentNodeUnasked.cfg` | `PolledQuestionWasAsked` | a crash between the record of the wait and `ask_script`: the resumed node waits for the answer to a question that was never sent (`hitl-handler.ts:179`, 205) |
| `MCJournalBootstrap.cfg` | `EveryNodeIsDeclared` | a crash among the declarations: the resumed run has nodes without a state, and `updateNodeState` throws when they start (comment at `engine.ts:1638`) |
| `MCJournalStatus.cfg` | `WorkingRunIsRunning` | a resumed run replays as `failed` until it ends, since no record says that it runs again |
| `MCLoopShared.cfg` | `FailedSessionIsLeftAlone` | with `session: <other node>` the failed turn was in the other node's session, which that node still offers (`session.ts:10-13`) |
| `MCLoopTwoReports.cfg` | `ExitIsTheRulesValue` | the loop reads the first file that has the field, or `condition.json`, and the rule reads its own path (design-sdlc/03-init-data-logic.md:144-150) |
| `MCBranchesKept.cfg` | `KeptForDiagnosis` | a tree reported as preserved is closed by the next node of the branch that succeeds (`engine.ts:1196-1197`) |
| `MCBranchesManifest.cfg` | `ManifestTellsOutcomes` | the manifest gives every item of a fork the status of the fork node, so one that failed makes all of them failed (`engine.ts:1133-1154`, 10-fork-join.md:69-71) |
| `MCLoaderStars.cfg` | `BranchesKeepApart` | `globsOverlap` takes `src/**.ts` and `src/api/x.ts` for disjoint (`glob.ts:43-49`, `config.ts:1985`: "unless the two scopes are provably disjoint") |
| `MCLoaderVariables.cfg` | `AcceptedVariablesResolve` | `{{loop.iteration}}` outside a loop, `{{input.X}}` of a node that is no input, `{{branch.*}}` in `when` and in bodies are accepted and cannot resolve |
| `MCService.cfg` | `FailedScaffoldLeavesNothing` | `copyTemplate` throws and its list of created files goes with it: nothing is unwound (`scaffold.ts:43-45`) |
| `MCService.cfg` | `NeverOverwrites` | `copyTemplate` looks, reads, makes the folder and writes, and does not look again: a file that a user writes in between is replaced (`scaffold.ts:75-86`, whose comment says "Never overwrites existing files") |
| `MCService.cfg` | `AbortedRunsAreSettled` | a human aborts a run (`node-dispatch.ts:722`, 745), and a signal arrives while a sibling, the failure hook or the outcome wave is at work: the callback finds a status other than `running` (`engine.ts:333`) and the process exits without a terminal record (05-cli-and-observability.md:396) |
| `MCService.cfg` | `EndsWithAVerdict` | a failing `prepare_command` throws past the bookkeeping and leaves "a run that looks alive forever" (`engine.ts:379-383`, 397) |

Met while modelling, and not given a configuration:

* *Scheduler.* After a `fail_fast` failure a node that was behind its gate still starts, and so do
  the ready nodes after it in the same scan (`engine.ts:579-595`, `10-fork-join.md:67`). A gate of the
  outcome wave that throws leaves no terminal record. A leak fails its node for the wave and not in its
  record (`engine.ts:842`).
* *Guardrail.* With `max_parallel` 1 only the runtime call of an agent node is bracketed. What a command, merge,
  human or loop body node leaks, or a round with a human, is not rolled back and is in the next node's
  `before`; after a call that throws neither the snapshot nor the rollback is made (`engine.ts:550-557`,
  `guardrail.ts:207-209`, `node-dispatch.ts:141-173`, 218).
* *Lock.* Between `tryLock` (`lock.ts:202`) and `truncate` (234) a probe names the previous holder.
* *Human.* A waiting node that has been resumed is recorded as `running` (`engine.ts:1331`) and a hitl node is
  never recorded as waiting, so both refuse answers while they poll the inbox for them
  (`hitl-node.ts:71-75` names MCP and CLI as its writers); for the same reason a second crash, after the
  resume, starts the agent from scratch. An answer that comes after its wait is used for the next
  question of the node. A round with a human bypasses the rules, the after hook and `persistAnswer`
  (`node-dispatch.ts:374`).
* *Loop.* `updateRunCost` keeps one cost per node, so a loop's earlier iterations do not count towards the
  budget (`state.ts:297`). A `when` skip resets the status, and `session: continue` then loses the session. A skip in a body
  leaves no record (`loop.ts:380`). A budget that throws leaves its iteration without an end in the
  journal; an exhausted loop records its last iteration as completed and then as failed, and a node over its
  cap does the same. Body nodes of type merge, human, hitl and loop run as agents (`loop.ts:446`).
  The readers of an artifact differ: the rule compares without taking quotes off, `\s*` runs on over the end
  of the line so that an empty field passes (`validate.ts:451-453`), a padded fence is seen by the loop
  alone, and a field that is there twice throws into a `catch` (`loop.ts:753`).
* *Branches.* A crash between closing a tree and recording its last node gives that node a fresh tree when
  resumed. A last node that is skipped, and two last nodes that end together, leave the tree open; a
  tree that was kept is in the way of its own re-creation. An item that throws rejects the pool while its
  siblings work. Distinct keys may give one worktree name.
* *Loader.* `isolation: worktree` in a body is accepted and not applied. Ids of two bodies may collide. Tool filters
  exclude each other on one level only. `timeout_seconds`, `max_retries` and the like are not
  looked at. A resume whose worktree is gone runs in the main checkout (`engine.ts:239-248`).
* *Processes.* A second `killAll` (the watchdog after a signal) exits while the first one's append is under way; stdin
  EOF exits with 0 beside a run; the main flow's own exit may come before 143. A callback's `run_failed` and
  the main flow's verdict may both be recorded, in either order. A refused run leaves its worktree and run folder. A
  resume after a failed preparation skips it. An init that is signalled does not unwind.

## 7. Not modelled, and why

* *Output, logs, stream log*: formatting and plain file output; no decision depends on it.
* *Scripts of the repository* (`scripts/`): build, release and acceptance tools beside the engine.
* *Of the command line*: parsing of arguments, the update notice, the commands that only print a run.
* *Of the server*: read-only tools; `apply_workflow_patch`, which edits files of the main checkout that no
  run under way reads, since a run loads its workflow from its own worktree.
* *Of the loader*: YAML, env files, the rewriting of old documents (the registry of migrations is empty).
* *Of the rules*: those that ask git or run a script are outcomes; `Loop` models the ones that read files.
* *Memory check and git failures inside the guardrail*: planned. `Guardrail` forgives what neighbours write, as the
  scope check does; the memory check looks at the whole tree and forgives nobody, and no document says
  whether it should.
* *Substitution in templates, wording, colours, costs beyond their sums*: data the properties do not tell apart.
* *External code* (`killAll`, the agent runtimes, their retries) and the operating system are modelled by what
  the engine sees of them.
