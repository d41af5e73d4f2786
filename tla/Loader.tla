------------------------------- MODULE Loader -------------------------------
(***************************************************************************)
(* Loading a workflow (config/config.ts): a parsed workflow.yaml is        *)
(* migrated, checked, merged with the defaults and checked again, and only *)
(* then turned into levels (module Levels).  Every check is a conjunct of  *)
(* Accepted; the first that fails stops the load.  Which one fails first   *)
(* and what it says are left out.  An id is used by one node: the loader   *)
(* does not check that a body node has no namesake.                        *)
(*                                                                         *)
(* A config c is a record; a Level is a node or the block `defaults`.      *)
(*   version      the declared schemaVersion: a set of at most one         *)
(*   malformed    <<what, v>>: level v has an unknown "key", a "value" that *)
(*                is not one of those allowed, a "list" with an odd entry  *)
(*   type, has    type of each node; which of Text it fills in             *)
(*   inputs, fork, join, scope (allowed_paths), isolated                   *)
(*   modes        nodes with a failure_mode                                *)
(*   body, exit, conditionNode   of a loop: its body, the exit keys        *)
(*                declared and the node that condition_node names          *)
(*   rules        `validate`: [type, has, onExit]: what the rule has, and  *)
(*                whether its field is the condition_field                 *)
(*   session, runtime, permission, filter, reserved, numbers   per level   *)
(*   uses         [node, field, var]: the variables in the fields          *)
(*   hitl         the scripts declared, or NoHitl                          *)
(*   phases       <<p, n>>: phase p lists node n; ownPhase: nodes with one *)
(*   missing      nodes whose prompt includes a file that is not there     *)
(***************************************************************************)
EXTENDS Levels, Globs, Templates

CONSTANTS BodyNode, Defaults, Dynamic, Unset, Fresh, Continue, NoScope, NoHitl,
          Families,   \* the configs to load: a sequence of sets
          Files,      \* the files that patterns are matched against
          CURRENT_CONFIG_SCHEMA_VERSION,
          AcpRuntimes \* the runtimes whose adapter can execute over ACP

Id == Node \cup BodyNode
Level == Id \cup {Defaults}

ASSUME IdsAreUsedOnce == Node \cap BodyNode = {} /\ Defaults \notin Id
ASSUME BodyAssumption == IsFiniteSet(BodyNode)

VARIABLES config, stage

vars == <<config, stage, graphVars>>

-----------------------------------------------------------------------------
(* What a parsed file may hold, whether or not the loader accepts it.      *)

NodeTypes == {"agent", "command", "merge", "loop", "human", "hitl"}

Parts == {"version", "malformed", "type", "has", "inputs", "fork", "join", "scope", "isolated",
          "modes", "body", "exit", "conditionNode", "rules", "session", "runtime", "permission",
          "filter", "reserved", "numbers", "uses", "hitl", "phases", "ownPhase", "missing"}

\* NodeConfig.  A body node is in one loop, and nobody reads an `until` elsewhere.
NodesAreParsed(c) ==
  /\ c.type \in [Id -> NodeTypes] /\ c.has \in [Id -> SUBSET {"prompt", "command", "question"}]
  /\ c.inputs \in [Id -> SUBSET Id] /\ c.fork \in [Id -> Branch \cup {NoBranch}]
  /\ c.join \in [Id -> Group \cup {NoGroup}]
  /\ c.body \in [Node -> SUBSET BodyNode] /\ c.conditionNode \in [Node -> Id]
  /\ \A l \in Node : c.exit[l] \subseteq {"until", "condition_node", "condition_field", "exit_value"}
  /\ \A n \in Id : \A r \in c.rules[n] : r.has \subseteq {"path", "sections", "fields"}
  /\ c.isolated \cup c.modes \cup c.missing \cup c.ownPhase \subseteq Id
  /\ \A k, l \in Node : c.body[k] \cap c.body[l] # {} => k = l
  /\ \A u \in c.uses : u.node \in Id /\ (u.field = "until" => c.type[u.node] = "loop")

\* allowed_paths: patterns, whose segments have no "/" left in them (split).
IsText(segment) == segment \in Seq(STRING) /\ \A i \in DOMAIN segment : segment[i] # "/"
ScopesAreParsed(c) ==
  \A n \in Id : c.scope[n] = NoScope \/
    \A p \in c.scope[n] : p \in Seq(Seq(STRING)) /\ p # <<>> /\ \A i \in DOMAIN p : IsText(p[i])

\* WorkflowDefaults and the fields of a node that `defaults` stands in for.
LevelsAreParsed(c) ==
  /\ c.session \in [Level -> Id \cup {Unset, Fresh, Continue}]
  /\ DOMAIN c.runtime = Level /\ DOMAIN c.permission = Level
  /\ \A v \in Level : c.filter[v] = Unset \/ c.filter[v] \subseteq {"allowed", "disallowed"}
  /\ c.reserved \subseteq Level
  /\ DOMAIN c.numbers = Level

ASSUME ConfigsAreParsed ==
  \A i \in DOMAIN Families : \A c \in Families[i] :
     DOMAIN c = Parts /\ NodesAreParsed(c) /\ LevelsAreParsed(c) /\ ScopesAreParsed(c)

\* The files that git lists have a name, and one for each folder above them.
ASSUME FilesAreNamed ==
  \A f \in Files : /\ f \in Seq(Seq(STRING)) /\ f # <<>>
                   /\ \A i \in DOMAIN f : IsText(f[i])

-----------------------------------------------------------------------------
(* Looking things up.                                                      *)

BodyOf(c, l) == IF c.type[l] = "loop" THEN c.body[l] ELSE {}

\* The loop n is in the body of, if any.
LoopsOf(c, n) == {l \in Node : n \in BodyOf(c, l)}

\* collectAllNodeIds.
Ids(c) == Node \cup UNION {BodyOf(c, l) : l \in Node}

\* What the scheduler sees of c (forkEntry and the readers of config.nodes).
GraphOf(c) == [inputs |-> [n \in Node |-> c.inputs[n]],
               fork   |-> [n \in Node |-> c.fork[n]],
               join   |-> [n \in Node |-> c.join[n]],
               scoped |-> {n \in Node : c.scope[n] # NoScope}]

BranchOf(c, n) == IF n \in Node THEN Membership(GraphOf(c))[n] ELSE NoBranch

\* The most specific level that sets f: the node, its loop, `defaults`
\* (resolveBudget, resolveToolFilter, resolveRuntimeConfig).
Cascade(c, f, n) ==
  LET set == {m \in LoopsOf(c, n) : f[m] # Unset}
  IN CASE f[n] # Unset -> f[n]
       [] f[n] = Unset /\ set # {} -> f[CHOOSE m \in set : TRUE]
       [] OTHER -> f[Defaults]

-----------------------------------------------------------------------------
(* Checks that look at one node, or at one level.                          *)

\* migrateWorkflow with the empty registry of steps.
MigratesToCurrent(c) == c.version \subseteq {CURRENT_CONFIG_SCHEMA_VERSION}

KeysAreKnown(c, v)   == <<"key", v>> \notin c.malformed
ValuesAreKnown(c, v) == <<"value", v>> \notin c.malformed
ListsAreWhole(c, v)  == <<"list", v>> \notin c.malformed

WellShaped(c, v) == KeysAreKnown(c, v) /\ ValuesAreKnown(c, v) /\ ListsAreWhole(c, v)

GitRules == {"git_worktree_clean", "git_default_branch_checked_out", "git_no_unpushed_commits"}
RuleTypes == GitRules \cup {"file_exists", "file_not_empty", "contains_section",
                           "custom_script", "frontmatter_field", "artifact"}

\* validateValidationRule: only an `artifact` rule has to say what it looks for.
RulesAreWhole(c, n) ==
  \A r \in c.rules[n] :
     /\ r.type \in RuleTypes
     /\ r.type \notin GitRules => "path" \in r.has
     /\ r.type = "artifact" => r.has \cap {"sections", "fields"} # {}

RunsWork(c, n) == c.type[n] \in {"agent", "command"}

FieldsFitType(c, n) ==
  /\ c.type[n] = "agent" => "prompt" \in c.has[n]
  /\ c.type[n] = "command" => "prompt" \notin c.has[n]
  /\ c.type[n] = "command" <=> "command" \in c.has[n]
  /\ c.type[n] \in {"human", "hitl"} => "question" \in c.has[n]
  /\ c.fork[n] # NoBranch \/ n \in c.isolated => RunsWork(c, n)
  /\ c.session[n] # Unset => c.type[n] = "agent"

\* Mutant: a node may join one group and open a branch of another.
JoinIsWholeRelay(c, n) == n \in c.modes => c.join[n] # NoGroup

\* validateJoin.
JoinIsWhole(c, n) == /\ c.fork[n] = NoBranch \/ c.join[n] = NoGroup
                     /\ n \in c.modes => c.join[n] # NoGroup

\* Inside a body the ids of the body are known too.
KnownTo(c, n) == Node \cup UNION {BodyOf(c, l) : l \in LoopsOf(c, n)}

InputsAreKnown(c, n) == c.inputs[n] \subseteq KnownTo(c, n) \ {n}

\* The fields a node hands to validateTemplateVars; `until` never is in a branch.
CheckedFields(c, n) ==
  {"when", "before", "after"}
    \cup (CASE c.type[n] = "command" -> {"command"} [] c.type[n] = "hitl" -> {"question"}
            [] c.type[n] = "loop" -> {"until"} [] OTHER -> {})

\* Mutant: `until` may name a branch too.
TemplatesAreKnownAnywhere(c, n) ==
  \A u \in c.uses : u.node = n /\ u.field \in CheckedFields(c, n) =>
     Accepts(u.var, KnownTo(c, n), TRUE)

TemplatesAreKnown(c, n) ==
  \A u \in c.uses : u.node = n /\ u.field \in CheckedFields(c, n) =>
     Accepts(u.var, KnownTo(c, n), u.field # "until")

Triple == {"condition_node", "condition_field", "exit_value"}

\* Mutant: the inputs of the body need not be forwarded (before FR-E35).
ForwardsInputsNot(c, l) == TRUE

\* FR-E35: what a body node takes from outside is an input of the loop.
ForwardsInputs(c, l) ==
  \A b \in BodyOf(c, l) : c.inputs[b] \subseteq BodyOf(c, l) \cup c.inputs[l]

\* FR-E36: rules, if any, have one on the condition_field.
RulesNameExit(c, n) ==
  c.rules[n] # {} => \E r \in c.rules[n] : r.type = "frontmatter_field" /\ r.onExit

LoopIsWhole(c, l) ==
  LET body == BodyOf(c, l) IN
  /\ body # {}
  /\ c.exit[l] \in {{"until"}, Triple}
  /\ c.exit[l] = Triple => /\ c.conditionNode[l] \in body
                           /\ RulesNameExit(c, c.conditionNode[l])
  /\ Cardinality(body) > 1 => \E b \in body : c.inputs[b] \cap body # {}
  /\ \A b \in body : c.fork[b] = NoBranch /\ c.join[b] = NoGroup
  /\ ForwardsInputs(c, l)

\* allowed_tools and disallowed_tools exclude each other on a level, and either
\* excludes the reserved runtime_args of the same level.
ToolFilterIsClear(c, v) ==
  /\ c.filter[v] # Unset => Cardinality(c.filter[v]) = 1
  /\ c.filter[v] # Unset => v \notin c.reserved

\* The numbers the loader looks at, and what it lets through; the other
\* settings (timeout_seconds, max_retries, ...) are taken as they come.
Knobs == [max_usd |-> {"fraction", "positive"}, max_turns |-> {"positive"},
          max_retry_wall_clock_seconds |-> {"positive"},
          max_parallel |-> {"zero", "positive"}, max_concurrent |-> {"positive"},
          poll_interval |-> {"fraction", "positive"}, timeout |-> {"fraction", "positive"}]

NumbersAreInRange(c, v) ==
  \A k \in DOMAIN Knobs : c.numbers[v][k] \in Knobs[k] \cup {"absent"}

HitlIsWhole(c) == c.hitl \in {NoHitl, {"ask_script", "check_script"}}

PhasesAreClear(c) ==
  /\ \A e, f \in c.phases : e[2] = f[2] => e[1] = f[1]
  /\ \A e \in c.phases : e[2] \in Node
  /\ c.phases # {} => c.ownPhase \cap Node = {}

-----------------------------------------------------------------------------
(* validateForkGraph: checks that look at the whole graph.                 *)

IsDynamic(b) == b # NoBranch /\ b.name = Dynamic

\* A branch made at run time is one node long.
DynamicBranchesAreShort(c) ==
  \A n \in Node : IsDynamic(BranchOf(c, n)) => c.fork[n] # NoBranch

NoLoopInBranch(c) == \A n \in Node : c.type[n] = "loop" => BranchOf(c, n) = NoBranch

DifferentBranches(c, n, m) ==
  LET b == BranchOf(c, n) d == BranchOf(c, m)
  IN b # NoBranch /\ d # NoBranch /\ b.group = d.group /\ b.name # d.name

\* validateDisjointBranchScopes.
ScopesAreDisjoint(c) ==
  \A n, m \in {x \in Node : c.scope[x] # NoScope} :
     DifferentBranches(c, n, m) =>
        \A p \in c.scope[n], q \in c.scope[m] : ~ globsOverlap(p, q)

\* The scan of templatedStrings: top-level nodes only, and not `until`.
BranchVariablesHaveABranch(c) ==
  \A u \in c.uses : u.var.prefix = "branch" /\ u.node \in Node /\ u.field # "until" =>
     BranchOf(c, u.node) # NoBranch

-----------------------------------------------------------------------------
(* After the merge: runtimes and sessions.                                 *)

RuntimeIsSupported(c, n) ==
  c.type[n] = "agent" =>
     /\ Cascade(c, c.runtime, n) \in AcpRuntimes
     /\ Cascade(c, c.runtime, n) \in {"opencode", "cursor"} =>
           Cascade(c, c.permission, n) \in {Unset, "bypassPermissions"}

\* isSessionAncestor: what n waits for, its loop's inputs included.
Upstream(c, n) ==
  LET Parents(ns) == UNION {c.inputs[m] : m \in ns \cup UNION {LoopsOf(c, m) : m \in ns}}
      within[k \in 1 .. Cardinality(Id)] ==
        IF k = 1 THEN Parents({n}) ELSE within[k - 1] \cup Parents(within[k - 1])
  IN within[Cardinality(Id)]

\* Mutant: only `isolation: worktree` gives a tree of its own.
OwnTreeByKey(c, n) == n \in c.isolated

OwnTree(c, n) == n \in c.isolated \/ BranchOf(c, n) \in IsolatedBranches(GraphOf(c))

\* validateSessionGraph, for a node that names the node to continue.
SessionIsContinuable(c, n, t) ==
  LET own == BranchOf(c, n) other == BranchOf(c, t) IN
  /\ t \in Ids(c) /\ c.type[t] = "agent" /\ t # n /\ t \in Upstream(c, n)
  /\ Cascade(c, c.runtime, n) = Cascade(c, c.runtime, t)
  /\ ~ OwnTree(c, n) /\ ~ OwnTree(c, t)
  /\ own = NoBranch <=> other = NoBranch
  /\ own # NoBranch => IsDynamic(own) \/ IsDynamic(other) \/ own.name = other.name

-----------------------------------------------------------------------------
(* The load.                                                               *)

\* Mutant: `hitl` is replaced as a whole by the one of the workflow.
FallbackShallow(c, v, k) ==
  CASE v = Defaults /\ k \in {"poll_interval", "timeout"} /\ c.hitl = NoHitl -> "positive"
    [] v # Defaults /\ k = "max_retry_wall_clock_seconds" -> c.numbers[Defaults][k]
    [] OTHER -> "absent"

\* What a number that is not set becomes.
Fallback(c, v, k) ==
  CASE v = Defaults /\ k \in {"poll_interval", "timeout", "max_parallel"} -> "positive"
    [] v # Defaults /\ k = "max_retry_wall_clock_seconds" -> c.numbers[Defaults][k]
    [] v # Defaults /\ k = "max_concurrent" /\ IsDynamic(c.fork[v]) -> "positive"
    [] OTHER -> "absent"

\* mergeDefaults, and the values stamped by the checks.
Merged(c) ==
  [c EXCEPT !.version = {CURRENT_CONFIG_SCHEMA_VERSION},
            !.runtime[Defaults] = IF @ = Unset THEN "claude" ELSE @,
            !.numbers = [v \in Level |-> [k \in DOMAIN Knobs |->
               IF c.numbers[v][k] = "absent" THEN Fallback(c, v, k) ELSE c.numbers[v][k]]]]

\* validateSchema.
SchemaIsValid(c) ==
  /\ HitlIsWhole(c) /\ PhasesAreClear(c)
  /\ \A n \in Ids(c) : /\ FieldsFitType(c, n) /\ JoinIsWhole(c, n) /\ InputsAreKnown(c, n)
                       /\ RulesAreWhole(c, n) /\ TemplatesAreKnown(c, n)
                       /\ c.type[n] = "loop" /\ n \in Node => LoopIsWhole(c, n)
  /\ \A v \in Ids(c) \cup {Defaults} :
       WellShaped(c, v) /\ ToolFilterIsClear(c, v) /\ NumbersAreInRange(c, v)
  /\ c.session[Defaults] \in {Unset, Fresh, Continue}
  /\ ForkGraphIsValid(GraphOf(c))
  /\ DynamicBranchesAreShort(c) /\ NoLoopInBranch(c)
  /\ ScopesAreDisjoint(c) /\ BranchVariablesHaveABranch(c)

\* The checks of mergeDefaults on what it merged.
MergedIsValid(c) ==
  \A n \in Ids(c) :
     /\ RuntimeIsSupported(c, n)
     /\ c.session[n] \in Id => SessionIsContinuable(c, n, c.session[n])
     /\ n \notin c.missing

Accepted(c) == MigratesToCurrent(c) /\ SchemaIsValid(c) /\ MergedIsValid(Merged(c))

\* loadConfig.
Load == /\ stage = "read"
        /\ IF Accepted(config)
           THEN stage' = "loaded" /\ config' = Merged(config)
           ELSE stage' = "rejected" /\ UNCHANGED config
        /\ UNCHANGED graphVars

\* buildLevels, once the config is there.
BuildLevels == stage = "loaded" /\ Compute /\ UNCHANGED <<config, stage>>

Init == /\ \E i \in DOMAIN Families : config \in Families[i]
        /\ stage = "read"
        /\ w = GraphOf(config)
        /\ Blank

Next == Load \/ BuildLevels

Spec == Init /\ [][Next]_vars

-----------------------------------------------------------------------------
(* Properties.  Those of Levels are checked here too.                      *)

\* The tree of a node (runNodeTree); a loop runs its body in its own.
TreeOf(c, n) ==
  CASE BranchOf(c, n) \in IsolatedBranches(GraphOf(c)) ->
         <<"branch", BranchOf(c, n).group, BranchOf(c, n).name>>
    [] n \in Node /\ n \in c.isolated -> <<"node", n>>
    [] OTHER -> <<"run">>

\* Where the scheduler sees a node.
OnTop(c, n) == IF n \in Node THEN n ELSE CHOOSE l \in Node : n \in BodyOf(c, l)

\* Reference: in every order of the loop's body m comes before n.
PrecedesInBody(c, m, n) ==
  LET body == BodyOf(c, OnTop(c, n))
      within[k \in 1 .. Cardinality(Id)] ==
        IF k = 1 THEN c.inputs[n] \cap body
        ELSE within[k - 1] \cup ((UNION {c.inputs[x] : x \in within[k - 1]}) \cap body)
  IN m \in within[Cardinality(Id)]

\* A node that names the node whose session it continues starts after it has
\* ended, in the same working directory and on the same runtime, and once for
\* each of its sessions: in a branch it finds the one of that branch
\* (validateSessionGraph against the levels and runNodeTree).
SessionCanBeContinued ==
  verdict = "levels" =>
    \A n \in {x \in Ids(config) : config.session[x] \in Id} :
      LET t == config.session[n]
          own == BranchOf(config, n) other == BranchOf(config, t)
          top == OnTop(config, n) before == OnTop(config, t) IN
      /\ config.type[t] = "agent"
      /\ IF top = before /\ n # top THEN PrecedesInBody(config, t, n)
         ELSE LevelOf(before) < LevelOf(top)
      /\ TreeOf(config, n) = TreeOf(config, t)
      /\ Cascade(config, config.runtime, n) = Cascade(config, config.runtime, t)
      /\ (own = NoBranch) = (other = NoBranch)
      /\ own # NoBranch => own.name = other.name \/ IsDynamic(own) \/ IsDynamic(other)

\* The item that a branch gives its nodes; branchContext, staticBranch.
ItemOf(c, n, item) ==
  CASE n \notin Node -> NoItem
    [] n \in Node /\ BranchOf(c, n) = NoBranch -> NoItem
    [] n \in Node /\ IsDynamic(BranchOf(c, n)) -> item
    [] OTHER -> ScalarItem

\* buildContext, for field f of node n: the gate gets no branch, the fields of
\* a body node and `until` get the iteration.
ContextOf(c, n, f, item) ==
  [input |-> c.inputs[n], args |-> {}, env |-> {}, call |-> {},
   loop |-> n \in BodyNode \/ f = "until",
   branch |-> IF f = "when" THEN NoItem ELSE ItemOf(c, n, item)]

\* What the load leaves to the run: the arguments, the environment, the files
\* and commands named, the spelling of names in a prompt, which nodes are inputs,
\* and the shape of an item.
LeftToTheRun(c, u) ==
  \/ u.var.prefix \in {"args", "env", "call"}
  \/ u.field \notin CheckedFields(c, u.node) /\ ~WellFormed(u.var)
  \/ u.var.prefix = "input" /\ u.var.node \notin c.inputs[u.node]
  \/ u.var.prefix = "loop" /\ u.node \notin BodyNode
  \/ u.var.prefix = "branch" /\ (u.node \in BodyNode \/ u.field = "when")
  \/ u.var.prefix = "branch" /\ u.var.name \in {"value", "value.f"}

\* A variable that the loader has let through is there when its node runs, but
\* for what it leaves to the run (validateTemplateVars against resolve and the
\* contexts of gateNode, runScheduledNode, executeFork and runLoop).
VariablesResolve ==
  verdict = "levels" =>
    \A u \in {x \in config.uses : x.node \in Ids(config)} :
      u.field \in CheckedFields(config, u.node) \/ u.var.prefix = "branch" =>
         \/ LeftToTheRun(config, u)
         \/ \A item \in {ScalarItem, ObjectItem} :
               Resolves(u.var, ContextOf(config, u.node, u.field, item))

\* The same with nothing but the arguments, the environment and the files left
\* to the run (FR-E7: an unknown variable is a load error).
AcceptedVariablesResolve ==
  verdict = "levels" =>
    \A u \in {x \in config.uses : x.node \in Ids(config)} :
      /\ u.field \in CheckedFields(config, u.node)
      /\ u.var.prefix \notin {"args", "env", "call"}
      => Resolves(u.var, ContextOf(config, u.node, u.field, ScalarItem))

\* What a node of a branch may write: nothing unless it says what
\* (effectiveAllowedPaths and the check of its writes, checkScope).
MayWrite(c, n, file) ==
  c.scope[n] # NoScope /\ \E p \in c.scope[n] : globMatch(p, file)

\* Two branches of one group are never both allowed to write one file: the
\* overlap test of the loader errs on the side of an overlap (globsOverlap
\* against globMatch).
BranchesKeepApart ==
  verdict = "levels" =>
    \A n, m \in Node : DifferentBranches(config, n, m) =>
       \A file \in Files : ~ (MayWrite(config, n, file) /\ MayWrite(config, m, file))

\* Every member of a branch is in reach of the node that opened it, and starts
\* after it; who takes an input from a branch is in that branch, opens one of its
\* own or joins (the passes of resolveBranchMembership against the levels).
BranchesAreClosed ==
  verdict = "levels" =>
    LET own == Membership(w) IN
    \A n \in Node :
      /\ own[n] # NoBranch =>
           \E f \in Node : w.fork[f] = own[n] /\ (f = n \/ LevelOf(f) < LevelOf(n))
      /\ \A i \in w.inputs[n] :
           own[i] \notin {NoBranch, own[n]} => w.fork[n] # NoBranch \/ w.join[n] # NoGroup

\* What the scheduler takes for granted of a plan: wherever it looks, a node waits
\* for nobody there and a node is waited for by nobody there, and a join, which is
\* in no group, waits for what its group does not pass on (config.ts, dag.ts).
DependenciesSuffice ==
  verdict = "levels" =>
    /\ \A S \in (SUBSET Node) \ {{}} : /\ \E n \in S : deps[n] \cap S = {}
                                       /\ \E n \in S : \A m \in S : n \notin deps[m]
    /\ \A n \in Node :
         /\ w.inputs[n] \subseteq deps[n]
         /\ w.join[n] # NoGroup =>
              /\ GroupOf(w)[n] = NoGroup
              /\ \A m \in Node : GroupOf(w)[m] = w.join[n] =>
                   m \in deps[n] \/ \E s \in Node : GroupOf(w)[s] = w.join[n] /\ m \in w.inputs[s]

\* An accepted graph can be run as the scheduler runs it: its branches and its
\* dependencies are what it relies on.
GraphsCanBeScheduled == BranchesAreClosed /\ DependenciesSuffice

\* When a loop starts, every input its body takes from outside has had its
\* turn, and one rule says when it ends (the loop rules against the levels).
LoopBodyIsFed ==
  verdict = "levels" =>
    \A l \in {x \in Node : config.type[x] = "loop"} :
      LET body == BodyOf(config, l) IN
      /\ \A b \in body : \A i \in config.inputs[b] \ body : LevelOf(i) < LevelOf(l)
      /\ "until" \notin config.exit[l] => config.conditionNode[l] \in body

\* Of a loaded workflow the question loop can compute a deadline and a pause,
\* and every cap is absent or a number that caps (mergeDefaults).
QuestionsCanBeAwaited ==
  stage = "loaded" =>
    /\ \A k \in {"poll_interval", "timeout"} : config.numbers[Defaults][k] \in Knobs[k]
    /\ \A n \in Ids(config), k \in DOMAIN Knobs :
          config.numbers[n][k] \in Knobs[k] \cup {"absent"}

\* What loops and questions need in order to come to an end was there when the
\* workflow was accepted.
NodesAreComplete == LoopBodyIsFed /\ QuestionsCanBeAwaited

=============================================================================
