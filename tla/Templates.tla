----------------------------- MODULE Templates -----------------------------
(***************************************************************************)
(* The {{...}} variables of a workflow (config/template.ts): what the      *)
(* loader accepts (validateTemplateVars) and what a run can resolve        *)
(* (interpolate).  A variable is a record of its prefix, its name and, for *)
(* an input, the node; node_dir, run_dir and run_id have the prefix        *)
(* "path", the functions file, flow_file and bash the prefix "call".       *)
(*                                                                         *)
(* A context says which names it has of each prefix.  The item of a branch *)
(* is a scalar, or an object and then given by the set of its fields with  *)
(* a scalar value; which field is meant is left out, so "value.f" stands   *)
(* for every field.                                                        *)
(***************************************************************************)
EXTENDS Integers

CONSTANTS NoItem, ScalarItem, ObjectItem

ASSUME ItemsAssumption == NoItem # ScalarItem /\ NoItem # ObjectItem /\ ScalarItem # ObjectItem

PathName == {"node_dir", "run_dir", "run_id"}
CallName == {"file", "flow_file", "bash"}

KnownPrefix == {"path", "call", "input", "args", "env", "loop", "run", "branch"}

\* isBranchProperty.
BranchName == {"index", "key", "value", "value.f"}

\* The name fits the prefix, whatever the context.
WellFormed(v) ==
  /\ v.prefix \in KnownPrefix
  /\ v.prefix = "path" => v.name \in PathName
  /\ v.prefix = "call" => v.name \in CallName
  /\ v.prefix = "loop" => v.name = "iteration"
  /\ v.prefix = "run" => v.name \in {"outcome", "attempt"}
  /\ v.prefix = "branch" => v.name \in BranchName

\* validateTemplateVars.
Accepts(v, knownInputs, allowBranch) ==
  /\ WellFormed(v)
  /\ v.prefix = "input" => v.node \in knownInputs
  /\ v.prefix = "branch" => allowBranch

\* readBranchValue: an object is not rendered, a scalar has no fields.
Rendered(item) ==
  CASE item = NoItem -> {}
    [] item = ScalarItem -> {"index", "key", "value"}
    [] item = ObjectItem -> {"index", "key", "value.f"}

\* readIncludedFile, runBash: the file is there, the command exits with 0.
Called(v, ctx) == v.name \in ctx.call

\* resolve: it throws unless this holds.
Resolves(v, ctx) ==
  /\ WellFormed(v)
  /\ v.prefix = "input" => v.node \in ctx.input
  /\ v.prefix \in {"args", "env"} => v.name \in ctx[v.prefix]
  /\ v.prefix = "call" => Called(v, ctx)
  /\ v.prefix = "loop" => ctx.loop
  /\ v.prefix = "branch" => v.name \in Rendered(ctx.branch)

=============================================================================
