---------------------------- MODULE MCScheduler ----------------------------
(***************************************************************************)
(* Plans for Scheduler, compiled from workflows by the operators of Dag.   *)
(***************************************************************************)
EXTENDS Scheduler, TLC

MCNode  == 1 .. 6
MCGroup == {"g"}
MCName  == {"a", "b"}

\* A function on nodes that is given at the nodes of f and is e elsewhere.
With(f, e) == [n \in Node |-> IF n \in DOMAIN f THEN f[n] ELSE e]

InBranch(b) == [group |-> "g", name |-> b]

\* 1 - 2 is branch a, 3 - 4 is branch b, 5 joins them and 6 reads the join.
Forked(scoped) ==
  [inputs |-> With(2 :> {1} @@ 4 :> {3} @@ 6 :> {5}, {}),
   fork   |-> With(1 :> InBranch("a") @@ 3 :> InBranch("b"), NoBranch),
   join   |-> With(5 :> "g", NoGroup),
   scoped |-> scoped]

\* 4 reads 2 and 3, which read 1; 6 reads 5.
Diamond ==
  [inputs |-> With(2 :> {1} @@ 3 :> {1} @@ 4 :> {2, 3} @@ 6 :> {5}, {}),
   fork   |-> With(<<>>, NoBranch),
   join   |-> With(<<>>, NoGroup),
   scoped |-> {}]

\* The options of a run that uses none of them.
Plain == [mode        |-> [g \in Group |-> "fail_fast"],
          runOn       |-> With(6 :> "always", "none"),
          when        |-> {},
          skips       |-> {{}},
          continues   |-> {},
          human       |-> {},
          capped      |-> {},
          maxParallel |-> 2,
          guarded     |-> FALSE,
          budget      |-> FALSE,
          prepare     |-> FALSE]

Compile(w, options) == [inputs |-> w.inputs,
                        join   |-> w.join,
                        deps   |-> Dependencies(w),
                        group  |-> GroupOf(w),
                        alone  |-> Exclusive(w)] @@ options

WithMode(m, options) == [mode |-> [g \in Group |-> m]] @@ options

\* A fork under each failure mode, branch b behind a `when`.
ForkPlans ==
  {Compile(Forked({1, 3}), WithMode(m, [when |-> {3}] @@ Plain)) : m \in Modes}

\* A fork whose branch b has no tree, in a guarded run of any concurrency.
SharedPlans ==
  {Compile(Forked({1}),
           WithMode(m, [guarded |-> TRUE, maxParallel |-> 0] @@ Plain)) :
     m \in {"fail_fast", "all_or_nothing"}}

\* A diamond with failures that are carried on, humans and budgets.
DiamondPlans ==
  {Compile(Diamond, [runOn |-> With(5 :> "failure" @@ 6 :> "always", "none"),
                     continues |-> {2}, human |-> {2, 3}, capped |-> {2},
                     budget |-> TRUE, prepare |-> TRUE,
                     skips |-> {{}, {2}}] @@ Plain)}

\* Most nodes wait for the verdict, one of them in every attempt.
OutcomePlans ==
  {Compile(Diamond, [runOn |-> With(1 :> "none" @@ 2 :> "every_attempt" @@
                                    3 :> "failure" @@ 5 :> "success", "always"),
                     when |-> {3}] @@ Plain)}

\* A fork that goes on past its first node when that fails.
LenientPlans ==
  {Compile(Forked({1, 3}),
           WithMode("all_or_nothing", [continues |-> {1}] @@ Plain))}

\* A fork whose inner node waits for the verdict of the run.
SplitPlans ==
  {Compile(Forked({1, 3}),
           WithMode("collect", [runOn |-> With(2 :> "always", "none")] @@ Plain))}

LaxPlans == LenientPlans \cup SplitPlans

MCPlans == LaxPlans \cup ForkPlans \cup SharedPlans \cup DiamondPlans \cup OutcomePlans

=============================================================================
