------------------------------ MODULE MCLoader ------------------------------
(***************************************************************************)
(* Four top-level nodes and two body nodes.  The configs are families, one *)
(* per group of rules, each varying what its rules look at.                *)
(***************************************************************************)
EXTENDS Loader, TLC

MCNode     == 1 .. 4
MCBodyNode == {5, 6}
MCDefaults == 0
MCGroup    == {"g", "h"}
MCName     == {"a", "b", "*"}

AllUnset == [v \in Level |-> Unset]
NoNumber == [k \in DOMAIN Knobs |-> "absent"]
On(b)    == [group |-> "g", name |-> b]

\* Four agents one after the other.
Plain ==
  [version |-> {1}, malformed |-> {},
   type |-> [n \in Id |-> "agent"], has |-> [n \in Id |-> {"prompt"}],
   inputs |-> [n \in Id |-> IF n \in 2 .. 4 THEN {n - 1} ELSE {}],
   fork |-> [n \in Id |-> NoBranch], join |-> [n \in Id |-> NoGroup],
   scope |-> [n \in Id |-> NoScope], isolated |-> {}, modes |-> {},
   body |-> [n \in Node |-> {}], exit |-> [n \in Node |-> {"until"}],
   conditionNode |-> [n \in Node |-> 5], rules |-> [n \in Id |-> {}],
   session |-> AllUnset, runtime |-> AllUnset, permission |-> AllUnset,
   filter |-> AllUnset, reserved |-> {}, numbers |-> [v \in Level |-> NoNumber],
   uses |-> {}, hitl |-> NoHitl, phases |-> {}, ownPhase |-> {},
   missing |-> {}]

\* Nodes 1 and 2 open branches a and b, 3 carries branch a on, 4 joins.
Forked == [Plain EXCEPT !.fork[1] = On("a"), !.fork[2] = On("b"), !.join[4] = "g",
                        !.inputs = [n \in Id |-> CASE n = 3 -> {1} [] OTHER -> {}]]

\* Node 3 is a loop over 5 and 6.
Looped == [Plain EXCEPT !.type[3] = "loop", !.has[3] = {}, !.body[3] = {5, 6},
                        !.inputs[6] = {5}]

AtMostOne(n) == {{}} \cup {{m} : m \in Node \ {n}}

Graphs == {[Plain EXCEPT !.inputs = [n \in Id |-> CASE n = 1 -> i1 [] n = 2 -> i2 [] n = 3 -> i3
                                                    [] n = 4 -> i4 [] OTHER -> {}],
                         !.fork[1] = b1, !.fork[2] = b2, !.join[4] = g] :
             i1 \in AtMostOne(1), i2 \in AtMostOne(2), i3 \in AtMostOne(3),
             i4 \in SUBSET {1, 2, 3}, b1 \in {NoBranch, On("a")},
             b2 \in {NoBranch, On("a"), On("b"), On("*")}, g \in Group \cup {NoGroup}}

\* One node continues another: along a chain, in branches, into and in a loop.
Continuing(base) ==
  {[base EXCEPT !.session[n] = t, !.isolated = i, !.scope[1] = s, !.runtime[1] = r] :
     n \in {2, 3, 4, 5, 6}, t \in Id, i \in {{}, {1}, {4}},
     s \in {NoScope, {<<<<"a">>>>}}, r \in {Unset, "opencode"}}
TwoGroups == [Forked EXCEPT !.fork[3] = [group |-> "h", name |-> "a"], !.inputs[3] = {4},
                            !.fork[2] = NoBranch, !.join[2] = "h", !.inputs[2] = {3}]
\* Node 3 joins one group and opens a branch of another, which is refused.
Relay == [Forked EXCEPT !.join[3] = "g", !.fork[3] = [group |-> "h", name |-> "a"],
                        !.inputs[3] = {1}, !.join[4] = "h"]
Sessions == Continuing(Plain) \cup Continuing(Forked) \cup Continuing(Looped)
              \cup Continuing(TwoGroups)
              \cup Continuing([Forked EXCEPT !.fork[2] = On("*"), !.inputs[2] = {3}])
              \cup {[Plain EXCEPT !.session[Defaults] = t] : t \in {Fresh, Continue, 1}}
              \cup {Relay}

Rule(type, onExit) == [type |-> type, has |-> {"path"}, onExit |-> onExit]

Ruled == {[Plain EXCEPT !.rules[2] = {[type |-> t, has |-> h, onExit |-> FALSE]}] :
            t \in RuleTypes \cup {"other"}, h \in SUBSET {"path", "sections", "fields"}}

Loops == {[Looped EXCEPT !.body[3] = b, !.inputs[3] = i3, !.inputs[5] = i5, !.inputs[6] = i6,
                         !.exit[3] = x, !.conditionNode[3] = n, !.rules[5] = r] :
            b \in {{}, {5}, {5, 6}}, i3 \in {{2}, {4}, {1, 2}}, i5 \in {{}, {2}, {4}, {6}, {3}},
            i6 \in {{}, {5}, {1, 5}, {1}}, n \in {5, 6, 2},
            r \in {{}, {Rule("frontmatter_field", TRUE)}, {Rule("file_exists", FALSE)}},
            x \in {{}, {"until"}, Triple, {"until", "exit_value"}}}

Letters == {"a", "b"}
MCFiles == UNION {[1 .. k -> {<<"a">>, <<"b">>, <<"a", "b">>}] : k \in 1 .. 3}
Patterns(segments) == UNION {[1 .. k -> segments] : k \in 1 .. 2}
Plainly == {<<"a">>, <<"b">>, <<"*">>, <<"**">>, <<"a", "*">>, <<"?">>}
Scoped(segments) ==
  {[Forked EXCEPT !.scope[1] = {p}, !.scope[2] = {q}] :
     p \in Patterns(segments), q \in Patterns(segments)}

Kinds == {"agent", "command", "merge", "human", "hitl"}
Types == {[base EXCEPT !.type[n] = t, !.has[n] = h, !.modes = m] :
            base \in {Forked, Looped}, n \in {1, 3, 5}, t \in Kinds,
            h \in {{}, {"prompt"}, {"command"}, {"question"}, {"prompt", "command"}},
            m \in {{}, {4}, {2}}}

Var(prefix, name) == [prefix |-> prefix, name |-> name, node |-> 0]
Vars == {[Var("input", "id") EXCEPT !.node = i] : i \in {2, 5, 9}}
          \cup {Var("branch", x) : x \in {"index", "value", "value.f", "size"}}
          \cup {Var("loop", x) : x \in {"iteration", "count"}}
          \cup {Var("run", x) : x \in {"outcome", "cost"}}
          \cup {Var("env", "x"), Var("node", "x"), Var("path", "node_dir"), Var("call", "bash")}
Fields == {"when", "before", "prompt", "until", "command"}
Uses == {c \in {[base EXCEPT !.uses = {[node |-> n, field |-> f, var |-> v]}, !.type[1] = t,
                              !.has[1] = IF t = "agent" THEN {"prompt"} ELSE {"command"}] :
                   base \in {Forked, Looped,
                             [Forked EXCEPT !.fork[1] = On("*"), !.inputs[3] = {}]},
                   n \in {1, 2, 3, 4, 6}, f \in Fields, v \in Vars, t \in {"agent", "command"}} :
           \A u \in c.uses : /\ u.field \in {"prompt", "command"} => u.field \in c.has[u.node]
                            /\ u.field = "until" => c.type[u.node] = "loop"}

Values == {"absent", "negative", "zero", "fraction", "positive", "other"}
Numbers == {[Plain EXCEPT !.numbers[v][k] = x, !.numbers[Defaults][m] = y, !.hitl = h,
                          !.fork[3] = f, !.join[4] = IF f = NoBranch THEN NoGroup ELSE "g"] :
              v \in {Defaults, 3}, k \in DOMAIN Knobs, x \in Values,
              m \in {"poll_interval", "max_retry_wall_clock_seconds"}, y \in {"absent", "positive"},
              h \in {NoHitl, {"ask_script"}, {"ask_script", "check_script"}}, f \in {NoBranch, On("*")}}

Rest == {[Looped EXCEPT !.version = v, !.malformed = m, !.filter[5] = f, !.reserved = r,
                        !.runtime[3] = t, !.permission[Defaults] = p, !.phases = e,
                        !.ownPhase = o, !.missing = x] :
           v \in {{}, {1}, {2}}, m \in {{}, {<<"key", 5>>}, {<<"value", Defaults>>}, {<<"list", 3>>}},
           f \in {Unset, {"allowed"}, {"allowed", "disallowed"}},
           r \in {{}, {5}}, t \in {Unset, "opencode", "codex"}, p \in {Unset, "plan", "bypassPermissions"},
           e \in {{}, {<<"p", 1>>}, {<<"p", 1>>, <<"q", 1>>}}, o \in {{}, {2}}, x \in {{}, {6}}}

MCFamilies == <<Graphs, Sessions, Loops, Scoped(Plainly), Types, Ruled, Uses, Numbers, Rest>>

\* Variables only.
MCUses == <<Uses>>

\* A "**" that is not a segment of its own, as in src/**.ts.
MCStarsInSegments == <<Scoped({<<"a">>, <<"b">>, <<"**", "b">>})>>

=============================================================================
