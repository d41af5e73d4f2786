------------------------------- MODULE MCLoop -------------------------------
(***************************************************************************)
(* Three body nodes in a chain: the first and last may continue a session, *)
(* the one between them, a command or an agent, is gated and writes the    *)
(* exit condition.                                                         *)
(***************************************************************************)
EXTENDS Loop

Chain == <<"build", "check", "revise">>
ChainInputs == [b \in {"build", "check", "revise"} |->
                  CASE b = "build" -> {} [] b = "check" -> {"build"} [] OTHER -> {"check"}]
OwnSessions == [b \in {"build", "check", "revise"} |->
                  IF b = "check" THEN "fresh" ELSE "continue"]
SharedSessions == [OwnSessions EXCEPT !["revise"] = "build"]

(* What the condition node may leave: a report with one verdict, with two, *)
(* with one in quotes, with an empty one, with blanks after the opening    *)
(* line or without its section; and a verdict elsewhere.                   *)
Text(t)    == [text |-> t, quoted |-> FALSE]
Quoted(t)  == [text |-> t, quoted |-> TRUE]
Verdict(v) == [key |-> "verdict", value |-> v]
Note       == [key |-> "note", value |-> Text("ok")]
Doc(front) == [front |-> front, padded |-> FALSE, sections |-> {"Summary"}]

Reports == {Doc(<<Verdict(Text("FAIL")), Note>>), Doc(<<Note, Verdict(Text("PASS"))>>),
            Doc(<<Verdict(Text("FAIL")), Verdict(Text("PASS"))>>),
            Doc(<<Verdict(Quoted("PASS"))>>), Doc(<<Verdict(Blank), Note>>),
            [Doc(<<Verdict(Text("PASS"))>>) EXCEPT !.padded = TRUE],
            [Doc(<<Verdict(Text("PASS"))>>) EXCEPT !.sections = {}]}

MCFile    == {"report.md", "notes.md", "condition.json"}
NoFiles   == [f \in MCFile |-> NoFile]
MCOutputs ==
  {[NoFiles EXCEPT !["report.md"] = r] : r \in Reports}
    \cup {[NoFiles EXCEPT !["report.md"] = Doc(<<Verdict(Text("FAIL"))>>),
                          ![f] = Doc(<<Verdict(Text("PASS"))>>)] :
            f \in {"notes.md", "condition.json"}}
MCRules ==
  {[type |-> "frontmatter_field", path |-> "report.md", field |-> "verdict",
    allowed |-> {Text("PASS"), Text("FAIL"), Quoted("PASS")}],
   [type |-> "artifact", path |-> "report.md", sections |-> {"Summary"},
    fields |-> {"verdict"}]}
MCExit  == Text("PASS")

=============================================================================
