----------------------------- MODULE Artifacts -----------------------------
(***************************************************************************)
(* What a node leaves in its directory, as the rules of its `validate`     *)
(* block judge it (config/validate.ts) and as a loop reads its condition   *)
(* from it (extractConditionValue in loop.ts).  The two readers are apart: *)
(* each has its own patterns, and its own choice of the file.              *)
(*                                                                         *)
(* A directory maps file names to documents, or to NoFile.  A document has *)
(*   front     the lines of its frontmatter, or NoFront                    *)
(*   padded    there are blanks after the opening `---`                    *)
(*   sections  its headings                                                *)
(* A line of a frontmatter is a key and a value: Blank, or a text that may *)
(* be in quotes.                                                           *)
(***************************************************************************)
EXTENDS Integers, Sequences, FiniteSets

CONSTANTS NoFile, NoFront, Blank, NoValue

Empty == [front |-> NoFront, padded |-> FALSE, sections |-> {}]

Exists(dir, f) == dir[f] # NoFile

\* A directory over the names `files`: a frontmatter is a sequence of lines.
IsDirectory(files, dir) ==
  /\ DOMAIN dir = files
  /\ \A f \in files : Exists(dir, f) /\ dir[f].front # NoFront =>
       dir[f].front \in Seq({dir[f].front[i] : i \in DOMAIN dir[f].front})

-----------------------------------------------------------------------------
(* The fields of a frontmatter.                                            *)

\* The lines that give the field k.
LinesOf(front, k) == {i \in DOMAIN front : front[i].key = k}

\* The patterns `^field:\s*(.+)$` and `^field:\s*(.*)$` at line i: the blanks
\* they skip may be the end of the line, and then the next line is the value.
ValueAt(front, i) ==
  CASE front[i].value # Blank -> front[i].value
    [] front[i].value = Blank /\ i + 1 \in DOMAIN front -> front[i + 1]
    [] OTHER -> Blank

\* What a rule takes for the field k: the first line with a value.
FirstValue(front, k) ==
  LET with == {i \in LinesOf(front, k) : ValueAt(front, i) # Blank}
  IN IF with = {} THEN NoValue
     ELSE ValueAt(front, CHOOSE i \in with : \A j \in with : i <= j)

\* The frontmatter that a rule sees: its opening line is bare.
RuleFront(doc) == IF doc.padded THEN NoFront ELSE doc.front

-----------------------------------------------------------------------------
(* The rules.                                                              *)

\* checkFrontmatterField; no `allowed` list allows every value.
FieldIsAllowed(rule, doc) ==
  /\ RuleFront(doc) # NoFront
  /\ FirstValue(RuleFront(doc), rule.field) # NoValue
  /\ rule.allowed # {} => FirstValue(RuleFront(doc), rule.field) \in rule.allowed

\* The first line of each field decides, with or without a value.
FieldsAreFilled(rule, doc) ==
  rule.fields # {} =>
    /\ RuleFront(doc) # NoFront
    /\ \A k \in rule.fields :
         LET own == LinesOf(RuleFront(doc), k)
         IN /\ own # {}
            /\ ValueAt(RuleFront(doc), CHOOSE i \in own : \A j \in own : i <= j) # Blank

HasSection(doc, section) == section \in doc.sections

\* checkArtifact.
ArtifactPasses(rule, doc) ==
  /\ doc # Empty
  /\ \A section \in rule.sections : HasSection(doc, section)
  /\ FieldsAreFilled(rule, doc)

\* runSingleValidation, for the rules that look at a file.
Passes(rule, dir) ==
  /\ Exists(dir, rule.path)
  /\ rule.type = "file_not_empty" => dir[rule.path] # Empty
  /\ rule.type = "contains_section" => HasSection(dir[rule.path], rule.section)
  /\ rule.type = "frontmatter_field" => FieldIsAllowed(rule, dir[rule.path])
  /\ rule.type = "artifact" => ArtifactPasses(rule, dir[rule.path])

\* allPassed(runValidations(...)).
AllPassed(rules, dir) == \A rule \in rules : Passes(rule, dir)

-----------------------------------------------------------------------------
(* The condition of a loop.                                                *)

\* unquoteScalar.
Unquoted(v) == IF v = Blank \/ "text" \notin DOMAIN v THEN v ELSE [v EXCEPT !.quoted = FALSE]

\* Mutant: the last of several counts.
ExtractedLast(doc, k) ==
  IF doc.front = NoFront \/ LinesOf(doc.front, k) = {} THEN NoValue
  ELSE Unquoted(ValueAt(doc.front, CHOOSE i \in LinesOf(doc.front, k) :
                                      \A j \in LinesOf(doc.front, k) : j <= i))

\* extractFrontmatterField: NoValue also stands for the exception it throws
\* when a field is there twice.
Extracted(doc, k) ==
  IF doc.front = NoFront \/ Cardinality(LinesOf(doc.front, k)) # 1 THEN NoValue
  ELSE Unquoted(ValueAt(doc.front, CHOOSE i \in LinesOf(doc.front, k) : TRUE))

\* The files at which the search through the directory ends.
Decisive(dir, k) ==
  {f \in DOMAIN dir : /\ Exists(dir, f) /\ f # "condition.json" /\ dir[f].front # NoFront
                      /\ LinesOf(dir[f].front, k) # {}}

\* condition.json gives its field as it is, if it can be read and has it.
FromJson(dir, k) ==
  IF ~Exists(dir, "condition.json") \/ dir["condition.json"].front = NoFront THEN NoValue
  ELSE FirstValue(dir["condition.json"].front, k)

\* extractConditionValue: the values it may return, the order in which the
\* files of the directory come being free.
ConditionValues(dir, k) ==
  IF Decisive(dir, k) = {} THEN {FromJson(dir, k)}
  ELSE {IF Extracted(dir[f], k) = NoValue THEN FromJson(dir, k) ELSE Extracted(dir[f], k) :
          f \in Decisive(dir, k)}

=============================================================================
