------------------------------- MODULE Globs -------------------------------
(***************************************************************************)
(* The glob patterns of `allowed_paths` (isolation/glob.ts): what a        *)
(* pattern matches when the scope of a node is checked, and the test that  *)
(* two patterns can match one path, which the loader applies to the        *)
(* branches of a group.  A pattern is a sequence of segments, a segment a  *)
(* sequence of letters, "*", "**" and "?"; a path is one of letters alone. *)
(***************************************************************************)
EXTENDS Naturals, Sequences

\* The text of a pattern or a path: its segments with "/" between them, built
\* from the last one on.
Text(segments) ==
  LET from[k \in 0 .. Len(segments)] ==
        CASE k = 0 -> <<>>
          [] k = 1 -> segments[Len(segments)]
          [] OTHER -> segments[Len(segments) + 1 - k] \o <<"/">> \o from[k - 1]
  IN from[Len(segments)]

\* The part of text s from j to before e is one that letter i of pattern p takes.
\* "**" is any characters, and takes the "/" after it along.
Takes(p, i, s, j, e) ==
  /\ j <= e
  /\ CASE p[i] = "**" -> TRUE
       [] p[i] = "*"  -> \A x \in j .. e - 1 : s[x] # "/"
       [] p[i] = "?"  -> e = j + 1 /\ s[j] # "/"
       [] i > 1 /\ p[i] = "/" /\ p[i - 1] = "**" -> e = j
       [] OTHER -> e = j + 1 /\ s[j] = p[i]

\* The regular expression built from text p, anchored at both ends, on text s:
\* the places that can be reached after the first i letters of p.
Matches(p, s) ==
  LET Place == 1 .. Len(s) + 1
      after[i \in 0 .. Len(p)] ==
        IF i = 0 THEN {1} ELSE {e \in Place : \E j \in after[i - 1] : Takes(p, i, s, j, e)}
  IN Len(s) + 1 \in after[Len(p)]

globMatch(pattern, path) == Matches(Text(pattern), Text(path))

IsGlob(segment) == \E i \in DOMAIN segment : segment[i] \in {"*", "**", "?"}

\* Inside a segment two stars are two times any characters of the segment.
segmentMatches(segment, literal) ==
  Matches([i \in DOMAIN segment |-> IF segment[i] = "**" THEN "*" ELSE segment[i]], literal)

segmentsDisjoint(left, right) ==
  /\ left # right
  /\ ~ (IsGlob(left) /\ IsGlob(right))
  /\ IsGlob(left)  => ~ segmentMatches(left, right)
  /\ IsGlob(right) => ~ segmentMatches(right, left)

\* Mutant: a pattern that is shorter than the other claims none of its paths.
globsOverlapSameDepth(left, right) ==
  /\ Len(left) = Len(right)
  /\ \A i \in DOMAIN left : ~ segmentsDisjoint(left[i], right[i])

\* The patterns are disjoint when a segment tells them apart before any "**".
globsOverlap(left, right) ==
  LET shared == 1 .. (IF Len(left) < Len(right) THEN Len(left) ELSE Len(right))
      Spans(i) == left[i] = <<"**">> \/ right[i] = <<"**">>
  IN \A i \in shared :
        segmentsDisjoint(left[i], right[i]) => \E j \in 1 .. i : Spans(j)

=============================================================================
