---------------------------- MODULE MCGuardrail ----------------------------
(***************************************************************************)
(* Two agents with scopes and one without.  The user has changed readme    *)
(* before the run.                                                         *)
(***************************************************************************)
EXTENDS Guardrail, TLC

CONSTANTS n1, n2, n3, readme, notes, stray, src1, src2

MCAllowed == n1 :> {notes, src1} @@ n2 :> {src2} @@ n3 :> {}
MCReach   == n1 :> {notes, src1} @@ n2 :> {src1, src2} @@ n3 :> {stray}

=============================================================================
