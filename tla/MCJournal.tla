----------------------------- MODULE MCJournal -----------------------------
(***************************************************************************)
(* Two nodes that run together.                                            *)
(***************************************************************************)
EXTENDS Journal

=============================================================================
