----------------------------- MODULE MCService -----------------------------
(***************************************************************************)
(* A process and a detached engine, two jobs over two runs: two cycles, a  *)
(* run and its resume, a run in the server and one beside it.              *)
(***************************************************************************)
EXTENDS Service

=============================================================================
