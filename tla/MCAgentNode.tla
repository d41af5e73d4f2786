---------------------------- MODULE MCAgentNode ----------------------------
(***************************************************************************)
(* One node, two overlapping answers, three starts.                        *)
(***************************************************************************)
EXTENDS AgentNode

=============================================================================
