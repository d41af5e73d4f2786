----------------------------- MODULE MCRunLock -----------------------------
(***************************************************************************)
(* Two invocations over two runs, so that one may resume while the other   *)
(* works, takes over from it or is refused by it, and two probes, so that  *)
(* an engine may need all its attempts.                                    *)
(***************************************************************************)
EXTENDS RunLock, TLC

Symmetry == Permutations(Engine) \cup Permutations(Asker) \cup Permutations(Run)

=============================================================================
