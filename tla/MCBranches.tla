----------------------------- MODULE MCBranches -----------------------------
(***************************************************************************)
(* A static branch of two nodes, one after the other or side by side,      *)
(* beside a fork of up to two items, one of which may leave no answer.     *)
(***************************************************************************)
EXTENDS Branches

Chain == [m \in {"a", "b"} |-> IF m = "a" THEN {} ELSE {"a"}]
Pair  == [m \in {"a", "b"} |-> {}]
ChainOrPair == {Chain, Pair}
UpToTwo == {<<>>, <<"x">>, <<"x", "y">>}

=============================================================================
