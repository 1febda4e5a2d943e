---------------------------- MODULE MCPublication ----------------------------
(* Instances of Publication.                                               *)
EXTENDS Publication, TLC

\* The push approval ends before the draft approval does.
MCFrom == [op \in Ops |-> 0]
MCUntil == [op \in Ops |-> IF op = "draft" THEN 2 ELSE 1]
CallSymmetry == Permutations(Calls)
=============================================================================
