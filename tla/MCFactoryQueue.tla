--------------------------- MODULE MCFactoryQueue ---------------------------
(* Instances of FactoryQueue: the runs and the commands alive together are    *)
(* given in the cfg.                                                          *)
EXTENDS FactoryQueue, TLC

Symmetry == Permutations(Cmds)
=============================================================================
