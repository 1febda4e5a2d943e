---------------------------- MODULE MCRecovery ----------------------------
(* Instances of RecoveryChain: the bounds are given in the cfg.             *)
EXTENDS RecoveryChain
=============================================================================
