-------------------------- MODULE MCWorkbenchQueue --------------------------
(* Instances of WorkbenchQueue: the bounds are numbers, given in the cfg.   *)
EXTENDS WorkbenchQueue
=============================================================================
