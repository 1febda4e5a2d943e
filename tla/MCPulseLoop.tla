---------------------------- MODULE MCPulseLoop ----------------------------
(* Model values for PulseLoop.                                             *)
EXTENDS PulseLoop, TLC

Symmetry == Permutations(Packets)
=============================================================================
