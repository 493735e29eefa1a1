-------------------------------- MODULE MCTrap --------------------------------
(* Instances of Trap for TLC: two processes whose heaps share one page, so *)
(* that a fault taken for the other process's may be harmless or not.      *)
EXTENDS Trap

MCDifferent(t) == IF t = 0 THEN {0} ELSE Page
=============================================================================
