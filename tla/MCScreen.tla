------------------------------- MODULE MCScreen -------------------------------
(* An instance of Screen for TLC.                                            *)
EXTENDS Screen
=============================================================================
