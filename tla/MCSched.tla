------------------------------- MODULE MCSched -------------------------------
(* Instances of Sched for TLC: the programs exit with one of two statuses, *)
(* or all with the same where only progress and parentage are at stake.    *)
EXTENDS Sched

MCStatus == {"ok", "failed"}
MCOneStatus == {"ok"}
=============================================================================
