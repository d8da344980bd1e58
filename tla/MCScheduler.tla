----------------------------- MODULE MCScheduler -----------------------------
(***************************************************************************)
(* Instances of Scheduler for TLC.  The threadNum arguments are given here *)
(* since a .cfg file cannot write a negative number.                       *)
(***************************************************************************)
EXTENDS Scheduler

MCAnyThread == {-1}
MCPinned    == {-1, 0}
=============================================================================
