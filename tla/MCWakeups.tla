----------------------------- MODULE MCWakeups -----------------------------
(***************************************************************************)
(* Wakeups for TLC: jobs that do one thing each in between.                *)
(***************************************************************************)
EXTENDS Wakeups, TLC

CONSTANTS t1, t2, j1, j2

MCPin   == (j1 :> -1) @@ (j2 :> t2)
MCDoes  == (j1 :> {"return", "again", "submit"}) @@ (j2 :> {"wait", "timed", "sleep"})
=============================================================================
