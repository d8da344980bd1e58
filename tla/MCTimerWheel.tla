---------------------------- MODULE MCTimerWheel ----------------------------
(* Instances of TimerWheel for TLC: intervals are functions.               *)
EXTENDS TimerWheel, TLC

CONSTANTS t1, t2, t3

\* One shorter than a tick, one in the middle and the longest that a wheel
\* of three slots and two units a tick can hold without a second round.
MCShort == (t1 :> 1) @@ (t2 :> 2) @@ (t3 :> 5)
MCLong  == (t1 :> 6)
=============================================================================
