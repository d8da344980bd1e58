------------------------------- MODULE JobPool -------------------------------
(***************************************************************************)
(* What the scheduler promises about the jobs it is given: each is run     *)
(* once, by one thread at a time, from its submission to its return, and   *)
(* it may give up the CPU or wait for an event on the way.                 *)
(***************************************************************************)
CONSTANT Jobs

VARIABLE status   \* [Jobs -> {"new", "ready", "running", "waiting", "done"}]

Init == status = [j \in Jobs |-> "new"]

Becomes(j, from, to) ==
  /\ status[j] = from
  /\ status' = [status EXCEPT ![j] = to]

Submit(j) == Becomes(j, "new", "ready")
Start(j)  == Becomes(j, "ready", "running")
Yield(j)  == Becomes(j, "running", "ready")
Wait(j)   == Becomes(j, "running", "waiting")
Wake(j)   == Becomes(j, "waiting", "ready")
Finish(j) == Becomes(j, "running", "done")

Next == \E j \in Jobs : \/ Submit(j) \/ Start(j) \/ Yield(j)
                        \/ Wait(j) \/ Wake(j) \/ Finish(j)

Spec == Init /\ [][Next]_status
=============================================================================
