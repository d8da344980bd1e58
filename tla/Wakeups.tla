------------------------------ MODULE Wakeups ------------------------------
(***************************************************************************)
(* How the threads of an IOManager sleep and wake: addTask and trickle,    *)
(* the eventfd, epoll_wait with the waitTime of each idle fiber, tick, and *)
(* the shutdown with mTimerCnt.                                            *)
(*                                                                         *)
(* A task is a job, which runs as a fiber, or the callback of its timer.   *)
(* Between two entries into the queue a job waits for an event, with or    *)
(* without a time-out, or sleeps; it may add other jobs.  Scheduler is     *)
(* about the steps of a switch, HookedIO about those of a wait, and        *)
(* TimerWheel about the slot of a timer: here a timer is due at the next   *)
(* tick that is in time.                                                   *)
(***************************************************************************)
EXTENDS Integers, Sequences, FiniteSets, SequencesExt

CONSTANTS
  Threads,     \* the threads of the pool
  Main,        \* the thread of the program on top
  Jobs,
  FromMain,    \* the jobs that Main adds; the others are added by jobs
  Pin,         \* [Jobs -> Threads \cup {-1}]: threadNum of the first addTask
  Does,        \* [Jobs -> SUBSET JobStep]: what each job may do
  mTickTime,
  MaxTimers    \* bound: mTimerCnt of jobs that go to sleep

JobStep == {"return", "again", "submit", "wait", "timed", "sleep"}

ASSUME WakeupsAssumption ==
  /\ IsFiniteSet(Threads) /\ Threads # {} /\ Main \notin Threads
  /\ -1 \notin Threads /\ FromMain \subseteq Jobs
  /\ Pin \in [Jobs -> Threads \cup {-1}] /\ Does \in [Jobs -> SUBSET JobStep]
  /\ mTickTime \in Nat \ {0} /\ MaxTimers \in Nat

Actors == Threads \cup {Main}

Task == [job : Jobs, kind : {"fiber", "callback"}, threadNum : Threads \cup {-1}]

NoTask == [job |-> "none"]

VARIABLES
  mTasks,
  edge,       \* the eventfd was written and no epoll_wait has returned it yet
  mStopping,
  mTimerCnt,
  armed,      \* jobs with a timer in the wheel
  must,       \* jobs whose io_func calls delTimer when it goes on
  status,     \* [Jobs -> {"new", "queued", "running", "waiting", "asleep", "done"}]
  pc,         \* [Actors -> Label]
  then,       \* [Actors -> Label]: where addTask returns to
  task,       \* [Threads -> Task or NoTask]
  isTrickle,  \* [Threads -> BOOLEAN]
  waitTime,   \* [Threads -> 0 .. mTickTime]
  slept,      \* [Threads -> 0 .. mTickTime]: in the present epoll_wait
  since       \* since mLastExpireTime, up to mTickTime

queue  == <<mTasks, edge>>
timers == <<mTimerCnt, armed, must>>
thread == <<task, isTrickle>>
clock  == <<waitTime, slept, since>>
vars   == <<queue, mStopping, timers, status, pc, then, thread, clock>>

\* Where stopping() is: what it reads next.
StopLabel == {"stop", "stopTasks", "stopActive", "stopTimers"}

Label == {"look", "count", "test", "run", "del", "yield", "wait", "events",
          "left", "notify", "main"} \cup StopLabel

Goto(a, l) == pc' = [pc EXCEPT ![a] = l]

Fiber(j)    == [job |-> j, kind |-> "fiber", threadNum |-> -1]
Callback(j) == [job |-> j, kind |-> "callback", threadNum |-> -1]
NewJob(j)   == [Fiber(j) EXCEPT !.threadNum = Pin[j]]

\* Nobody is between the erase and the unlock.
mLockFree == \A t \in Threads : pc[t] # "count"
-----------------------------------------------------------------------------
\* addTask and trickle.

\* addTask of s by actor a, which then goes to l: trickle follows the unlock,
\* if the queue was empty.
addTask(a, s, l) ==
  /\ mLockFree
  /\ mTasks' = mTasks \o s
  /\ IF mTasks = << >>
     THEN Goto(a, "notify") /\ then' = [then EXCEPT ![a] = l]
     ELSE Goto(a, l) /\ UNCHANGED then

trickle(a) ==
  /\ pc[a] = "notify"
  /\ edge' = TRUE /\ Goto(a, then[a]) /\ then' = [then EXCEPT ![a] = "look"]
  /\ UNCHANGED <<mTasks, mStopping, timers, status, thread, clock>>
-----------------------------------------------------------------------------
\* threadFunc.

\* A fiber that is still running is skipped, a task of another thread too.
Takeable(t, e) ==
  /\ e.threadNum \in {-1, t}
  /\ ~ (e.kind = "fiber" /\ status[e.job] = "running")

First(t) ==
  {i \in DOMAIN mTasks :
     Takeable(t, mTasks[i]) /\ \A k \in 1 .. i - 1 : ~ Takeable(t, mTasks[k])}

\* Has the loop met a task of another thread?
Foreign(t, n) == \E k \in 1 .. n : mTasks[k].threadNum \notin {-1, t}

\* The task leaves mTasks, ...
Take(t) ==
  /\ pc[t] = "look" /\ mLockFree /\ Goto(t, "count")
  /\ \E i \in First(t) :
       /\ mTasks' = RemoveAt(mTasks, i)
       /\ task' = [task EXCEPT ![t] = mTasks[i]]
       /\ isTrickle' = [isTrickle EXCEPT ![t] = Foreign(t, i)]
       /\ status' = IF mTasks[i].kind = "fiber"
                    THEN [status EXCEPT ![mTasks[i].job] = "running"] ELSE status
  /\ UNCHANGED <<edge, mStopping, timers, then, clock>>

\* ... and then ++mActiveCnt, and the unlock.
CountActive(t) ==
  /\ pc[t] = "count" /\ Goto(t, "test")
  /\ UNCHANGED <<queue, mStopping, timers, status, then, thread, clock>>

FindNothing(t) ==
  /\ pc[t] = "look" /\ mLockFree /\ First(t) = {} /\ Goto(t, "test")
  /\ isTrickle' = [isTrickle EXCEPT ![t] = Foreign(t, Len(mTasks))]
  /\ UNCHANGED <<queue, mStopping, timers, status, then, task, clock>>

\* Mutant: nobody is told of the tasks that are left.
Test_silent(t) ==
  /\ pc[t] = "test"
  /\ edge' = edge
  /\ Goto(t, IF task[t] = NoTask THEN "wait" ELSE "run")
  /\ isTrickle' = [isTrickle EXCEPT ![t] = FALSE]
  /\ UNCHANGED <<mTasks, mStopping, timers, status, then, task, clock>>

\* The second look at mTasks is without the lock.
Test(t) ==
  /\ pc[t] = "test"
  /\ edge' = (edge \/ isTrickle[t] \/ mTasks # << >>)
  /\ Goto(t, IF task[t] = NoTask THEN "wait" ELSE "run")
  /\ isTrickle' = [isTrickle EXCEPT ![t] = FALSE]
  /\ UNCHANGED <<mTasks, mStopping, timers, status, then, task, clock>>

\* The task is over, or has yielded.
Release(t) == task' = [task EXCEPT ![t] = NoTask] /\ UNCHANGED isTrickle

Active == {t \in Threads : task[t] # NoTask /\ pc[t] # "count"}   \* mActiveCnt

\* stopping() reads without the lock, one thing after the other.
Read(t, l, holds, next) ==
  /\ pc[t] = l /\ Goto(t, IF holds THEN next ELSE "look")
  /\ UNCHANGED <<queue, mStopping, timers, status, then, thread, clock>>

\* Mutants: a term of the test is missing.
stopping_noTimers(t) ==
  \/ Read(t, "stop", TRUE, "stopTasks")
  \/ Read(t, "stopTasks", mStopping /\ mTasks = << >>, "stopActive")
  \/ Read(t, "stopActive", Active = {}, "stopTimers")
  \/ Read(t, "stopTimers", TRUE, "left")

stopping_noTasks(t) ==
  \/ Read(t, "stop", mTimerCnt = 0, "stopTasks")
  \/ Read(t, "stopTasks", mStopping, "stopActive")
  \/ Read(t, "stopActive", Active = {}, "stopTimers")
  \/ Read(t, "stopTimers", mTimerCnt = 0, "left")

\* mStopping is read before mTasks.empty(), and never becomes FALSE again.
stopping(t) ==
  \/ Read(t, "stop", mTimerCnt = 0, "stopTasks")
  \/ Read(t, "stopTasks", mStopping /\ mTasks = << >>, "stopActive")
  \/ Read(t, "stopActive", Active = {}, "stopTimers")
  \/ Read(t, "stopTimers", mTimerCnt = 0, "left")
-----------------------------------------------------------------------------
\* What a task does.

\* The callback of a timer queues the fiber, that of a time-out by cancelEvent.
RunCallback(t) ==
  /\ pc[t] = "run" /\ task[t].kind = "callback"
  /\ LET j == task[t].job IN
     IF status[j] \in {"waiting", "asleep"}
     THEN /\ addTask(t, << Fiber(j) >>, "yield")
          /\ status' = [status EXCEPT ![j] = "queued"]
     ELSE Goto(t, "yield") /\ UNCHANGED <<mTasks, then, status>>
  /\ UNCHANGED <<edge, mStopping, timers, thread, clock>>

Runs(t, j) == pc[t] = "run" /\ task[t].kind = "fiber" /\ task[t].job = j

\* io_func after its wait: mTimerCnt first, ...
delTimer(t, j) ==
  /\ Runs(t, j) /\ j \in must /\ Goto(t, "del")
  /\ mTimerCnt' = mTimerCnt - 1 /\ must' = must \ {j}
  /\ UNCHANGED <<queue, mStopping, armed, status, then, thread, clock>>

\* ... and then the wheel.
DelFromWheel(t) ==
  /\ pc[t] = "del" /\ Goto(t, "run") /\ armed' = armed \ {task[t].job}
  /\ UNCHANGED <<queue, mStopping, mTimerCnt, must, status, then, thread, clock>>

Step(t, j, s) == Runs(t, j) /\ j \notin must /\ s \in Does[j]

Return(t, j) ==
  /\ Step(t, j, "return")
  /\ status' = [status EXCEPT ![j] = "done"] /\ Goto(t, "look") /\ Release(t)
  /\ UNCHANGED <<queue, mStopping, timers, then, clock>>

\* It queues its own fiber and then yields.
Again(t, j) ==
  /\ Step(t, j, "again")
  /\ addTask(t, << Fiber(j) >>, "yield")
  /\ UNCHANGED <<edge, mStopping, timers, status, thread, clock>>

\* It adds another job, which may be one for another thread.
AddsJob(t, j, k) ==
  /\ Step(t, j, "submit") /\ k \notin FromMain /\ status[k] = "new"
  /\ addTask(t, << NewJob(k) >>, "run")
  /\ status' = [status EXCEPT ![k] = "queued"]
  /\ UNCHANGED <<edge, mStopping, timers, thread, clock>>

\* The fiber that has queued itself yields, or a callback returns.
Yield(t) ==
  /\ pc[t] = "yield" /\ Goto(t, "look") /\ Release(t)
  /\ status' = IF task[t].kind = "fiber"
               THEN [status EXCEPT ![task[t].job] = "queued"] ELSE status
  /\ UNCHANGED <<queue, mStopping, timers, then, clock>>

Wait(t, j) ==
  /\ Step(t, j, "wait")
  /\ status' = [status EXCEPT ![j] = "waiting"] /\ Goto(t, "look") /\ Release(t)
  /\ UNCHANGED <<queue, mStopping, timers, then, clock>>

addTimer(j) == mTimerCnt' = mTimerCnt + 1 /\ armed' = armed \cup {j}

WaitTimed(t, j) ==
  /\ Step(t, j, "timed")
  /\ addTimer(j) /\ must' = must \cup {j}
  /\ status' = [status EXCEPT ![j] = "waiting"] /\ Goto(t, "look") /\ Release(t)
  /\ UNCHANGED <<queue, mStopping, then, clock>>

\* sleep keeps no Timer, and so nobody calls delTimer for it.
sleep(t, j) ==
  /\ Step(t, j, "sleep") /\ mTimerCnt < MaxTimers
  /\ addTimer(j) /\ UNCHANGED must
  /\ status' = [status EXCEPT ![j] = "asleep"] /\ Goto(t, "look") /\ Release(t)
  /\ UNCHANGED <<queue, mStopping, then, clock>>

Run(t) ==
  \/ RunCallback(t) \/ Yield(t) \/ DelFromWheel(t)
  \/ \E j \in Jobs :
       delTimer(t, j) \/ Return(t, j) \/ Again(t, j) \/ Wait(t, j)
       \/ WaitTimed(t, j) \/ sleep(t, j) \/ \E k \in Jobs : AddsJob(t, j, k)
-----------------------------------------------------------------------------
\* idle.

\* epoll_wait returns the eventfd, which is read until it is empty, ...
EventFd(t) ==
  /\ pc[t] = "wait" /\ edge
  /\ edge' = FALSE /\ Goto(t, "events")
  /\ UNCHANGED <<mTasks, mStopping, timers, status, then, thread, clock>>

\* ... or an event a job waits for, along with it if it is due, ...
Event(t, j) ==
  /\ pc[t] = "wait" /\ status[j] = "waiting"
  /\ edge' = FALSE
  /\ addTask(t, << Fiber(j) >>, "events")
  /\ status' = [status EXCEPT ![j] = "queued"]
  /\ UNCHANGED <<mStopping, timers, thread, clock>>

\* Mutant: every call waits for a whole tick again.
AfterEvents_anew(t) ==
  /\ pc[t] = "events" /\ Goto(t, "stop")
  /\ waitTime' = [waitTime EXCEPT ![t] = mTickTime]
  /\ slept' = [slept EXCEPT ![t] = 0]
  /\ UNCHANGED <<queue, mStopping, timers, status, then, thread, since>>

\* ... and what is left of waitTime is for the next call.
AfterEvents(t) ==
  /\ pc[t] = "events" /\ slept[t] < waitTime[t] /\ Goto(t, "stop")
  /\ waitTime' = [waitTime EXCEPT ![t] = @ - slept[t]]
  /\ slept' = [slept EXCEPT ![t] = 0]
  /\ UNCHANGED <<queue, mStopping, timers, status, then, thread, since>>

\* Mutant: without timers epoll_wait needs no time-out.
Elapsed_ifTimers(t) ==
  /\ pc[t] \in {"events", "wait"} /\ slept[t] = waitTime[t] /\ armed # {}

\* Nothing is left of it: after events, or because epoll_wait returned none.
Elapsed(t) == pc[t] \in {"events", "wait"} /\ slept[t] = waitTime[t]

\* The callbacks are queued together.  isNull of that addTask is not
\* initialised, so that it may be TRUE in any case.
addTasks(t, due) ==
  /\ mLockFree
  /\ \E s \in SetToSeqs(due) :
       mTasks' = mTasks \o [i \in DOMAIN s |-> Callback(s[i])]
  /\ \/ Goto(t, "notify") /\ then' = [then EXCEPT ![t] = "stop"]
     \/ ~ (mTasks = << >> /\ due # {}) /\ Goto(t, "stop") /\ UNCHANGED then

Due == IF since >= mTickTime THEN armed ELSE {}

\* Mutant: a timer that goes off is not counted any more.
tick_counts(t) ==
  /\ Elapsed(t) /\ addTasks(t, Due)
  /\ armed' = armed \ Due /\ mTimerCnt' = mTimerCnt - Cardinality(Due)
  /\ since' = IF since >= mTickTime THEN 0 ELSE since
  /\ waitTime' = [waitTime EXCEPT ![t] = mTickTime] /\ slept' = [slept EXCEPT ![t] = 0]
  /\ UNCHANGED <<edge, mStopping, must, status, thread>>

\* A timer that goes off stays in mTimerCnt.
tick(t) ==
  /\ Elapsed(t) /\ addTasks(t, Due)
  /\ armed' = armed \ Due
  /\ since' = IF since >= mTickTime THEN 0 ELSE since
  /\ waitTime' = [waitTime EXCEPT ![t] = mTickTime] /\ slept' = [slept EXCEPT ![t] = 0]
  /\ UNCHANGED <<edge, mStopping, mTimerCnt, must, status, thread>>

\* What a thread does by itself, the time-out of epoll_wait included.
Works(t) ==
  \/ Take(t) \/ CountActive(t) \/ FindNothing(t) \/ Test(t) \/ Run(t)
  \/ AfterEvents(t) \/ tick(t) \/ stopping(t) \/ trickle(t)

Thread(t) == Works(t) \/ EventFd(t) \/ \E j \in Jobs : Event(t, j)

\* Time goes on while threads wait or run tasks; the code in between takes
\* none.  No call of epoll_wait is longer than its time-out.
Pass ==
  /\ \A t \in Threads : pc[t] \in {"wait", "run", "left"}
  /\ \A t \in Threads : pc[t] = "wait" => slept[t] < waitTime[t]
  /\ slept' = [t \in Threads |-> IF pc[t] = "wait" THEN slept[t] + 1 ELSE slept[t]]
  /\ since' = IF since < mTickTime THEN since + 1 ELSE since
  /\ UNCHANGED <<queue, mStopping, timers, status, pc, then, thread, waitTime>>
-----------------------------------------------------------------------------
\* The program on top.

Submit(j) ==
  /\ pc[Main] = "main" /\ ~ mStopping /\ j \in FromMain /\ status[j] = "new"
  /\ addTask(Main, << NewJob(j) >>, "main")
  /\ status' = [status EXCEPT ![j] = "queued"]
  /\ UNCHANGED <<edge, mStopping, timers, thread, clock>>

stop ==
  /\ pc[Main] = "main" /\ ~ mStopping /\ mStopping' = TRUE
  /\ UNCHANGED <<queue, timers, status, pc, then, thread, clock>>

Init ==
  /\ mTasks = << >> /\ edge = FALSE /\ mStopping = FALSE
  /\ mTimerCnt = 0 /\ armed = {} /\ must = {}
  /\ status = [j \in Jobs |-> "new"]
  /\ pc = [a \in Actors |-> IF a = Main THEN "main" ELSE "look"]
  /\ then = [a \in Actors |-> "look"]
  /\ task = [t \in Threads |-> NoTask] /\ isTrickle = [t \in Threads |-> FALSE]
  /\ waitTime = [t \in Threads |-> mTickTime]
  /\ slept = [t \in Threads |-> 0] /\ since = 0

Next ==
  \/ \E t \in Threads : Thread(t)
  \/ Pass
  \/ trickle(Main) \/ stop \/ \E j \in Jobs : Submit(j)

Spec == Init /\ [][Next]_vars

\* Code between two blocking points goes on, also if others take mLock now and
\* then, epoll_wait ends, and what is done in no time is not done for ever.
\* Events need not come, Main need not act.
FairSpec ==
  /\ Spec
  /\ \A t \in Threads : SF_vars(Works(t))
  /\ WF_vars(trickle(Main)) /\ SF_vars(Pass)
-----------------------------------------------------------------------------
\* Properties.

Deleting == {j \in Jobs : \E t \in Threads : pc[t] = "del" /\ task[t].job = j}

\* Each variable holds a value of its kind.  mTimerCnt counts at least the
\* timers in the wheel, except one that is being deleted, and the waits that
\* will delete theirs.
TypeOK ==
  /\ mTasks \in Seq(Task) /\ edge \in BOOLEAN /\ mStopping \in BOOLEAN
  /\ armed \subseteq Jobs /\ must \subseteq Jobs
  /\ mTimerCnt \in Nat /\ mTimerCnt >= Cardinality((armed \ Deleting) \cup must)
  /\ status \in [Jobs -> {"new", "queued", "running", "waiting", "asleep", "done"}]
  /\ pc \in [Actors -> Label]
  /\ then \in [Actors -> {"look", "run", "yield", "events", "stop", "main"}]
  /\ task \in [Threads -> Task \cup {NoTask}]
  /\ isTrickle \in [Threads -> BOOLEAN]
  /\ waitTime \in [Threads -> 0 .. mTickTime]
  /\ slept \in [Threads -> 0 .. mTickTime] /\ since \in 0 .. mTickTime

\* Will the actor write the eventfd or look at the queue without waiting first?
Attentive(a) ==
  pc[a] \in {"notify", "look", "count", "test", "yield", "events", "stop", "stopTasks"}

\* No thread sleeps through a task it might take, however the others are
\* occupied: a notification is under way, though addTask only sends one when
\* the queue was empty.
WorkConserving ==
  \A t \in Threads :
    pc[t] = "wait" /\ First(t) # {} => edge \/ \E a \in Actors : Attentive(a)

AllLeft == \A t \in Threads : pc[t] = "left"

\* Though stopping() reads one thing after the other, and though a task is for a
\* moment neither in mTasks nor in mActiveCnt, so that a thread may leave while
\* others work: when all have left, all jobs are done, or wait for an event
\* without a time-out.
LeavesNothing ==
  AllLeft => /\ armed = {} /\ must = {}
             /\ \A j \in Jobs : status[j] \in {"new", "waiting", "done"}

\* A thread may leave before a task is added that only it may take.
Orphan(j) ==
  \E i \in DOMAIN mTasks :
    LET e == mTasks[i] IN
    e.job = j /\ e.threadNum # -1 /\ pc[e.threadNum] = "left"

\* A task in the queue is taken, a pinned one by its thread, unless that has left.
EveryTaskTaken ==
  \A j \in Jobs : status[j] = "queued" ~> status[j] # "queued" \/ Orphan(j)

\* A timer goes off or is deleted, events or no events, as long as some thread
\* has to wait at all.
TimersFire ==
  []<>(\E t \in Threads : slept[t] > 0) =>
    \A j \in Jobs : j \in armed ~> j \notin armed

Quiet == mTasks = << >> /\ Active = {}

\* Nobody wakes the threads for the shutdown; they notice it all the same.
ShutdownNoticed == <>[](mStopping /\ Quiet /\ mTimerCnt = 0) => <>AllLeft
=============================================================================
