------------------------------ MODULE Scheduler ------------------------------
(***************************************************************************)
(* The coroutine scheduler: a task queue behind a mutex, a pool of threads *)
(* that all run Scheduler::threadFunc, the fibers the tasks run on, and    *)
(* the shutdown protocol of Scheduler::stopping and IOManager's            *)
(* destructor, in which the main thread may itself join the pool.          *)
(*                                                                         *)
(* A job is a function given to addTask.  A queued task whose job has no   *)
(* Fiber object yet is a "func" task, any other one is a "fiber" task.     *)
(* The steps of one thread are as fine as the unlocked reads of the code:  *)
(* m_state := HOLD and the swapcontext that saves the stack are two steps, *)
(* and so are the removal of a task and the ++mActiveCnt that follows.     *)
(***************************************************************************)
EXTENDS Integers, SequencesExt, FiniteSetsExt

CONSTANTS
  ThreadCnt,   \* the constructor's threadCnt
  Main,        \* the thread that builds, fills and destroys the scheduler
  Jobs,        \* the functions handed to addTask
  NoJob,       \* "no task": a thread on its own main or idle fiber
  Pins,        \* the threadNum arguments callers use, -1 meaning any thread
  UseMain,     \* mUseMainThrd: the destructor runs threadFunc on Main
  MaxYields    \* bound: how often one job gives up the CPU

\* Scheduler::Scheduler raises a thread count below 1 to 1.
mThreadCnt == IF ThreadCnt < 1 THEN 1 ELSE ThreadCnt

Pool    == 0 .. mThreadCnt - 1
Threads == Pool \cup {Main}

ASSUME SchedulerAssumption ==
  /\ ThreadCnt \in Int
  /\ Main \notin Int
  /\ NoJob \notin Jobs
  /\ Pins \subseteq Int
  /\ UseMain \in BOOLEAN
  /\ MaxYields \in Nat

VARIABLES
  mTasks,      \* the queue: records [job, threadNum]
  mActiveCnt,
  mStopping,
  isTrickle,   \* [Threads -> BOOLEAN]: the thread owes a call of trickle()
  pc,          \* [Threads -> Location]
  task,        \* [Threads -> Jobs \cup {NoJob}]: the task a thread took
  m_state,     \* [Jobs -> FiberState]
  stack,       \* [Threads -> Jobs \cup {NoJob}]: whose stack a thread is on
  parked,      \* fibers an Event's ctx.fiber or a sleep timer holds
  yields       \* [Jobs -> 0..MaxYields], how often a job gave up the CPU

vars == <<mTasks, mActiveCnt, mStopping, isTrickle, pc, task, m_state, stack,
          parked, yields>>

\* "body", "join" and "end" are Main's: inside main(), joining the pool in
\* ~IOManager, and after it.  The others are places in threadFunc, in the
\* job a thread runs, or in Fiber::yield ("hold").
Location == {"loop", "taken", "peek", "run", "job", "resched", "hold", "back",
             "idle", "stop", "stop2", "exit", "body", "join", "end"}

\* "new": not submitted; "func": submitted, no Fiber object yet.
FiberState == {"new", "func", "HOLD", "EXEC", "TERM"}

\* mLock is held over several steps only between the removal of a task and
\* ++mActiveCnt; every other critical section is one step.
mLockFree == \A t \in Threads : pc[t] # "taken"

\* Two threads run on one stack: undefined behaviour, a core dump as a rule.
\* Nothing is claimed of the process afterwards, so it takes no further step.
Crashed == \E t, u \in Threads :
             t # u /\ stack[t] = stack[u] /\ stack[t] # NoJob

Init ==
  /\ mTasks = <<>>
  /\ mActiveCnt = 0
  /\ mStopping = FALSE
  /\ isTrickle = [t \in Threads |-> FALSE]
  /\ pc = [t \in Threads |-> IF t = Main THEN "body" ELSE "loop"]
  /\ task = [t \in Threads |-> NoJob]
  /\ m_state = [j \in Jobs |-> "new"]
  /\ stack = [t \in Threads |-> NoJob]
  /\ parked = {}
  /\ yields = [j \in Jobs |-> 0]

Goto(t, l) == pc' = [pc EXCEPT ![t] = l]

-----------------------------------------------------------------------------
(* addTask, called by thread t: push under mLock; a caller that found the  *)
(* queue empty owes a trickle.                                             *)

\* addTaskNoLock sends a threadNum above the number of threads to any thread.
Pin(n) == IF n > mThreadCnt THEN -1 ELSE n

addTask(t, j, n) ==
  /\ mLockFree
  /\ mTasks' = Append(mTasks, [job |-> j, threadNum |-> Pin(n)])
  /\ isTrickle' = [isTrickle EXCEPT ![t] = mTasks = <<>>]

\* A new function is submitted by main() before it calls stop(), or by a job.
Submit(t, j, n) ==
  /\ ~isTrickle[t]
  /\ pc[t] = "job" \/ (pc[t] = "body" /\ ~mStopping)
  /\ m_state[j] = "new"
  /\ addTask(t, j, n)
  /\ m_state' = [m_state EXCEPT ![j] = "func"]
  /\ UNCHANGED <<mActiveCnt, mStopping, pc, task, stack, parked, yields>>

\* trickle() of the base class only logs; IOManager's writes the eventfd.
Trickle(t) ==
  /\ isTrickle[t]
  /\ pc[t] \notin {"taken", "peek"}
  /\ isTrickle' = [isTrickle EXCEPT ![t] = FALSE]
  /\ UNCHANGED <<mTasks, mActiveCnt, mStopping, pc, task, m_state, stack,
                 parked, yields>>

-----------------------------------------------------------------------------
(* One round of threadFunc's loop.                                         *)

\* A task for this thread, read as mThreadIds[threadNum] = this_thread.
Mine(t, x) == x.threadNum = -1 \/ x.threadNum = t

\* Mutant: no test for a fiber that is being executed.
Eligible_Running(t) == {i \in DOMAIN mTasks : Mine(t, mTasks[i])}

\* The tasks thread t may take: a fiber that is being executed is passed over.
Eligible(t) ==
  {i \in DOMAIN mTasks : /\ Mine(t, mTasks[i])
                         /\ m_state[mTasks[i].job] # "EXEC"}

\* Mutant: the task is not erased from the queue.
Take_NoErase(t) ==
  /\ pc[t] = "loop" /\ ~isTrickle[t] /\ mLockFree
  /\ \E i \in Eligible(t) : task' = [task EXCEPT ![t] = mTasks[i].job]
  /\ Goto(t, "taken")
  /\ UNCHANGED <<mTasks, isTrickle, mActiveCnt, mStopping, m_state, stack,
                 parked, yields>>

\* Under mLock: the first eligible task leaves the queue.  mLock stays held
\* until CountActive.
Take(t) ==
  /\ pc[t] = "loop" /\ ~isTrickle[t] /\ mLockFree
  /\ \E i \in Eligible(t) :
       /\ \A k \in 1 .. i - 1 : k \notin Eligible(t)
       /\ task' = [task EXCEPT ![t] = mTasks[i].job]
       /\ mTasks' = RemoveAt(mTasks, i)
       /\ isTrickle' = [isTrickle EXCEPT
            ![t] = \E k \in 1 .. i - 1 : ~Mine(t, mTasks[k])]
  /\ Goto(t, "taken")
  /\ UNCHANGED <<mActiveCnt, mStopping, m_state, stack, parked, yields>>

CountActive(t) ==
  /\ pc[t] = "taken"
  /\ mActiveCnt' = mActiveCnt + 1
  /\ Goto(t, "peek")
  /\ UNCHANGED <<mTasks, mStopping, isTrickle, task, m_state, stack, parked,
                 yields>>

FindNothing(t) ==
  /\ pc[t] = "loop" /\ ~isTrickle[t] /\ mLockFree
  /\ Eligible(t) = {}
  /\ isTrickle' = [isTrickle EXCEPT
       ![t] = \E k \in DOMAIN mTasks : ~Mine(t, mTasks[k])]
  /\ Goto(t, "peek")
  /\ UNCHANGED <<mTasks, mActiveCnt, mStopping, task, m_state, stack, parked,
                 yields>>

\* The unlocked mTasks.empty() after the scan.
Peek(t) ==
  /\ pc[t] = "peek"
  /\ isTrickle' = [isTrickle EXCEPT ![t] = @ \/ mTasks # <<>>]
  /\ Goto(t, IF task[t] = NoJob THEN "idle" ELSE "run")
  /\ UNCHANGED <<mTasks, mActiveCnt, mStopping, task, m_state, stack, parked,
                 yields>>

\* Fiber::resume on the task's fiber, built first if the task is a function.
\* The thread continues on the context last saved in m_ctx; if another thread
\* is still on that stack the save has not happened and the state is Crashed.
Resume(t) ==
  /\ pc[t] = "run" /\ ~isTrickle[t]
  /\ m_state' = [m_state EXCEPT ![task[t]] = "EXEC"]
  /\ stack' = [stack EXCEPT ![t] = task[t]]
  /\ Goto(t, "job")
  /\ UNCHANGED <<mTasks, mActiveCnt, mStopping, isTrickle, task, parked,
                 yields>>

\* Mutant: --mActiveCnt left out, or done a second time after the branch.
Release_KeepsCount(t) ==
  /\ pc[t] = "back"
  /\ task' = [task EXCEPT ![t] = NoJob]
  /\ Goto(t, "loop")
  /\ UNCHANGED <<mActiveCnt, mTasks, mStopping, isTrickle, m_state, stack,
                 parked, yields>>
Release_Twice(t) ==
  /\ pc[t] = "back"
  /\ mActiveCnt' = mActiveCnt - 2
  /\ task' = [task EXCEPT ![t] = NoJob]
  /\ Goto(t, "loop")
  /\ UNCHANGED <<mTasks, mStopping, isTrickle, m_state, stack, parked, yields>>

\* Back in threadFunc after resume() returned.
Release(t) ==
  /\ pc[t] = "back"
  /\ mActiveCnt' = mActiveCnt - 1
  /\ task' = [task EXCEPT ![t] = NoJob]
  /\ Goto(t, "loop")
  /\ UNCHANGED <<mTasks, mStopping, isTrickle, m_state, stack, parked, yields>>

-----------------------------------------------------------------------------
(* What a job does on its fiber besides addTask.                           *)

\* addTask(getCurFiber()): the fiber queues itself and must then yield.
Requeue(t) ==
  /\ pc[t] = "job" /\ ~isTrickle[t]
  /\ yields[task[t]] < MaxYields
  /\ addTask(t, task[t], -1)
  /\ yields' = [yields EXCEPT ![task[t]] = @ + 1]
  /\ Goto(t, "resched")
  /\ UNCHANGED <<mActiveCnt, mStopping, task, m_state, stack, parked>>

\* The fiber is handed to an Event or a timer that will queue it later.
Park(t) ==
  /\ pc[t] = "job" /\ ~isTrickle[t]
  /\ yields[task[t]] < MaxYields
  /\ parked' = parked \cup {task[t]}
  /\ yields' = [yields EXCEPT ![task[t]] = @ + 1]
  /\ Goto(t, "resched")
  /\ UNCHANGED <<mTasks, mActiveCnt, mStopping, isTrickle, task, m_state,
                 stack>>

\* Fiber::yield up to, not including, swapcontext.
YieldHold(t) ==
  /\ pc[t] = "resched" /\ ~isTrickle[t]
  /\ m_state' = [m_state EXCEPT ![task[t]] = "HOLD"]
  /\ Goto(t, "hold")
  /\ UNCHANGED <<mTasks, mActiveCnt, mStopping, isTrickle, task, stack,
                 parked, yields>>

\* MainFunc after the job's function returned: TERM, then yield().
Finish(t) ==
  /\ pc[t] = "job" /\ ~isTrickle[t]
  /\ m_state' = [m_state EXCEPT ![task[t]] = "TERM"]
  /\ Goto(t, "hold")
  /\ UNCHANGED <<mTasks, mActiveCnt, mStopping, isTrickle, task, stack,
                 parked, yields>>

\* swapcontext saves the fiber's context and leaves its stack.
SwitchOut(t) ==
  /\ pc[t] = "hold"
  /\ stack' = [stack EXCEPT ![t] = NoJob]
  /\ Goto(t, "back")
  /\ UNCHANGED <<mTasks, mActiveCnt, mStopping, isTrickle, task, m_state,
                 parked, yields>>

-----------------------------------------------------------------------------
(* The idle fiber and the shutdown test.                                   *)

\* Mutant: the event keeps the fiber after it was queued.
Wake_KeepsFiber(t, j) ==
  /\ pc[t] = "idle" /\ ~isTrickle[t]
  /\ j \in parked
  /\ addTask(t, j, -1)
  /\ UNCHANGED <<mActiveCnt, mStopping, pc, task, m_state, stack, parked, yields>>

\* The idle fiber of a subclass finds an event or a due timer of a parked
\* fiber and queues the fiber (IOManager::Event::triggerEvent).
Wake(t, j) ==
  /\ pc[t] = "idle" /\ ~isTrickle[t]
  /\ j \in parked
  /\ addTask(t, j, -1)
  /\ parked' = parked \ {j}
  /\ UNCHANGED <<mActiveCnt, mStopping, pc, task, m_state, stack, yields>>

\* The idle fiber yields back to threadFunc.
Idle(t) ==
  /\ pc[t] = "idle" /\ ~isTrickle[t]
  /\ Goto(t, "stop")
  /\ UNCHANGED <<mTasks, mActiveCnt, mStopping, isTrickle, task, m_state,
                 stack, parked, yields>>

\* Mutant: stopping() without mTasks.empty().
StopTest_IgnoresQueue(t) ==
  /\ pc[t] = "stop"
  /\ Goto(t, IF mStopping THEN "stop2" ELSE "loop")
  /\ UNCHANGED <<mTasks, mActiveCnt, mStopping, isTrickle, task, m_state,
                 stack, parked, yields>>

\* stopping() reads mStopping and mTasks.empty(), then mActiveCnt, without
\* the mutex (mTimerCnt is 0 here: no timers in this module).
StopTest(t) ==
  /\ pc[t] = "stop"
  /\ Goto(t, IF mStopping /\ mTasks = <<>> THEN "stop2" ELSE "loop")
  /\ UNCHANGED <<mTasks, mActiveCnt, mStopping, isTrickle, task, m_state,
                 stack, parked, yields>>

StopTestActive(t) ==
  /\ pc[t] = "stop2"
  /\ Goto(t, IF mActiveCnt # 0 THEN "loop"
             ELSE IF t = Main THEN "join" ELSE "exit")
  /\ UNCHANGED <<mTasks, mActiveCnt, mStopping, isTrickle, task, m_state,
                 stack, parked, yields>>

-----------------------------------------------------------------------------
(* main(): stop() and the destructor of the IOManager.                     *)

stop ==
  /\ pc[Main] = "body" /\ ~isTrickle[Main]
  /\ mStopping' = TRUE
  /\ UNCHANGED <<mTasks, mActiveCnt, isTrickle, pc, task, m_state, stack,
                 parked, yields>>

\* if(mUseMainThrd && !stopping()) threadFunc();
Destroy ==
  /\ pc[Main] = "body" /\ ~isTrickle[Main]
  /\ Goto(Main, IF UseMain THEN "stop" ELSE "join")
  /\ UNCHANGED <<mTasks, mActiveCnt, mStopping, isTrickle, task, m_state,
                 stack, parked, yields>>

join ==
  /\ pc[Main] = "join"
  /\ \A w \in Pool : pc[w] = "exit"
  /\ Goto(Main, "end")
  /\ UNCHANGED <<mTasks, mActiveCnt, mStopping, isTrickle, task, m_state,
                 stack, parked, yields>>

-----------------------------------------------------------------------------
\* Everything a thread does in threadFunc, and the joining of the pool.
ThreadStep(t) ==
  \/ \E j \in Jobs, n \in Pins : pc[t] = "job" /\ Submit(t, j, n)
  \/ Trickle(t)
  \/ Take(t) \/ CountActive(t) \/ FindNothing(t) \/ Peek(t)
  \/ Resume(t) \/ Release(t)
  \/ Requeue(t) \/ Park(t) \/ YieldHold(t) \/ Finish(t) \/ SwitchOut(t)
  \/ \E j \in Jobs : Wake(t, j)
  \/ Idle(t) \/ StopTest(t) \/ StopTestActive(t)

\* What the program decides to do in main().
MainStep ==
  \/ \E j \in Jobs, n \in Pins : pc[Main] = "body" /\ Submit(Main, j, n)
  \/ stop \/ Destroy \/ join

\* The process has ended or has dumped core.
Halted == Crashed \/ pc[Main] = "end"

Next ==
  \/ ~Crashed /\ ((\E t \in Threads : ThreadStep(t)) \/ MainStep)
  \/ Halted /\ UNCHANGED vars

Spec == Init /\ [][Next]_vars

\* The operating system runs every thread that can run; main() need not end.
FairSpec ==
  /\ Spec
  /\ \A t \in Threads : WF_vars(~Crashed /\ ThreadStep(t))
  /\ WF_vars(~Crashed /\ join)

-----------------------------------------------------------------------------
(* What must hold of every run.                                            *)

TaskRecord == [job : Jobs, threadNum : Int]

\* The types of the queue, of the threads' registers and of the fibers; the
\* count of active threads is never decremented below zero.
TypeOK ==
  /\ mTasks \in Seq(TaskRecord)
  /\ mActiveCnt \in Nat
  /\ mStopping \in BOOLEAN
  /\ isTrickle \in [Threads -> BOOLEAN]
  /\ pc \in [Threads -> Location]
  /\ task \in [Threads -> Jobs \cup {NoJob}]
  /\ m_state \in [Jobs -> FiberState]
  /\ stack \in [Threads -> Jobs \cup {NoJob}]
  /\ parked \subseteq Jobs
  /\ yields \in [Jobs -> 0 .. MaxYields]

\* The three ways in which something is responsible for running job j next.
Queued(j)   == \E i \in DOMAIN mTasks : mTasks[i].job = j
Holds(t, j) == task[t] = j /\ pc[t] \in {"taken", "peek", "run", "job"}
Held(j)     == \E t \in Threads : Holds(t, j)

\* A submitted job that has not returned is in the queue, waits for an event
\* or is in the hands of a thread: no interleaving of addTask, the scan of
\* the queue, yield and shutdown drops it.
NoLostJob ==
  \A j \in Jobs : m_state[j] \notin {"new", "TERM"}
                    => Queued(j) \/ j \in parked \/ Held(j)

\* And only one of these is responsible for it: a job is never queued twice,
\* never queued while it runs or waits, and never run by two threads.
NoDoubleClaim ==
  \A j \in Jobs :
    /\ m_state[j] \in {"new", "TERM"} =>
         ~Queued(j) /\ j \notin parked /\ ~Held(j)
    /\ Queued(j) => j \notin parked /\ ~Held(j)
    /\ j \in parked => ~Held(j)
    /\ \A i, k \in DOMAIN mTasks :
         mTasks[i].job = j /\ mTasks[k].job = j => i = k
    /\ \A t, u \in Threads : Holds(t, j) /\ Holds(u, j) => t = u

\* A job that has begun and not returned is in exactly one place.
InOnePlace == NoLostJob /\ NoDoubleClaim

\* mActiveCnt, which stopping() reads without the mutex, counts the threads
\* between the taking of a task and the return of resume().
ActiveIsInFlight ==
  mActiveCnt = Cardinality(
    {t \in Threads : task[t] # NoJob /\ pc[t] # "taken"})

\* The EXEC test of threadFunc keeps a second thread off a fiber that is
\* still running, except in the window between m_state := HOLD and
\* swapcontext in Fiber::yield.
CrashOnlyInYield ==
  \A t, u \in Threads :
    t # u /\ stack[t] = stack[u] /\ stack[t] # NoJob
      => "hold" \in {pc[t], pc[u]}

\* When the destructor returns no submitted job is left in the queue or on
\* a thread; what is left are fibers that wait for an event, which
\* stopping() does not count.
DrainedAtEnd ==
  pc[Main] = "end" =>
    /\ mTasks = <<>>
    /\ \A j \in Jobs : m_state[j] \in {"new", "TERM"} \/ j \in parked

-----------------------------------------------------------------------------
(* The scheduler implements the abstract pool of jobs.                     *)

Status(j) ==
  CASE m_state[j] = "new"  -> "new"
    [] m_state[j] = "TERM" -> "done"
    [] OTHER -> IF Queued(j) THEN "ready"
                ELSE IF j \in parked THEN "waiting" ELSE "running"

Pooled == INSTANCE JobPool WITH status <- [j \in Jobs |-> Status(j)]

\* Each step of the threads and of main() is a step of one job's life or no
\* step of it: a finished job is never resumed, a job is started only out of
\* the queue, and a waiting one only becomes ready.
ImplementsJobPool == Pooled!Spec

-----------------------------------------------------------------------------
(* What must happen in the end, unless the race of Fiber::yield crashes.   *)

\* A task for a thread that has left threadFunc: no other thread takes it.
Orphan(x) == x.threadNum \in Pool /\ pc[x.threadNum] = "exit"

\* A submitted job returns or waits for an event: the skipping of pinned and
\* running tasks does not starve it, nor does the exit of threads, but for
\* that of the thread it is pinned to.
EveryJobSettles ==
  \A j \in Jobs :
    m_state[j] \in {"func", "HOLD", "EXEC"} ~>
      \/ m_state[j] = "TERM" \/ j \in parked \/ Crashed
      \/ \E i \in DOMAIN mTasks : mTasks[i].job = j /\ Orphan(mTasks[i])

\* Once stop() was called the destructor returns: every thread sees the end
\* of the work, and none is left spinning, unless for such a task.
ShutdownCompletes ==
  mStopping /\ pc[Main] # "body" ~>
    \/ pc[Main] = "end" \/ Crashed
    \/ \E i \in DOMAIN mTasks : Orphan(mTasks[i])

-----------------------------------------------------------------------------
(* What the documents and comments say, and the code does not do.          *)

\* README.md reports the core dump in the switching of fibers as fixed: two
\* threads are never on one fiber's stack.
StackExclusive == ~Crashed

=============================================================================
