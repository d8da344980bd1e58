------------------------------ MODULE HookedIO ------------------------------
(***************************************************************************)
(* The calls the hooks turn into waits: io_func, the Event object of one   *)
(* file descriptor that its waiters share, epoll, and the idle fiber.      *)
(*                                                                         *)
(* A thread of the pool is in the idle fiber, in a fiber that uses the     *)
(* descriptor, or in a callback of the timer that io_func set.  Between    *)
(* two steps of one thread the others and the kernel may do anything.      *)
(* Objects of different descriptors share nothing, so there is one; its    *)
(* number is reused when the connection is closed.                         *)
(***************************************************************************)
EXTENDS Naturals, FiniteSets

CONSTANTS
  Threads,
  Fibers,
  None,
  Timed,     \* the directions for which FdCtx has a time-out
  Uses,      \* [Fibers -> SUBSET Ev]: the directions a fiber's calls have
  Sharing    \* may several fibers use one connection?

Ev == {"EPOLLIN", "EPOLLOUT"}

ASSUME HookedAssumption ==
  /\ None \notin Threads \cup Fibers
  /\ Timed \subseteq Ev
  /\ Uses \in [Fibers -> SUBSET Ev]
  /\ Sharing \in BOOLEAN

VARIABLES
  \* the kernel
  open,      \* is the descriptor a connection?
  ready,     \* SUBSET Ev: what a system call would not block on
  interest,  \* SUBSET Ev: the mask in the epoll set, {} if not in it
  edge,      \* is the descriptor in epoll's ready list?
  \* the Event object
  event,     \* SUBSET Ev: task->event
  waiter,    \* [Ev -> Fibers or None]: read.fiber and write.fiber
  lock,      \* the thread that holds task->lock, or None
  \* the threads
  at,        \* [Threads -> Place]
  job,       \* [Threads -> Fibers or None]: the fiber a thread is in
  got,       \* [Threads -> SUBSET Ev]: the events it is handling
  \* the fibers
  users,     \* the fibers that use the connection
  shared,    \* has a connection had two of them?
  pc,        \* [Fibers -> Label]
  dir,       \* [Fibers -> Ev]: the event of the present call
  mask,      \* [Fibers -> SUBSET Ev]: ev.events in addEvent
  fresh,     \* [Fibers -> BOOLEAN]: op is EPOLL_CTL_ADD
  tasks,     \* [Fibers -> Nat]: entries of the fiber in mTasks
  timer,     \* [Fibers -> the state of the timer of the present wait]
  stale,     \* [Fibers -> Ev or None]: a callback whose wait is over
  cancel     \* [Fibers -> BOOLEAN]: the local variable of io_func

kernel == <<open, ready, interest, edge>>
object == <<event, waiter, lock>>
pool   == <<at, job, got>>
frame  == <<dir, mask, fresh>>
timing == <<timer, stale, cancel>>
vars   == <<kernel, object, pool, users, shared, pc, frame, tasks, timing>>

Place == {"free", "handle", "trigger", "cancel", "run"}
Label == {"new", "app", "try", "timer", "test", "ctl", "set", "yield", "held",
          "woken", "del", "close", "done"}

Init ==
  /\ open = FALSE /\ ready = {} /\ interest = {} /\ edge = FALSE
  /\ event = {} /\ waiter = [e \in Ev |-> None] /\ lock = None
  /\ at = [t \in Threads |-> "free"]
  /\ job = [t \in Threads |-> None]
  /\ got = [t \in Threads |-> {}]
  /\ users = {} /\ shared = FALSE
  /\ pc = [f \in Fibers |-> "new"]
  /\ dir = [f \in Fibers |-> "EPOLLIN"]
  /\ mask = [f \in Fibers |-> {}]
  /\ fresh = [f \in Fibers |-> FALSE]
  /\ tasks = [f \in Fibers |-> 0]
  /\ timer = [f \in Fibers |-> "none"]
  /\ stale = [f \in Fibers |-> None]
  /\ cancel = [f \in Fibers |-> FALSE]

-----------------------------------------------------------------------------
(* The kernel.                                                             *)

\* Data, a connection or buffer space arrives; an edge is reported once.
Arrive(e) ==
  /\ open
  /\ ready' = ready \cup {e}
  /\ edge' = (edge \/ e \in interest)
  /\ UNCHANGED <<open, interest, object, pool, users, shared, pc, frame, tasks, timing>>

\* EPOLL_CTL_ADD or MOD with mask m: what is ready already counts as an edge.
Watch(m) ==
  /\ interest' = m
  /\ edge' = (edge \/ m \cap ready # {})

\* EPOLL_CTL_DEL, without effect on a descriptor that is not in the set.
Unwatch == interest' = {} /\ edge' = FALSE

-----------------------------------------------------------------------------
(* The idle fiber of a thread.                                             *)

Free(t) ==
  /\ at' = [at EXCEPT ![t] = "free"]
  /\ job' = [job EXCEPT ![t] = None]
  /\ got' = [got EXCEPT ![t] = {}]

\* epoll_wait returns the descriptor.
EpollWait(t) ==
  /\ at[t] = "free"
  /\ edge
  /\ edge' = FALSE
  /\ IF ready \cap interest = {} THEN UNCHANGED pool
     ELSE /\ at' = [at EXCEPT ![t] = "handle"]
          /\ got' = [got EXCEPT ![t] = ready \cap interest]
          /\ UNCHANGED job
  /\ UNCHANGED <<open, ready, interest, object, users, shared, pc, frame, tasks, timing>>

\* The bits that nobody waits for (any more) are dropped with their edge,
\* and so is everything if epoll_ctl fails.
HandleNothing(t) ==
  /\ at[t] = "handle" /\ lock = None
  /\ event \cap got[t] = {} \/ interest = {}
  /\ Free(t)
  /\ UNCHANGED <<kernel, object, users, shared, pc, frame, tasks, timing>>

\* Mutant: the descriptor stays in the epoll set.
HandleEvents_NoCtl(t) ==
  /\ at[t] = "handle" /\ lock = None
  /\ event \cap got[t] # {} /\ interest # {}
  /\ lock' = t
  /\ at' = [at EXCEPT ![t] = "trigger"]
  /\ UNCHANGED <<kernel, event, waiter, job, got, users, shared, pc, frame, tasks, timing>>

\* Up to epoll_ctl; the remaining bits stay watched.
HandleEvents(t) ==
  /\ at[t] = "handle" /\ lock = None
  /\ event \cap got[t] # {} /\ interest # {}
  /\ lock' = t
  /\ LET leftEvent == event \ got[t]
     IN  IF leftEvent = {} THEN Unwatch ELSE Watch(leftEvent)
  /\ at' = [at EXCEPT ![t] = "trigger"]
  /\ UNCHANGED <<open, ready, event, waiter, job, got, users, shared, pc, frame, tasks, timing>>

\* Mutants: the context is not reset, the waiter not queued.
triggerEvent_NoReset(t) ==
  /\ at[t] = "trigger"
  /\ event' = event \ got[t]
  /\ tasks' = [f \in Fibers |->
                 tasks[f] + Cardinality({e \in got[t] : waiter[e] = f})]
  /\ lock' = None
  /\ Free(t)
  /\ UNCHANGED <<kernel, waiter, users, shared, pc, frame, timing>>
triggerEvent_One(t) ==
  /\ at[t] = "trigger"
  /\ event' = event \ got[t]
  /\ waiter' = [e \in Ev |-> IF e \in got[t] THEN None ELSE waiter[e]]
  /\ tasks' = [f \in Fibers |->
                 IF "EPOLLIN" \in got[t] /\ waiter["EPOLLIN"] = f
                   THEN tasks[f] + 1 ELSE tasks[f]]
  /\ lock' = None
  /\ Free(t)
  /\ UNCHANGED <<kernel, users, shared, pc, frame, timing>>

\* triggerEvent for each bit, then the unlock; the end of cancelEvent too.
triggerEvent(t) ==
  /\ at[t] = "trigger"
  /\ event' = event \ got[t]
  /\ waiter' = [e \in Ev |-> IF e \in got[t] THEN None ELSE waiter[e]]
  /\ tasks' = [f \in Fibers |->
                 tasks[f] + Cardinality({e \in got[t] : waiter[e] = f})]
  /\ lock' = None
  /\ Free(t)
  /\ UNCHANGED <<kernel, users, shared, pc, frame, timing>>

\* tick() hands the callbacks of due timers to the queue.  Bound: none of a
\* fiber whose last late callback has not run yet.
Tick(t) ==
  /\ at[t] = "free"
  /\ \E S \in SUBSET {f \in Fibers : timer[f] = "armed" /\ stale[f] = None} :
       /\ S # {}
       /\ timer' = [f \in Fibers |-> IF f \in S THEN "due" ELSE timer[f]]
  /\ UNCHANGED <<kernel, object, pool, users, shared, pc, frame, tasks, stale, cancel>>

-----------------------------------------------------------------------------
(* The callback io_func gave to addTimer: cancel = 1, then cancelEvent.    *)

\* In time: the frame of the wait is alive.
RunCallback(t, f) ==
  /\ at[t] = "free"
  /\ timer[f] = "due"
  /\ timer' = [timer EXCEPT ![f] = "ran"]
  /\ cancel' = [cancel EXCEPT ![f] = TRUE]
  /\ at' = [at EXCEPT ![t] = "cancel"]
  /\ got' = [got EXCEPT ![t] = {dir[f]}]
  /\ UNCHANGED <<kernel, object, job, users, shared, pc, frame, tasks, stale>>

\* The fiber is in a wait, so that cancel is a live variable.
InWait(f) == pc[f] \in {"timer", "test", "ctl", "set", "yield", "held", "woken"}

\* Late: &cancel dangles.  It may be the cancel of a later wait, which the
\* same frame or the next call puts at the same address.
RunStale(t, f) ==
  /\ at[t] = "free"
  /\ stale[f] # None
  /\ stale' = [stale EXCEPT ![f] = None]
  /\ \E hit \in BOOLEAN :
       cancel' = [cancel EXCEPT ![f] = @ \/ (hit /\ InWait(f))]
  /\ at' = [at EXCEPT ![t] = "cancel"]
  /\ got' = [got EXCEPT ![t] = {stale[f]}]
  /\ UNCHANGED <<kernel, object, job, users, shared, pc, frame, tasks, timer>>

cancelNothing(t) ==
  /\ at[t] = "cancel" /\ lock = None
  /\ got[t] \cap event = {}
  /\ Free(t)
  /\ UNCHANGED <<kernel, object, users, shared, pc, frame, tasks, timing>>

\* Mutant: the waiter is not triggered.
cancelEvent_NoTrigger(t) ==
  /\ at[t] = "cancel" /\ lock = None
  /\ got[t] \cap event # {}
  /\ event' = event \ got[t]
  /\ IF event \ got[t] = {} THEN Unwatch
     ELSE IF interest # {} THEN Watch(event \ got[t])
     ELSE UNCHANGED <<interest, edge>>
  /\ Free(t)
  /\ UNCHANGED <<open, ready, waiter, lock, users, shared, pc, frame, tasks, timing>>

\* Mutant: no EPOLL_CTL_DEL.
cancelEvent_NoDel(t) ==
  /\ at[t] = "cancel" /\ lock = None
  /\ got[t] \cap event # {}
  /\ lock' = t
  /\ at' = [at EXCEPT ![t] = "trigger"]
  /\ UNCHANGED <<kernel, event, waiter, job, got, users, shared, pc, frame, tasks, timing>>

\* Up to epoll_ctl; the mask of EPOLL_CTL_MOD still has the cancelled bit.
cancelEvent(t) ==
  /\ at[t] = "cancel" /\ lock = None
  /\ got[t] \cap event # {}
  /\ lock' = t
  /\ IF event \ got[t] = {} THEN Unwatch
     ELSE IF interest # {} THEN Watch(event)
     ELSE UNCHANGED <<interest, edge>>
  /\ at' = [at EXCEPT ![t] = "trigger"]
  /\ UNCHANGED <<open, ready, event, waiter, job, got, users, shared, pc, frame, tasks, timing>>

-----------------------------------------------------------------------------
(* The fiber of a connection: threadFunc takes it, it makes calls.         *)

At(t, f, l) == at[t] = "run" /\ job[t] = f /\ pc[f] = l
Goto(f, l)  == pc' = [pc EXCEPT ![f] = l]

\* A former user is either through or waits for ever (see Close).
Gone(f) == pc[f] \in {"new", "done"} \/ (pc[f] = "held" /\ tasks[f] = 0)

\* The task of a connection starts: the number is that of a new connection,
\* or, with Sharing, of the one another fiber serves.
Start(t, f) ==
  /\ at[t] = "free"
  /\ pc[f] = "new"
  /\ IF open THEN Sharing /\ users # {} ELSE \A g \in Fibers : Gone(g)
  /\ open' = TRUE
  /\ users' = users \cup {f} /\ shared' = (shared \/ open)
  /\ at' = [at EXCEPT ![t] = "run"]
  /\ job' = [job EXCEPT ![t] = f]
  /\ Goto(f, "app")
  /\ UNCHANGED <<ready, interest, edge, object, got, frame, tasks, timing>>

Call(t, f, e) ==
  /\ At(t, f, "app")
  /\ dir' = [dir EXCEPT ![f] = e]
  /\ Goto(f, "try")
  /\ UNCHANGED <<kernel, object, pool, users, shared, mask, fresh, tasks, timing>>

\* func(fd, ...) transfers something; then all or not all of it is used up.
Succeed(t, f) ==
  /\ At(t, f, "try") /\ open /\ dir[f] \in ready
  /\ ready' \in {ready, ready \ {dir[f]}}
  /\ Goto(f, "app")
  /\ UNCHANGED <<open, interest, edge, object, pool, users, shared, frame, tasks, timing>>

\* EAGAIN
Block(t, f) ==
  /\ At(t, f, "try") /\ open /\ dir[f] \notin ready
  /\ cancel' = [cancel EXCEPT ![f] = FALSE]
  /\ Goto(f, IF dir[f] \in Timed THEN "timer" ELSE "test")
  /\ UNCHANGED <<kernel, object, pool, users, shared, frame, tasks, timer, stale>>

\* EBADF: another user closed the connection.
Fail(t, f) ==
  /\ At(t, f, "try") /\ ~open
  /\ Goto(f, "done")
  /\ Free(t)
  /\ UNCHANGED <<kernel, object, users, shared, frame, tasks, timing>>

addTimer(t, f) ==
  /\ At(t, f, "timer")
  /\ timer' = [timer EXCEPT ![f] = "armed"]
  /\ Goto(f, "test")
  /\ UNCHANGED <<kernel, object, pool, users, shared, frame, tasks, stale, cancel>>

\* addEvent, without the lock: the bit is there already, ...
addEventDup(t, f) ==
  /\ At(t, f, "test") /\ dir[f] \in event
  /\ Goto(f, "yield")
  /\ UNCHANGED <<kernel, object, pool, users, shared, frame, tasks, timing>>

\* ... or op and mask are computed from what is there (the build reads
\* task->event once), ...
addEventTest(t, f) ==
  /\ At(t, f, "test") /\ dir[f] \notin event
  /\ fresh' = [fresh EXCEPT ![f] = (event = {})]
  /\ mask' = [mask EXCEPT ![f] = event \cup {dir[f]}]
  /\ Goto(f, "ctl")
  /\ UNCHANGED <<kernel, object, pool, users, shared, dir, tasks, timing>>

\* After epoll_ctl nothing depends on op and ev any more.
Forget(f) ==
  /\ mask' = [mask EXCEPT ![f] = {}]
  /\ fresh' = [fresh EXCEPT ![f] = FALSE]

\* ... epoll_ctl fails if ADD finds the descriptor or MOD does not, ...
addEventFail(t, f) ==
  /\ At(t, f, "ctl")
  /\ ~open \/ fresh[f] # (interest = {})
  /\ Goto(f, "yield")
  /\ Forget(f)
  /\ UNCHANGED <<kernel, object, pool, users, shared, dir, tasks, timing>>

addEventCtl(t, f) ==
  /\ At(t, f, "ctl")
  /\ open /\ fresh[f] = (interest = {})
  /\ Watch(mask[f])
  /\ Goto(f, "set")
  /\ Forget(f)
  /\ UNCHANGED <<open, ready, object, pool, users, shared, dir, tasks, timing>>

\* ... and only then, under the lock, the waiter is known.
addEvent(t, f) ==
  /\ At(t, f, "set") /\ lock = None
  /\ event' = event \cup {dir[f]}
  /\ waiter' = [waiter EXCEPT ![dir[f]] = f]
  /\ Goto(f, "yield")
  /\ UNCHANGED <<kernel, lock, pool, users, shared, frame, tasks, timing>>

yieldToHold(t, f) ==
  /\ At(t, f, "yield")
  /\ Goto(f, "held")
  /\ Free(t)
  /\ UNCHANGED <<kernel, object, users, shared, frame, tasks, timing>>

\* Mutant: the task is not erased.
Resume_Keeps(t, f) ==
  /\ at[t] = "free"
  /\ pc[f] = "held" /\ tasks[f] > 0
  /\ at' = [at EXCEPT ![t] = "run"]
  /\ job' = [job EXCEPT ![t] = f]
  /\ Goto(f, "woken")
  /\ UNCHANGED <<kernel, object, got, users, shared, frame, tasks, timing>>

Resume(t, f) ==
  /\ at[t] = "free"
  /\ pc[f] = "held" /\ tasks[f] > 0
  /\ tasks' = [tasks EXCEPT ![f] = @ - 1]
  /\ at' = [at EXCEPT ![t] = "run"]
  /\ job' = [job EXCEPT ![t] = f]
  /\ Goto(f, "woken")
  /\ UNCHANGED <<kernel, object, got, users, shared, frame, timing>>

\* delTimer, which does not reach a callback that tick() has handed out;
\* then ETIMEDOUT or goto Retry.
Return(t, f) ==
  /\ At(t, f, "woken")
  /\ timer' = [timer EXCEPT ![f] = "none"]
  /\ stale' = IF timer[f] = "due" THEN [stale EXCEPT ![f] = dir[f]] ELSE stale
  /\ Goto(f, IF cancel[f] THEN "app" ELSE "try")
  /\ UNCHANGED <<kernel, object, pool, users, shared, frame, tasks, cancel>>

\* close(fd) by one user; the others are not in the middle of a call.
Close(t, f) ==
  /\ At(t, f, "app")
  /\ \A g \in users \ {f} : pc[g] = "held" /\ tasks[g] = 0
  /\ IF event = {}
       THEN Goto(f, "close") /\ UNCHANGED <<interest, edge>>
       ELSE Goto(f, "del") /\ Unwatch
  /\ UNCHANGED <<open, ready, object, pool, users, shared, frame, tasks, timing>>

\* The end of delEvent: the waiters are dropped, not woken.
delEvent(t, f) ==
  /\ At(t, f, "del") /\ lock = None
  /\ event' = {}
  /\ waiter' = [e \in Ev |-> None]
  /\ Goto(f, "close")
  /\ UNCHANGED <<kernel, lock, pool, users, shared, frame, tasks, timing>>

\* close_f
CloseFd(t, f) ==
  /\ At(t, f, "close")
  /\ open' = FALSE /\ ready' = {} /\ users' = {}
  /\ Unwatch
  /\ Goto(f, "done")
  /\ Free(t)
  /\ UNCHANGED <<object, shared, frame, tasks, timing>>

Idle(t) ==
  \/ EpollWait(t) \/ HandleNothing(t) \/ HandleEvents(t) \/ triggerEvent(t)
  \/ Tick(t) \/ cancelNothing(t) \/ cancelEvent(t)
  \/ \E f \in Fibers : RunCallback(t, f) \/ RunStale(t, f)

AddEvent(t, f) ==
  \/ addEventDup(t, f) \/ addEventTest(t, f) \/ addEventFail(t, f)
  \/ addEventCtl(t, f) \/ addEvent(t, f)

InCall(t, f) ==
  \/ Succeed(t, f) \/ Block(t, f) \/ Fail(t, f) \/ addTimer(t, f)
  \/ AddEvent(t, f) \/ yieldToHold(t, f) \/ Resume(t, f) \/ Return(t, f)
  \/ delEvent(t, f) \/ CloseFd(t, f)

Next ==
  \/ \E e \in Ev : Arrive(e)
  \/ \E t \in Threads :
       \/ Idle(t)
       \/ \E f \in Fibers :
            \/ InCall(t, f) \/ Start(t, f) \/ Close(t, f)
            \/ \E e \in Uses[f] : Call(t, f, e)

Spec == Init /\ [][Next]_vars

\* The queue comes before epoll_wait in threadFunc, so a thread that is free
\* again and again takes the fiber.  Running code goes on; what the
\* application does between two calls is its own affair.
FairSpec ==
  /\ Spec
  /\ \A t \in Threads : WF_vars(Idle(t))
  /\ \A f \in Fibers :
       /\ SF_vars(\E t \in Threads : Resume(t, f))
       /\ WF_vars(\E t \in Threads : AddEvent(t, f) \/ yieldToHold(t, f))

\* The other side goes on sending, and receiving.
TrafficSpec == FairSpec /\ \A e \in Ev : WF_vars(Arrive(e))

-----------------------------------------------------------------------------
TypeOK ==
  /\ open \in BOOLEAN /\ edge \in BOOLEAN
  /\ ready \subseteq Ev /\ interest \subseteq Ev /\ event \subseteq Ev
  /\ waiter \in [Ev -> Fibers \cup {None}]
  /\ lock \in Threads \cup {None}
  /\ at \in [Threads -> Place]
  /\ job \in [Threads -> Fibers \cup {None}]
  /\ got \in [Threads -> SUBSET Ev]
  /\ users \subseteq Fibers /\ shared \in BOOLEAN
  /\ pc \in [Fibers -> Label]
  /\ dir \in [Fibers -> Ev]
  /\ mask \in [Fibers -> SUBSET Ev]
  /\ fresh \in [Fibers -> BOOLEAN]
  /\ tasks \in [Fibers -> 0 .. 1]
  /\ timer \in [Fibers -> {"none", "armed", "due", "ran"}]
  /\ stale \in [Fibers -> Ev \cup {None}]
  /\ cancel \in [Fibers -> BOOLEAN]

\* However events, late epoll results, time-outs and cancellations coincide,
\* a wait is ended once: a fiber is queued only from addEvent to its resume,
\* never while it is in another part of the call or out of it.
OneWake == \A f \in Fibers : tasks[f] > 0 => pc[f] \in {"yield", "held"}

\* The fiber waits, nobody closes the connection, no update is under way.
Waits(f) ==
  /\ f \in users /\ pc[f] = "held" /\ tasks[f] = 0
  /\ lock = None
  /\ \A g \in users : pc[g] \notin {"del", "close"}

\* The fiber that waits is the one the Event object names, and the kernel
\* watches for what it waits for: no registration fails or is undone, as
\* long as each connection has a single user.
Registered ==
  \A f \in Fibers : Waits(f) /\ ~shared =>
    /\ dir[f] \in event \cap interest
    /\ waiter[dir[f]] = f

\* Outside of an update the epoll set has the descriptor just if somebody
\* waits; otherwise the next EPOLL_CTL_ADD or MOD fails and its fiber hangs.
\* As above.
InStep ==
  ~shared /\ lock = None /\ (\A f \in Fibers : pc[f] \notin {"set", "del"}) =>
    (event = {} <=> interest = {})

\* No edge is lost: for a fiber that waits for what is ready, a wake-up is
\* on its way.
NoLostWakeup ==
  \A f \in Fibers : Waits(f) /\ dir[f] \in ready =>
    edge \/ \E t \in Threads : at[t] = "handle" /\ dir[f] \in got[t]

\* A wait with a time-out has its time-out still before it.
TimeoutAhead ==
  \A f \in Fibers : Waits(f) /\ dir[f] \in Timed =>
    \/ timer[f] \in {"armed", "due"}
    \/ \E t \in Threads : at[t] = "cancel" /\ dir[f] \in got[t]

\* ETIMEDOUT is returned only for a wait whose own timer has expired.
TimeoutIsOwn ==
  [][\A f \in Fibers :
       pc[f] = "woken" /\ pc'[f] = "app" => timer[f] = "ran"]_vars

\* A wait whose edge got lost ends with the next edge, if the other side sends
\* another one, which a peer that waits for an answer, or has closed, does not:
\* while events keep coming, every wait ends.  As above.
TrafficResumes ==
  \A f \in Fibers : pc[f] = "held" /\ ~shared ~> pc[f] # "held" \/ shared
=============================================================================
