# A TLA+ verification of AsynchronousWebServer

This directory holds the specification of the server in `src/`: TLA+ modules
translated from its C++ sources, TLC configurations that check them on small
instances, and TLAPS proofs of what holds for every instance.

`src/src/<dir>/<file>` below is shortened to `<file>`.

## 1. Inventory

| Component | State it keeps | Operations | Hard behaviour |
|---|---|---|---|
| Fiber (`fiber.cpp`) | `m_state`, `m_ctx`, stack, thread-local current fiber | `resume`, `yield`, `reset`, `MainFunc` | `m_state = HOLD` is visible to other threads before `swapcontext` has saved the stack |
| Scheduler (`scheduler.cpp`, `.h`) | `mTasks`, `mActiveCnt`, `mStopping`, `mThreadIds` | `addTask`, `threadFunc`, `idle`, `stopping`, `stop`, `join` | a queue shared by threads, skipped tasks, shutdown tests without the mutex |
| TimerManager (`timer.cpp`) | `mWheel` (lists of timers), `mCurSlot`, `mLastExpireTime` | `addTimer`, `delTimer`, `tick` | wheel wrap-around, a slot computed outside the lock, a clock that is set back |
| IOManager (`IOManager.cpp`) | `mEvents[fd]` (bits, fibers or callbacks), epoll set, eventfd, `mTimerCnt`, the `waitTime` of each idle fiber | `addEvent`, `cancelEvent`, `delEvent`, `idle`, `trickle`, `stopping`, `ctxResize` | edge-triggered events against half-done registrations; notifications against threads that go to sleep |
| Hook (`hook.cpp`) | the `timer_info` of one call | `io_func` (read, write, accept, ...), `sleep`, `socket`, `close` | time-out against arrival, retry, close under a waiter |
| FdManager (`fd_manager.cpp`) | fd table: non-blocking flags, time-outs | `get`, `del`, `FdCtx::init` | fd numbers are reused |
| Lock (`lock.h`) | a mutex and a guard | `lock`, `unlock` | none of its own |
| Socket, Address (`socket/`) | fd, connected flag, addresses | `bind`, `listen`, `accept`, `connect`, `send`, `recv`, `close`; subnet arithmetic | close twice, prefix arithmetic |
| TcpServer (`tcp_server.cpp`) | listening socket, `mIsStop` | `bind`, `start`, `handleAccept`, `handleClient`, `stop` | stop while accept waits, double close |
| HttpServer, parser, servlets (`http/`) | request under construction, dispatch table | `handleClient`, parser callbacks, `ServletDispatch` | fragmentation, pipelining, keep-alive |
| Logger (`log/`) | appenders with level, pattern and items, the logger's level | `log`, `addAppender`, `delAppender`, `setAppenderLevel`, `setAppenderFormatter`, `LogFormatter::init` | appenders changed while others log; the parser's indexes |
| http_parser (vendored) | `state`, `index`, `header_state`, `content_length`, `flags` | `http_parser_execute` | the callbacks' marks across chunks |

Calls and shared state: `TcpServer` runs its accept loop and each connection as
a job of the `IOManager`, a subclass of `Scheduler`. A job that would block in a
hooked system call registers its fiber (`addEvent`), perhaps starts a timer, and
yields; the idle fiber of any thread waits in `epoll_wait`, puts the fibers of
arrived events and the callbacks of due timers into the queue, and yields to
`threadFunc`, which takes the next task.

What makes each part correct: a job is neither lost nor run twice, nor run by
two threads (Scheduler, Fiber); a timer fires once, in time and never after it
was deleted (TimerManager); an event that arrives wakes the fiber that waits for
it, and a fiber waits only for an event that is still registered (IOManager);
a call with a time-out ends by the first of the two and leaves nothing armed
(Hook); each connection is closed once, and the listener stops (TcpServer); one
response per request, in order (HttpServer); a task in the queue is taken though
threads sleep, and the threads notice the shutdown (IOManager with Scheduler); each
line is that of one whole pattern (Logger).

## 2. Modules

| Module | Models | Composed with |
|---|---|---|
| `Scheduler` | `Scheduler`, the states of `Fiber`, construction and destruction of `IOManager` | `JobPool` (abstract), `SchedulerProofs`, `MCScheduler` |
| `TimerWheel` | `TimerManager` | `TimerWheelProofs`, `MCTimerWheel` |
| `HookedIO` | `io_func` and `close` of the hooks, `Event`, `addEvent`, `cancelEvent`, `delEvent`, `idle` of `IOManager`, and epoll | `HookedIOProofs`, `MCHookedIO` |
| `HttpStream` | `HttpServer::handleClient`, the parser with its callbacks, the servlet dispatch | `RequestReply` (abstract), `HttpStreamProofs`, `MCHttpStream` |
| `Connections` | `TcpServer`, `FdManager`, the hooked `accept` and `close`, the kernel's descriptor numbers | `ConnectionsProofs`, `MCConnections` |
| `Wakeups` | `addTask`, `threadFunc` and `tick` with the eventfd, `trickle`, `epoll_wait` and its time-out, `mTimerCnt`, `sleep`, the shutdown of `IOManager` | `WakeupsProofs`, `MCWakeups` |
| `Logger` | `Logger`, its appenders, `LogFormatter::init` | `LoggerProofs`, `MCLogger` |

### Scheduler

The queue `mTasks` is a sequence of records, `task` what a thread took from it,
`pc` where in `threadFunc`, in a job or in `Fiber::yield` the thread is, `stack`
on whose stack it runs. The steps are as fine as the accesses outside of
`mLock`: the removal of a task (`Take`) and `++mActiveCnt` (`CountActive`) are
two steps because `stopping()` reads both without the mutex (`StopTest`,
`StopTestActive`), `m_state = HOLD` (`YieldHold`) and `swapcontext` (`SwitchOut`)
are two because another thread reads `m_state`. A job may submit others, queue
its own fiber and yield, or wait for an event (`Park`) that the idle fiber of any
thread delivers (`Wake`). `Main` submits, stops, and destroys the `IOManager`,
which runs `threadFunc` on `Main` if `UseMain` and joins the pool. When two
threads are on one stack the behaviour is undefined; the model stops there
(`Crashed`), and the properties say what is true until then.

`JobPool` is what the scheduler promises: the life of each job by itself, from
`new` over `ready`, `running` and `waiting` to `done`. `Status` maps a state of
`Scheduler` to it.

### TimerWheel

`mWheel`, `mCurSlot` and the timers' `slot` and `round` as in the code. `addTimer`
is two steps (`Compute`, `Insert`) since it reads `mCurSlot` before it takes the
lock; `delTimer` and `tick` are one each. Of the clock only the time since the
last tick (`since`, no further than `mTickTime`) and the time since each timer
was set (`age`, no further than its interval) are kept, and `waited`, the number
of ticks a timer has been in its list, up to one revolution. `Deletable` names
the timers the caller deletes. `gettimeofday` is not monotonic: `SetBack` sets the
clock back, `since` becomes negative, and `age` counts the time that has really
passed. A clock set forward is `Pass` as far as the clock is concerned.

### HookedIO

One descriptor number: its `Event` object (`event`, `waiter`, `lock`), its entry
in the epoll set (`interest`, `edge`), what the socket is ready for (`ready`).
Objects of different descriptors share nothing but the table. A thread is free
(in `threadFunc` or in `epoll_wait`), handles what `epoll_wait` returned (`handle`,
then `trigger` between `epoll_ctl` and the unlock), runs the time-out callback
(`cancel`, then `trigger`), or runs a fiber. A fiber goes through `io_func`: the
call (`try`), `addTimer` (`timer`), the unlocked test of `addEvent` (`test`), its
`epoll_ctl` (`ctl`), its locked part (`set`), `yieldToHold` (`yield`), waiting
(`held`), and `delTimer` with the test of `cancel` after it was resumed (`woken`).

The kernel is external and modelled as edge-triggered: `Arrive` makes an edge
for a watched event, `EPOLL_CTL_ADD` and `MOD` make one if something watched is
ready, `epoll_wait` uses it up. `EPOLLERR` and `EPOLLHUP` are not distinguished
from the readiness that comes with them. The queue of the scheduler is the
counter `tasks`; that threads take fibers from it properly is `Scheduler`'s
subject. The timer of a wait is `armed`, `due` (its callback is queued) or `ran`;
`TimerWheel` is about when. A callback that `delTimer` did not reach becomes
`stale`. The write through its dangling `&cancel` either sets the `cancel` of a
later wait of the fiber or has no effect on the model.

With `Sharing` a fiber may join the users of a connection; `shared` remembers that one
has. The `HttpServer` has one fiber for each connection.

Assumptions about the program on top: a connection's number is used again only
when its former fibers are through or wait for ever, and a fiber closes a
connection only while the other users wait.

### HttpStream

One connection, from its first `recv` to its `close`. A request is a record and
travels as the sequence of its pieces (`Layout`): each string a callback gets is
two pieces, a body is one piece per unit of its length, so that a chunk can end
before, within and after each of them. `Ask` lets the peer write a request,
`Arrive` delivers up to any piece, and `Recv` takes what has arrived. `parser` holds
the fields of `http_parser` that decide something, and `run` the mark of the string
being read; each parser action goes over one piece and calls the callbacks the
code calls there. At the end of the buffer `ExecuteEnd` flushes the marks and
`handleClient` looks at `isFinish`. `Handle` is the servlet's turn, `Send` one
`send`, which may take a part of the response only, with `offset` in the width of
`size_t`. `PathOf`, the assignments and the appends of the callbacks are those of
`http11_parser.cpp`; every chunk is parsed by the `mParser` of the request.

`RequestReply` is what a peer may expect: each request answered once, in order,
by the servlet of its path and with its body, and an end of the connection only
with an answer that announces it or after the peer left. `RepliesInOrder` says that
`HttpStream` implements it for a peer that waits for an answer before it asks
again and whose strings are not cut by a chunk (`Careful`); for others it is
false, see 6.

A `recv` that would block waits (`RecvWaits`, `Woken`), and so may `send`. The
steps of a wait are `HookedIO`'s; here only their outcome counts, which on several
threads may be that an idle fiber has dropped the event before the wait was
registered (`EdgeDropped`, IOManager.cpp:102, 110, 227). `missed` says that the
connection is in such a wait, until something else arrives that epoll reports.

Assumed of the traffic: no chunk fills the buffer of `recv` or contains a zero
byte (`strlen(buf)` is used for the length), no chunked coding and no upgrade, and
no body contains what could be the beginning of a request. The last is about clients
that send ahead only: what the first parser has left of a body is given to a new one,
which in the model finds an error (`ParserError`).
After an `RST` the first `send` fails and the next one raises SIGPIPE, which nobody
handles: the process ends (`SendFails`, `SigPipe`).

### Connections

`file` is the kernel's descriptor table, with the lowest free number given to the
next connection; `ctx` is `FdManager::mCtxs`, `event` which fiber waits at a number
in `mEvents`. A connection's fiber is named by the connection, an accept loop by a
member of `Acceptors`, one per call of `start`. The hooked `accept` is three steps
(`Call`, which asks the `FdManager` about the listening socket, `accept_f`, and
`AcceptCtx`, which makes the entry), the hooked `close` is four (`CloseGet`,
`delEvent`, `del`, `close_f`): between any two of them other threads run.

`watched` and `edge` are the epoll set and what it has to report, edge-triggered. A
call that would block (`Wait`) tells epoll first (`epoll_ctl`, IOManager.cpp:102) and
registers the fiber afterwards (`SetEvent`, 109-117). An idle fiber asks epoll
(`epoll_wait`) and then handles the answer, by queueing the fiber that is registered
(`triggerEvent`) or, if there is none, by dropping it (`NoEvent`, 227-229): between the
two steps, of either side, the other side runs, and the number may even have changed
hands. `told` counts the idle fibers in between, for each number; `missed` remembers
that an answer was dropped and that nothing was reported of the number since.

Fibers share `ThreadCnt` threads with the idle fibers that handle something, and give
one up only by waiting or ending, so that a loop that does not wait occupies one.

`Twice` distinguishes the connection handlers: `TcpServer::handleClient` calls
`close` twice when the peer has closed and never closes a connection after an answer;
`HttpServer::handleClient`, which overrides it, closes once, also after a request it
cannot parse or whose answer is the last (`ServeEnds`).

### Wakeups

The modules above let a thread look at the queue at any time. This one says when
it does. `mTasks` is a sequence of tasks, each the fiber of a job or the callback of
its timer; `edge` says that the eventfd, which is watched edge-triggered, was
written since `epoll_wait` last returned it. `addTask` notifies only if the queue was
empty, and after the unlock (`trickle` is a step of its own); `threadFunc` removes a
task (`Take`) and counts it (`CountActive`), or finds none (`FindNothing`), and then,
without the lock, notifies if it met a task of
another thread or if the queue is not empty (`Test`). A thread that has found nothing
is in `epoll_wait` (label `wait`) until `EventFd`, an `Event` or the time-out, `tick`.
`waitTime` and `slept` are the idle fiber's: what an `epoll_wait` took is subtracted
(`AfterEvents`), and nothing being left is what makes it call `tick`. `Pass` lets time
go on, by one for all, while every thread waits or runs a task; the code in
between takes none. `mTimerCnt` is counted up by `addTimer` and down by `delTimer`
only, there before the timer leaves the wheel (`DelFromWheel`).

`stopping()` takes no lock, and reads `mTimerCnt`, `mStopping` with `mTasks.empty()`,
`mActiveCnt` and `mTimerCnt` again one after the other: the labels of `StopLabel`. A
thread may therefore leave while another has a task that it has not counted yet, or
has begun to work since. `mStopping` is read in one step with the queue because it never
goes back. mLock is a guard (`mLockFree`), as a thread holds it over one step only.

A job does one of the `JobStep`s at a time: it adds other jobs (as the accept loop
adds connections), which may be pinned to any thread, and goes on, or it ends its turn:
it returns, queues itself (as the fibers of `test/test_file1.cpp` do), waits for an event,
with or without a time-out, or sleeps. The steps within a wait are `HookedIO`'s, the
slot of a timer is `TimerWheel`'s (here an armed timer is due at the next tick),
`m_state` against `swapcontext` is `Scheduler`'s.

### Logger

`mAppends` is the map from names to appenders, each with its level, its pattern and
its items. `Begin` is the test of the level in the macro `LOG`, which takes no lock;
the calls take `mLock` (`Lock`), do their work and give it back (`Leave`). `log` visits
one appender per step (`Each`). Making an appender and `setFormatter` run
`LogFormatter::init`, one step of the loops at a time, with the locals of the code
(`loc`; only the holder of `mLock` has any). A pattern is a sequence of tokens, so
that the items `init` makes of its characters can be compared with what
`logger.h:63-73` says of the tokens (`Meaning`). `Clear` patterns are those in which no
token runs into the next; for others see 6. What an item writes is a symbol:
the digits of a line number or of a date are no subject of a property.

## 3. Runs and bounds

| Run | Shows | Bounds |
|---|---|---|
| `Scheduler_pool` | no job is lost, doubled or left behind; `mActiveCnt` is exact; `JobPool` is implemented; jobs settle and the shutdown completes | 2 pool threads and `Main`, 2 jobs, pins {-1, 0}, 1 yield each |
| `Scheduler_race` | violation, see 6 | 1 job |
| `TimerWheel_wheel` | each armed timer is in one list, fires within a revolution, not early, not after its deletion, and the clock being set back only delays it | 3 slots, 2 units a tick, 3 timers of 1, 2 and 5 units, one of them recurring, the others deletable; the clock set back by 1 unit |
| `TimerWheel_early` | violation | one timer of a revolution |
| `HookedIO_threads` | a wait is ended once, whatever coincides; while each connection has one user, every wait is registered, the epoll set and `task->event` agree, and waits end while the other side goes on | 2 threads, 2 fibers, one reading and writing, one reading, on 2 connections in turn or on the same one; read time-outs |
| `HookedIO_single` | on one thread no edge and no time-out is lost | 1 thread, a reader and a writer |
| `HookedIO_edge`, `_late` | violations | 1 or 2 threads, 1 fiber |
| `HttpStream_conn` | no request is answered early or twice, each body is whole, `RequestReply` is implemented for careful clients, and who does not send ahead gets an answer unless an event was dropped and none came after it | 2 requests of 3 kinds (both versions, keep-alive, close, body of 0 to 2), 4 kinds of clients, responses sent in up to 2 parts |
| `Connections_http` | numbers are used again without a trace of the former connection and none leaks; `stop()` lets in one more connection; an event dropped before a wait is registered is the only thing that can keep the loop from accepting and a connection from ending | 3 connections, of which 2 talk, 1 free number, 2 threads, 1 accept loop |
| `Wakeups_pool` | no thread sleeps through a task it may take; queued tasks are taken, pinned ones by their thread; timers go off and the shutdown is noticed with nobody notifying for it; when the last thread has left no job can go on by itself | 2 threads and `Main`, a job that returns, goes on or adds another, which is pinned and waits with or without a time-out or sleeps; 2 units a tick |
| `Logger_lines` | lines are those of one whole pattern of an appender that exists; no index leaves the pattern; every call ends | 2 threads, the default pattern and all of up to 2 of 9 tokens, 2 appenders, two levels |

The `MC` modules only supply constants. Two threads are enough for every hazard listed, each of which is between a
thread in the middle of an operation and one other; with `Main` in the pool,
`Scheduler` has three. Two jobs are needed for a queue with one to skip; one
yield for a fiber that is queued while it runs. A wheel of three slots
distinguishes the slot at the cursor, the next one and the one before; two units
a tick let a timer be set in the middle of a tick. Two connections in turn are
what reuse of a number needs. Two requests on a connection are what a leftover of
the first in the second needs; three connections for one number make it
be used again twice, by a connection that talks and by one that does not, while an idle
fiber still holds a report of the former one, and let the numbers run out. Two threads of
`Wakeups` let one be busy or asleep while the other has the eventfd; two units a
tick let an event come in the middle of a `waitTime`. Two tokens make each pair of
neighbours. Named bounds: `MaxYields`;
`MaxRequests`, `MaxSize` and `Size`; `ConnCnt` and `Talkers`; `MaxTimers`; `MaxBack`; `waited` and `age`, which
stop where the properties no longer distinguish them; in `HookedIO`, `Tick` does
not fire the timer of a fiber that still has a stale callback.

Three exceptions are named, for what the code gets wrong (section 6): `Orphan`, a job
pinned to a thread that has left (`EveryJobSettles`, `EveryTaskTaken`);
`Crashed`, the race of `Fiber::yield` (`EveryJobSettles`, `ShutdownCompletes`); and `missed`, an
event that was dropped on the way to a wait (`EveryRequestAnswered`, `EveryConnectionAccepted`,
`EveryEndCloses`, `StopTakesEffect`). The last is the premise that no drop is final:
`[]<>(~ missed)`. Without it the four properties are false on two threads; with one
thread `Connections` never has an element in `missed`.

`CHECK_DEADLOCK FALSE` in the runs of `HookedIO`: when all connections are
closed, and when all fibers wait for an event that does not come, nothing
happens any more. In those of `HttpStream` and `Connections`: a peer need not go on.
In `Wakeups`: all threads have left.

## 4. Fairness

`Scheduler!FairSpec`: the operating system runs every thread that can take a
step (weak fairness per thread); `main()` need not call anything, hence no
fairness for it but for `join`. The choices within a job (submit, yield, wait,
return) are part of the thread's steps; `MaxYields` and the finite set of jobs
make every job end.

`TimerWheel!FairSpec`: the clock advances, a thread inside `addTimer` goes on,
and `tick` is called again and again: the idle fiber of every thread without a
task returns from `epoll_wait` after at most `mTickTime`.

`HookedIO!FairSpec`: the idle fiber of each thread, which also calls `tick`, and
code between two blocking points go on (weak fairness). A queued fiber is
resumed under strong fairness: `threadFunc` looks at the queue before it enters
`epoll_wait`, so a thread that is free infinitely often takes it. Nothing is
assumed of what the application does between calls. `TrafficSpec` adds that
events keep arriving, an assumption about the other side which the run
`HookedIO_threads` states with `TrafficResumes`; it shows that a lost edge (see 6) delays a
wait until the next event. Whether there is a next event is another matter, see 6.

`HttpStream!FairSpec`: the connection's fiber goes on when it can, which is what
`Scheduler` and `HookedIO` are about, and the network delivers. A wait whose event was
dropped is not one that can go on. The peer need not ask anything.

`Connections!FairSpec`: a fiber that has a thread goes on, and so does an idle fiber
that was told something (weak fairness); a queued fiber gets one of the threads that are
free infinitely often, and epoll reports each descriptor in turn to those that ask
(strong fairness: `threadFunc` takes tasks in the order of the queue, epoll keeps a
list). Peers and the callers of `start` and `stop` do as they like.

`Wakeups!FairSpec`: each thread's code between two blocking points goes on, and an
`epoll_wait` whose time-out has passed returns. The fairness per thread is strong because
such a step may be one that takes mLock, which is not free all the time. `Pass` has
strong fairness, too: the model stops the clock while code runs that takes next to no
time, and strong fairness says that the clock is not stopped for ever by it.
Events need not come and `Main` need not act. `TimersFire` is under the condition
that again and again some thread has to wait, see 6.

`Logger!Spec`: the holder of `mLock` goes on. A pthread mutex is not fair, so nothing
is assumed of a thread that asks for it, and nothing shown of it.

## 5. Proofs

All with TLAPS, for every value of the constants that the named assumptions
(`SchedulerAssumption`, `WheelAssumption`, `HookedAssumption`, `HttpAssumption`,
`ConnectionsAssumption`, `WakeupsAssumption`, `LoggerAssumption`) admit; a theorem that needs more says
so in its own ASSUME. Every inductive invariant below was an invariant of a run
before it was proved.

`SchedulerProofs`. `TypeInv` strengthens `TypeOK` by the places in which a thread
has a task (`Places`); `mActiveCnt \in Nat` is not inductive by itself and is
proved together with `ActiveIsInFlight`, which says what it counts. `JobsInOnePlace` gives `InOnePlace`, that is, `NoLostJob` and `NoDoubleClaim`: `Custody` is
the conjunction of `NoLostJob`, `NoDoubleClaim` and `ExecOwner`: a fiber in state
EXEC is held by a thread, which is what makes the test in `threadFunc` keep a
second thread off it. `CrashIsInYield` follows from it. `ShutdownInv` relates the
thread in `join` to the queue and to `mActiveCnt`; with `Custody` it gives
`NothingLeftAtEnd`. `Refinement` maps each step to a step of `JobPool` or a
stutter, by `Custody`.

`TimerWheelProofs`. `ListsInv` (`InOneList`, and the list of a timer that is not
recurring is the one its `slot` names) gives `ListsHoldArmed` and
`FiresOnlyArmed` under the assumption that no recurring timer is deleted, without
which they are false (a recurring timer in `Deletable`, see 6). `AgeInv` bounds a timer's age from
below by the distance of its list from the cursor, which a clock that is set back
only relaxes; it needs that no interval
reaches a revolution, without which `NeverEarly` is false (`TimerWheel_early`).
`FiredAtFirstVisit` is `WithinARevolution`, without an assumption about the callers.
`WithinARevolution` alone is not inductive: what makes the bound hold is where
the list is. `VisitInv` says that the ticks a timer has waited and the ticks until the
cursor comes to its list are together one revolution at most.

`HookedIOProofs`. `WakeInv` says that a fiber in the queue is named by no context
of the `Event` object, and that one that is named is about to wait or waits, is
not in the queue and waits for that event; with `TypeOK` (the queue holds a fiber
at most once) it is inductive and gives `WokenWhileWaiting`, for any number of
threads and users. As long as `shared` is false (`ApartInv`) `UserInv` and `RegInv`
hold as well: there is one user, so one event at most is registered, and `epoll_ctl` and
`task->event` differ only while the lock is held or the user is between
`epoll_ctl` and the lock. `WaitIsRegistered` and `EpollInStep` follow, for
any number of threads and fibers; once a connection is shared the first is false: the
registrations of a reader and of a writer on two threads interfere.

`NoEdgeIsLost` and `TimeoutStaysAhead` are `NoLostWakeup` and `TimeoutAhead` for one
thread (`OneThread`) and for users of which no two wait for the same direction
(`OneEach`; nothing is assumed if connections are not shared). With two
threads the first is false (`HookedIO_edge`) and so is the second (see 6); two readers of
one connection hang because `addEvent` returns when the bit is there. The invariant is
`Alone`. `TurnInv` says that at most one fiber or callback is at work; by it the
steps of `addEvent` are interleaved with the kernel's only. `UseInv` and `KnownInv` tie
the users to the contexts of the `Event` object, `WatchInv` what the object knows to the epoll
set: between `epoll_ctl` and the unlock, what remains of it. After `cancelEvent` the
epoll set has a bit too many (the mask of its `EPOLL_CTL_MOD` is computed before
the bit is cleared), so the two are equal only in whether they are empty, which is
what the next `epoll_ctl` depends on. `EdgeInv` is then inductive: what is ready
and registered has an edge, or is in the hands of the thread; `TimeInv` says the same of
time-outs.

`ConnectionsProofs`. `TypeCorrect` (the bound of connections accepted after `stop()`
included), `OwnNumbers` and `TablesFollowKernel` are for a handler that closes once
(`~Twice`, as `HttpServer::handleClient` does; `TcpServer::handleClient` does not) and
one accept loop (`OneLoop`: `start()` is called once, as in `main`), without which the
second and the third are false (see 6). `IInv` ties the three tables together by
the fiber that uses a number: each fiber's place in the code says what `file`, `ctx` and `event` have
at its number (`UsesOwn`), each number in `file` is used by its fiber or just accepted
(`FilesUsed`, `FreshUnused`), and what is in `ctx` and `event` has a user. The steps of
`close` are what it must survive: between `del` and `close_f` the number is in
`file` only, after `close_f` it may be given away at once. `ConnectionsAssumption`
says that `None` is neither a socket nor one of the records it is told from. Each
number in the epoll set is that of a fiber between `epoll_ctl` and the end of its wait
(`WatchedUsed`), so that a report that is handled after its number was closed finds nobody.

`WakeupsProofs`, without further assumptions. `PlaceInv` and `JobInv` say where a
task is: with a thread from `Take` until it is released, else in the queue, and a job that
is asleep has its timer armed or its callback in one of these places. `Conserving`
(`WorkConserving`) rests on `QueueNoticed`: if the queue is not empty, the
eventfd has been written or some actor is at a step from which it looks at the queue or
notifies. A thread that may not take the task at the head passes the notification on, which
is the step where a lost wake-up would be.

`NothingLeft` is `LeavesNothing`: when all threads have left, no timer is armed and every job
is done or waits for an event without a time-out. No such thing is true of a single thread
that leaves: what it has read may be out of date by then. `LastAgrees` is what makes it true
of all: whenever every thread is in `stopping()` or has left, there is one (the last to
begin) whose reads still hold, since only a thread that is in neither place can change what
they are about, `Main` included once `mStopping` is set. When the last has left, that one has
read an empty queue, no active thread and no timer; no thread can be between `Take` and
`CountActive` any more, and `mTimerCnt` bounds the timers that are armed or will be deleted,
a part of `TypeOK` (but for one between the two steps of `delTimer`, `Deleting`).

`HttpStreamProofs`. Its theorems need no more than `HttpAssumption`; the conditions on the
client are in the properties themselves. `IInv` has `ends`, where in the
stream each request ends (`Placed`), under an existential quantifier: the code has no such
variable, and every property follows from where in which request the parser is.
`Parsing` says that within a request the parser has consumed all of it from its
beginning, in the state and with the `content_length` of that place (`Spot`), and, if the
client does not send ahead, which strings and how much of the body are in the
`HttpRequest` (`Filled`). `Single` says that such a client has one request under way,
`Uncut` that no chunk of a client with `split = FALSE` ends within a string, `Counted` that
answers do not outnumber the requests read. `WholeRequests` (`RequestIsWhole`) takes all of these: also if a client sends
ahead, in which case what follows a request in the buffer is thrown away, no
request is answered before its last piece was read, or twice.
`ImplementsRequestReply` maps each step to a step of `RequestReply` or a stutter and
gives `RepliesInOrder`; the initial state is mapped to an initial one.

`LoggerProofs`. `Base` says that only the holder of `mLock` is in `init` (`Turns`) and that
the indexes of `init` are inside of the pattern (`Indexes`); it gives `TypeCorrect` for
patterns of any tokens whatever. `LinesOfWholePatterns` (`LinesAreWhole`) is for patterns whose
tokens are among those that `logger.h:63-73` describes (`AllDocumented`; the default pattern
and those of the run are such), any number of them and of any length. Its invariant is
`Wholes`: a thread in `init` works on an appender without items, each other
appender has the items of its whole pattern, and if the pattern is `Clear`, `init` has
written what the first `k` tokens mean and stands where the next one begins
(`Between`), in it (`AtConversion`), or before the second percent sign of `%%`, which it
looks at once more (`AtPercent`). `FlattenSeq` is a recursive function: what
it does to a pattern is proved in the lemmas before (`BeforeGrows`, `InText`) from a least
counterexample, since the induction theorems of the library cannot be used.

Checked by TLC only. Liveness: `EveryJobSettles`, `ShutdownCompletes`,
`EveryTimerFires`, `TrafficResumes`, `EveryRequestAnswered`, `EveryConnectionAccepted`,
`EveryEndCloses`, `StopTakesEffect`, `EveryTaskTaken`, `TimersFire`, `ShutdownNoticed`,
`LockIsFreed`; fairness and ENABLED are beyond the prover. Every other property
of a passing run is stated by a theorem.

## 6. Disagreements between the code and its documents

PROJECT.json quotes the lines; in short:

- `Scheduler_race`: `Fiber::yield` publishes HOLD before the context is saved.
- `TimerWheel_early`: rounds are counted down in one visit.
- `HookedIO_edge`: an event that arrives between `epoll_ctl` and the
  registration of the fiber is dropped by another thread. If more events come, the
  wait ends with the next one (`TrafficResumes`). But often none comes: a peer that has
  sent its request waits for the answer, after a FIN nothing follows, and a client in the
  backlog of a quiet server is the last for a while. Then the request is not answered, the
  connection is never closed and keeps its number, the client is not accepted, or an accept loop
  does not notice `stop()`. `main.cpp` has four threads; the liveness properties of
  `HttpStream` and `Connections` exclude exactly this (`missed`).
- `HookedIO_late`: a callback after the end of its wait ends another one.

The models also have these behaviours, which no run singles out. They contradict
no sentence of the repository, or are near a boundary nobody has documented.

Scheduler and timers:

- `addTask` accepts `threadNum == mThreads.size()`, a task no thread will take.
- A thread leaves while another has just taken a task, since `mTasks.erase` comes before
  `++mActiveCnt` and `stopping()` reads both without the mutex. What the task adds is for
  the threads that are left; a job it pins to one that has left is never taken, and the other
  threads never end (`Orphan`, in `Scheduler` and `Wakeups`).
- A slot computed before the lock makes a timer up to a tick or more late
  (`WithinARevolution` bounds it).
- `tick` moves a recurring timer to another list and leaves its `slot`
  (`timer.cpp:77`), so that `delTimer` does not find it: with a recurring timer in
  `Deletable`, `OnlyArmedFires` fails.
- A timer of `sleep` is never deleted, so `mTimerCnt` stays above zero and `stopping()`
  is never true again (`IOManager.cpp:163`): the threads of an `IOManager` in which a
  fiber has slept never end. `ShutdownNoticed` is about executions in which the
  counter is zero. The timer that goes off while the wait it belongs to is still
  parked is counted until the fiber calls `delTimer`, which is what keeps the
  threads from leaving under it (`TypeOK`, `LeavesNothing`).
- A task that queues itself again and again keeps the threads from sleeping:
  `epoll_wait`, if it is called at all, returns within the same millisecond, `waitTime`
  does not shrink, and `tick` is not called: timers do not go off (`TimersFire` has
  the condition that some thread waits).
- `waitTime` is measured by the clock that may be set back, too; `Wakeups` has a
  clock that is not, `TimerWheel` one that is.

Hooked calls and connections:

- The registrations of a reader and a writer on one descriptor
  interfere on two threads (`Registered` and `InStep` are about connections with one
  user).
- With two threads a time-out that comes before the registration of its wait is
  lost (`TimeoutAhead`, which holds on one thread).
- With `Twice`, the second close of a connection may hit another one that has got
  the number (`OwnConnection` fails); with a second member of `Acceptors`, a loop
  started after `stop()` and before the first has ended waits on a number the first
  one closes (`TablesFollow` fails); with a single thread an accept loop that has run
  out of numbers keeps it (`EveryEndCloses` fails).

HTTP:

- What a peer sends ahead is thrown away with the parser.
- Of a path, a header name or a header value that a chunk cuts, only the last part
  is kept (`request_path` and the header callbacks assign); `RepliesInOrder` is for
  clients whose strings no chunk cuts, bodies may be cut (`RequestIsWhole`).

Logger:

- The second `%` of `%%` is looked at again: `%%m` writes a percent sign and the message
  (`logger.cpp:167`), where `logger.h:69` has a percent sign only. A conversion
  whose name has more than one letter (`%ml`) writes nothing, without an error. A
  brace after any conversion is taken as its format. `Clear` excludes the three.
- The buffer of `strftime` has 64 bytes; what is written for a longer date is
  indeterminate (`logger.cpp:110`), and the model does not expand dates.

The hazards in PROJECT.json say which properties meet which of these.

## 7. Not modelled

Modelled, in the order of importance for the whole: the scheduler, the timers, the
hooked calls on the event loop, the HTTP connection, the life of descriptors, the
sleep and wake-up of the threads with the shutdown, the logger.

Left out:

- `ctxResize` moves `mEvents` while other threads read it without the lock
  (`IOManager.cpp:92`): a data race on a `std::vector`, after which anything may
  happen. The objects of different descriptors share nothing else. `mCtxs` of
  `FdManager` grows under its lock.
- The chunked coding, upgrades and error paths of the vendored `http_parser`;
  `HttpResponseParser` (no user); the formatting of messages (`HttpResponse::toString`
  writes what the servlets set, and `HttpStream` has the result as one unit).
- The address arithmetic of `Address`: nothing in the program calls it.
- The context switch and stack allocation of `Fiber`: what they do is an action,
  how they do it is assembly.
- Opening and writing of log files; the mutex inside an appender, which only the
  holder of `Logger::mLock` takes.
- `ByteArray` (empty), the condition variable (no user), `main` and the list of include
  files in `config.h`.
