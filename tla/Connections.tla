---------------------------- MODULE Connections ----------------------------
(***************************************************************************)
(* The life of descriptors: TcpServer's accept loop and connection fibers, *)
(* the FdManager, the hooked accept and close, and the kernel's table of   *)
(* descriptors, whose numbers are used again.                              *)
(*                                                                         *)
(* A fiber keeps its thread until it waits or ends; a thread without one   *)
(* runs its idle fiber.  epoll is told of a wait before the wait is        *)
(* registered, and what an idle fiber is told in between is lost.          *)
(* HttpStream is about what a connection fiber does with the data,         *)
(* HookedIO about waits with a time-out.                                   *)
(***************************************************************************)
EXTENDS Naturals, FiniteSets, Functions

CONSTANTS
  ConnCnt,      \* bound: connections peers make
  Acceptors,    \* the fibers of handleAccept: one per call of start()
  Numbers,      \* the descriptor numbers of the process
  LisFd,        \* the number of the listening socket mLisSock
  Lis,          \* the listening socket
  None,
  ThreadCnt,
  Twice,        \* TcpServer::handleClient closes twice at the end, HttpServer once
  Talkers       \* bound: connections whose peer sends messages before it closes

\* The connections, in the order in which they arrive.
Conns   == 1 .. ConnCnt
Fibers  == Conns \cup Acceptors
Sockets == Conns \cup {Lis}

ASSUME ConnectionsAssumption ==
  /\ ConnCnt \in Nat /\ IsFiniteSet(Acceptors)
  /\ Conns \cap Acceptors = {}
  /\ Lis \notin Fibers /\ None \notin Fibers \cup {Lis} \cup Numbers
  /\ None \notin [conn : Conns, num : Numbers]
  /\ Numbers \subseteq Nat /\ LisFd \in Numbers
  /\ ThreadCnt \in Nat \ {0} /\ Twice \in BOOLEAN /\ Talkers \subseteq Conns

VARIABLES
  \* the kernel
  file,      \* [Numbers -> Sockets or None]
  nonblock,  \* the sockets with O_NONBLOCK
  input,     \* [Conns -> {"none", "data", "eof"}]: what recv would return
  backlog,   \* connections nobody has accepted yet
  watched,   \* the numbers in the epoll set
  edge,      \* those of them about which epoll has something to say
  \* the program
  ctx,       \* [Numbers -> {"none", "socket", "other"}]: mCtxs
  event,     \* [Numbers -> the fiber of mEvents[fd], or None]
  told,      \* [Numbers -> idle fibers that epoll_wait has told of the number]
  mIsStop,
  pc,        \* [Fibers -> Label]
  fd,        \* [Fibers -> Numbers]: mSockfd of the Socket the fiber uses
  hooked,    \* [Fibers -> BOOLEAN]: ctx of the present io_func is a socket's
  fresh,     \* [Acceptors -> what accept has returned, or None]
  closes,    \* [Fibers -> calls of close to come]
  late,      \* history: connections accepted since stop()
  missed     \* history: numbers about which an idle fiber dropped what it was
             \* told, and has been told nothing since

kernel == <<file, nonblock, input, backlog>>
epoll  == <<watched, edge, told, missed>>
tables == <<ctx, event>>
locals == <<fd, hooked, fresh, closes>>
vars   == <<kernel, epoll, tables, mIsStop, pc, locals, late>>

\* "get" to "close_f" are the steps of the hooked close.
Label == {"idle", "queued", "test", "call", "try", "ctl", "set", "wait", "ready",
          "ctx", "get", "delEvent", "del", "close_f", "done"}

\* The fibers that have a thread.
Running == {f \in Fibers : pc[f] \notin {"idle", "queued", "wait", "ready", "done"}}

\* A thread runs neither such a fiber nor an idle fiber that was told something.
Spare == Cardinality(Running) + FoldFunction(+, 0, told) < ThreadCnt

Goto(f, l) == pc' = [pc EXCEPT ![f] = l]

\* Socket::close is called n times from now on.
Close(f, n) == Goto(f, "get") /\ closes' = [closes EXCEPT ![f] = n]
-----------------------------------------------------------------------------
\* The scheduler: a fiber that is queued, or was woken, gets a thread.
Resume(f) ==
  /\ pc[f] \in {"queued", "ready"} /\ Spare
  /\ Goto(f, CASE pc[f] = "ready"  -> "try"
               [] f \in Acceptors  -> "test"
               [] OTHER            -> "call")
  /\ UNCHANGED <<kernel, epoll, tables, mIsStop, locals, late>>

\* io_func asks the FdManager once, before it tries.
Call(f) ==
  /\ pc[f] = "call"
  /\ hooked' = [hooked EXCEPT ![f] = ctx[fd[f]] = "socket"]
  /\ Goto(f, "try")
  /\ UNCHANGED <<kernel, epoll, tables, mIsStop, fd, fresh, closes, late>>

\* The call would block: addEvent.  It does nothing if the bit of the number
\* is set.  A blocking socket blocks the thread instead: then there is no step.
Wait(f) ==
  /\ pc[f] = "try" /\ hooked[f] /\ file[fd[f]] \in nonblock
  /\ Goto(f, IF event[fd[f]] = None THEN "ctl" ELSE "wait")
  /\ UNCHANGED <<kernel, epoll, tables, mIsStop, locals, late>>

\* accept or recv of the number would not block.
Ready(n) ==
  \/ file[n] = Lis /\ backlog # {}
  \/ file[n] \in Conns /\ input[file[n]] # "none"

\* epoll is told, and has something to say at once if the number is ready.
\* It refuses a number that is closed, or that it watches already.
epoll_ctl(f) ==
  /\ pc[f] = "ctl"
  /\ LET n == fd[f] IN
     IF file[n] = None \/ n \in watched
     THEN Goto(f, "wait") /\ UNCHANGED <<watched, edge>>
     ELSE /\ Goto(f, "set") /\ watched' = watched \cup {n}
          /\ edge' = IF Ready(n) THEN edge \cup {n} ELSE edge
  /\ UNCHANGED <<kernel, told, missed, tables, mIsStop, locals, late>>

\* The rest of addEvent, and yield.
SetEvent(f) ==
  /\ pc[f] = "set"
  /\ event' = [event EXCEPT ![fd[f]] = f] /\ Goto(f, "wait")
  /\ UNCHANGED <<kernel, epoll, ctx, mIsStop, locals, late>>

\* An idle fiber: epoll_wait returns the number, ...
epoll_wait(n) ==
  /\ Spare /\ n \in edge /\ Ready(n)
  /\ told' = [told EXCEPT ![n] = @ + 1] /\ edge' = edge \ {n}
  /\ UNCHANGED <<kernel, watched, missed, tables, mIsStop, pc, locals, late>>

\* ... whose fiber is queued, ...
triggerEvent(n) ==
  /\ told[n] > 0 /\ told' = [told EXCEPT ![n] = @ - 1]
  /\ event[n] # None /\ n \in watched
  /\ watched' = watched \ {n} /\ edge' = edge \ {n} /\ missed' = missed \ {n}
  /\ event' = [event EXCEPT ![n] = None] /\ Goto(event[n], "ready")
  /\ UNCHANGED <<kernel, ctx, mIsStop, locals, late>>

\* ... or nobody, if no wait is registered (yet), or EPOLL_CTL_DEL fails.
NoEvent(n) ==
  /\ told[n] > 0 /\ told' = [told EXCEPT ![n] = @ - 1]
  /\ event[n] = None \/ n \notin watched
  /\ missed' = missed \cup ({n} \cap watched)
  /\ UNCHANGED <<kernel, watched, edge, tables, mIsStop, pc, locals, late>>

\* The number is not in the epoll set any more.
Unwatch(n) ==
  /\ watched' = watched \ {n} /\ edge' = edge \ {n} /\ missed' = missed \ {n}
  /\ UNCHANGED told

\* Something arrives for a socket.
Edge(s) ==
  LET ns == {n \in watched : file[n] = s} IN
  /\ edge' = edge \cup ns /\ missed' = missed \ ns
  /\ UNCHANGED <<watched, told>>
-----------------------------------------------------------------------------
\* handleAccept.

AcceptTest_Ignores(a) ==
  /\ pc[a] = "test" /\ Goto(a, "call")
  /\ UNCHANGED <<kernel, epoll, tables, mIsStop, locals, late>>

AcceptTest(a) ==
  /\ pc[a] = "test"
  /\ IF mIsStop THEN Close(a, 1) ELSE Goto(a, "call") /\ UNCHANGED closes
  /\ UNCHANGED <<kernel, epoll, tables, mIsStop, fd, hooked, fresh, late>>

Free == {n \in Numbers : file[n] = None}

\* The kernel hands out the oldest connection, with the lowest number.
accept_f(a) ==
  /\ pc[a] = "try" /\ file[fd[a]] = Lis
  /\ \E c \in backlog, n \in Free :
       /\ \A d \in backlog : c <= d
       /\ \A m \in Free : n <= m
       /\ file' = [file EXCEPT ![n] = c] /\ backlog' = backlog \ {c}
       /\ fresh' = [fresh EXCEPT ![a] = [conn |-> c, num |-> n]]
  /\ late' = IF mIsStop THEN late + 1 ELSE 0
  /\ Goto(a, "ctx")
  /\ UNCHANGED <<nonblock, input, epoll, tables, mIsStop, fd, hooked, closes>>

\* FdCtx::init looks at what has the number at that time.
IsSocket(n) == file[n] # None

\* FdManager::get with auto_create: an entry that is there is kept, a new one
\* makes its socket non-blocking.
get(n) ==
  IF ctx[n] # "none" THEN UNCHANGED <<ctx, nonblock>>
  ELSE /\ ctx' = [ctx EXCEPT ![n] = IF IsSocket(n) THEN "socket" ELSE "other"]
       /\ nonblock' = IF IsSocket(n) THEN nonblock \cup {file[n]} ELSE nonblock

\* The hooked accept records the number; then the connection's fiber is queued.
AcceptCtx(a) ==
  /\ pc[a] = "ctx"
  /\ LET n == fresh[a].num  c == fresh[a].conn IN
     /\ get(n)
     /\ pc' = [pc EXCEPT ![a] = "test", ![c] = "queued"]
     /\ fd' = [fd EXCEPT ![c] = n]
  /\ fresh' = [fresh EXCEPT ![a] = None]
  /\ UNCHANGED <<file, input, backlog, epoll, event, mIsStop, hooked, closes, late>>

AcceptWait(a) == file[fd[a]] = Lis /\ backlog = {} /\ Wait(a)

AcceptFails_Returns(a) ==
  /\ pc[a] = "try"
  /\ \/ file[fd[a]] = Lis /\ backlog # {} /\ Free = {}
     \/ file[fd[a]] # Lis
  /\ Goto(a, "done")
  /\ UNCHANGED <<kernel, epoll, tables, mIsStop, locals, late>>

\* EMFILE, EAGAIN of a call that is not hooked, or the number is no longer the
\* listening socket's: accept returns a null pointer and the loop goes on.
AcceptFails(a) ==
  /\ pc[a] = "try"
  /\ \/ file[fd[a]] = Lis /\ backlog # {} /\ Free = {}
     \/ file[fd[a]] # Lis
  /\ Goto(a, "test")
  /\ UNCHANGED <<kernel, epoll, tables, mIsStop, locals, late>>

Accept(a) ==
  \/ AcceptTest(a) \/ accept_f(a) \/ AcceptCtx(a) \/ AcceptWait(a) \/ AcceptFails(a)
-----------------------------------------------------------------------------
\* handleClient.

\* Data: the connection fiber answers it and calls recv again.
RecvData(c) ==
  /\ pc[c] = "try" /\ file[fd[c]] \in Conns /\ input[file[fd[c]]] = "data"
  /\ input' = [input EXCEPT ![file[fd[c]]] = "none"]
  /\ Goto(c, "call")
  /\ UNCHANGED <<file, nonblock, backlog, epoll, tables, mIsStop, locals, late>>

\* HttpServer closes after a request it cannot parse, or that wants no more answers.
ServeEnds(c) ==
  /\ ~ Twice
  /\ pc[c] = "try" /\ file[fd[c]] \in Conns /\ input[file[fd[c]]] = "data"
  /\ input' = [input EXCEPT ![file[fd[c]]] = "none"]
  /\ Close(c, 1)
  /\ UNCHANGED <<file, nonblock, backlog, epoll, tables, mIsStop, fd, hooked, fresh, late>>

RecvEnd_Twice(c) ==
  /\ pc[c] = "try" /\ file[fd[c]] \in Conns /\ input[file[fd[c]]] = "eof"
  /\ Close(c, 2)
  /\ UNCHANGED <<kernel, epoll, tables, mIsStop, fd, hooked, fresh, late>>

RecvEnd_Leaks(c) ==
  /\ pc[c] = "try" /\ file[fd[c]] \in Conns /\ input[file[fd[c]]] = "eof"
  /\ Goto(c, "done")
  /\ UNCHANGED <<kernel, epoll, tables, mIsStop, locals, late>>

RecvEnd(c) ==
  /\ pc[c] = "try" /\ file[fd[c]] \in Conns /\ input[file[fd[c]]] = "eof"
  /\ Close(c, IF Twice THEN 2 ELSE 1)
  /\ UNCHANGED <<kernel, epoll, tables, mIsStop, fd, hooked, fresh, late>>

RecvWait(c) ==
  file[fd[c]] \in Conns /\ input[file[fd[c]]] = "none" /\ Wait(c)

\* EBADF, ENOTCONN, or EAGAIN of a non-blocking socket that is not hooked.
RecvFails(c) ==
  /\ pc[c] = "try"
  /\ \/ file[fd[c]] \notin Conns
     \/ ~ hooked[c] /\ file[fd[c]] \in nonblock /\ input[file[fd[c]]] = "none"
  /\ Close(c, 1)
  /\ UNCHANGED <<kernel, epoll, tables, mIsStop, fd, hooked, fresh, late>>

Recv(c) == RecvData(c) \/ ServeEnds(c) \/ RecvEnd(c) \/ RecvWait(c) \/ RecvFails(c)
-----------------------------------------------------------------------------
\* The hooked close.

CloseGet_NoDel(f) ==
  /\ pc[f] = "get" /\ Goto(f, "close_f")
  /\ UNCHANGED <<kernel, epoll, tables, mIsStop, locals, late>>

CloseGet(f) ==
  /\ pc[f] = "get"
  /\ Goto(f, IF ctx[fd[f]] # "none" THEN "delEvent" ELSE "close_f")
  /\ UNCHANGED <<kernel, epoll, tables, mIsStop, locals, late>>

delEvent(f) ==
  /\ pc[f] = "delEvent"
  /\ IF event[fd[f]] = None THEN UNCHANGED <<epoll, event>>
     ELSE Unwatch(fd[f]) /\ event' = [event EXCEPT ![fd[f]] = None]
  /\ Goto(f, "del")
  /\ UNCHANGED <<kernel, ctx, mIsStop, locals, late>>

del(f) ==
  /\ pc[f] = "del"
  /\ ctx' = [ctx EXCEPT ![fd[f]] = "none"] /\ Goto(f, "close_f")
  /\ UNCHANGED <<kernel, epoll, event, mIsStop, locals, late>>

\* A socket that is closed leaves the epoll set, and what it received is gone.
close_f(f) ==
  /\ pc[f] = "close_f"
  /\ file' = [file EXCEPT ![fd[f]] = None]
  /\ backlog' = IF file[fd[f]] = Lis THEN {} ELSE backlog
  /\ input' = [c \in Conns |-> IF file[fd[f]] = c THEN "none" ELSE input[c]]
  /\ Unwatch(fd[f])
  /\ closes' = [closes EXCEPT ![f] = @ - 1]
  /\ Goto(f, IF closes[f] = 1 THEN "done" ELSE "get")
  /\ UNCHANGED <<nonblock, tables, mIsStop, fd, hooked, fresh, late>>

CloseStep(f) == CloseGet(f) \/ delEvent(f) \/ del(f) \/ close_f(f)
-----------------------------------------------------------------------------
\* start() and stop(), which any thread may call, and the peers.

start(a) ==
  /\ mIsStop /\ pc[a] = "idle"
  /\ mIsStop' = FALSE /\ Goto(a, "queued")
  /\ UNCHANGED <<kernel, epoll, tables, locals, late>>

stop ==
  /\ ~ mIsStop /\ mIsStop' = TRUE /\ late' = 0
  /\ UNCHANGED <<kernel, epoll, tables, pc, locals>>

Open(c) == c \in backlog \/ \E n \in Numbers : file[n] = c

Arrived(c) ==
  \/ pc[c] # "idle" \/ c \in backlog
  \/ \E a \in Acceptors : fresh[a] # None /\ fresh[a].conn = c

Connect(c) ==
  /\ ~ Arrived(c) /\ \A d \in 1 .. c - 1 : Arrived(d)
  /\ input[c] = "none" /\ \E n \in Numbers : file[n] = Lis
  /\ backlog' = backlog \cup {c} /\ Edge(Lis)
  /\ UNCHANGED <<file, nonblock, input, tables, mIsStop, pc, locals, late>>

PeerSends(c) ==
  /\ Open(c) /\ input[c] = "none" /\ c \in Talkers
  /\ input' = [input EXCEPT ![c] = "data"] /\ Edge(c)
  /\ UNCHANGED <<file, nonblock, backlog, tables, mIsStop, pc, locals, late>>

PeerCloses(c) ==
  /\ Open(c) /\ input[c] = "none"
  /\ input' = [input EXCEPT ![c] = "eof"] /\ Edge(c)
  /\ UNCHANGED <<file, nonblock, backlog, tables, mIsStop, pc, locals, late>>
-----------------------------------------------------------------------------
\* fd of a connection fiber is set when it is queued.
Init ==
  /\ file = [n \in Numbers |-> IF n = LisFd THEN Lis ELSE None]
  /\ nonblock = {Lis} /\ backlog = {}
  /\ input = [c \in Conns |-> "none"]
  /\ ctx = [n \in Numbers |-> IF n = LisFd THEN "socket" ELSE "none"]
  /\ event = [n \in Numbers |-> None]
  /\ watched = {} /\ edge = {} /\ missed = {}
  /\ told = [n \in Numbers |-> 0]
  /\ mIsStop = TRUE /\ late = 0
  /\ pc = [f \in Fibers |-> "idle"] /\ fd = [f \in Fibers |-> LisFd]
  /\ hooked = [f \in Fibers |-> FALSE] /\ closes = [f \in Fibers |-> 0]
  /\ fresh = [a \in Acceptors |-> None]

Run(f) ==
  \/ Call(f) \/ epoll_ctl(f) \/ SetEvent(f) \/ CloseStep(f)
  \/ f \in Acceptors /\ Accept(f)
  \/ f \in Conns /\ Recv(f)

Next ==
  \/ \E f \in Fibers : Resume(f) \/ Run(f)
  \/ \E n \in Numbers : epoll_wait(n) \/ triggerEvent(n) \/ NoEvent(n)
  \/ \E a \in Acceptors : start(a)
  \/ stop
  \/ \E c \in Conns : Connect(c) \/ PeerSends(c) \/ PeerCloses(c)

Spec == Init /\ [][Next]_vars

\* A fiber on a thread goes on, the queue is served in turn, a thread that has
\* nothing to do asks epoll, which reports in turn, and the idle fiber goes on.
\* Peers and the callers of start and stop do as they like.
FairSpec ==
  /\ Spec
  /\ \A f \in Fibers : WF_vars(Run(f)) /\ SF_vars(Resume(f))
  /\ \A n \in Numbers :
       SF_vars(epoll_wait(n)) /\ WF_vars(triggerEvent(n) \/ NoEvent(n))
-----------------------------------------------------------------------------
\* Properties.

\* Each variable holds a value of its kind.  After stop() at most one more
\* connection is accepted.
TypeOK ==
  /\ file \in [Numbers -> Sockets \cup {None}]
  /\ nonblock \subseteq Sockets /\ backlog \subseteq Conns
  /\ input \in [Conns -> {"none", "data", "eof"}]
  /\ ctx \in [Numbers -> {"none", "socket", "other"}]
  /\ event \in [Numbers -> Fibers \cup {None}]
  /\ watched \subseteq Numbers /\ edge \subseteq watched /\ missed \subseteq watched
  /\ told \in [Numbers -> Nat]
  /\ mIsStop \in BOOLEAN /\ late \in 0 .. 1
  /\ pc \in [Fibers -> Label] /\ fd \in [Fibers -> Numbers]
  /\ hooked \in [Fibers -> BOOLEAN] /\ closes \in [Fibers -> 0 .. 2]
  /\ fresh \in [Acceptors -> [conn : Conns, num : Numbers] \cup {None}]

Serving == {"queued", "call", "try", "ctl", "set", "wait", "ready"}

\* The number a connection fiber uses is its own connection's until the fiber
\* has closed it, and then nobody's, and who waits is registered at it, here
\* and with epoll, whatever old reports of the number idle fibers still hold:
\* no fiber reads from, waits for or closes the connection of another.
OwnConnection ==
  \A c \in Conns :
    /\ pc[c] \in Serving => file[fd[c]] = c
    /\ pc[c] \notin {"idle", "done"} => file[fd[c]] \in {c, None}
    /\ pc[c] = "wait" => event[fd[c]] = c /\ fd[c] \in watched

\* The FdManager knows the socket of each fiber that is served, and has made
\* it non-blocking, so that no fiber blocks its thread; and a number the
\* kernel can give away has left nothing in the tables.
TablesFollow ==
  /\ \A c \in Conns : pc[c] \in Serving => ctx[fd[c]] = "socket" /\ c \in nonblock
  /\ \A n \in Free : ctx[n] = "none" /\ event[n] = None

\* Every connection is accepted unless the server stops, has no number for it, or
\* has dropped the report of it before the loop was registered (IOManager.cpp
\* 102, 110, 227) and no other comes.
EveryConnectionAccepted ==
  []<>(LisFd \notin missed) =>
    (backlog # {} ~> backlog = {} \/ mIsStop \/ Free = {})

\* When its peer has closed, an accepted connection is closed, and its number
\* is free again, unless the report was dropped in the same way.
EveryEndCloses ==
  \A c \in Conns :
    []<>(fd[c] \notin missed) =>
      (pc[c] # "idle" /\ input[c] = "eof" ~> ~ Open(c))

\* stop() takes effect with the next connection whose report is not dropped:
\* the loop ends.
StopTakesEffect ==
  []<>(LisFd \notin missed) =>
    \A a \in Acceptors :
      mIsStop /\ pc[a] # "idle" /\ backlog # {} ~> pc[a] = "done"
=============================================================================
