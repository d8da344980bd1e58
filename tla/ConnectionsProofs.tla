-------------------------- MODULE ConnectionsProofs --------------------------
(***************************************************************************)
(* Proofs about Connections: as long as the server has one accept loop and *)
(* handleClient closes once, a descriptor number belongs to the fiber that *)
(* uses it, and the tables of the program follow the kernel's.             *)
(***************************************************************************)
EXTENDS Connections, FiniteSetTheorems, TLAPS

\* start() has been called once, or not yet.
OneLoop == \A a, b \in Acceptors : a = b

Closing == {"get", "delEvent", "del", "close_f"}

\* The types, but for the bound of `late`.
Kinds ==
  /\ file \in [Numbers -> Sockets \cup {None}]
  /\ nonblock \subseteq Sockets /\ backlog \subseteq Conns
  /\ input \in [Conns -> {"none", "data", "eof"}]
  /\ ctx \in [Numbers -> {"none", "socket", "other"}]
  /\ event \in [Numbers -> Fibers \cup {None}]
  /\ watched \subseteq Numbers /\ edge \subseteq watched /\ missed \subseteq watched
  /\ told \in [Numbers -> Nat]
  /\ mIsStop \in BOOLEAN
  /\ pc \in [Fibers -> Label] /\ fd \in [Fibers -> Numbers]
  /\ hooked \in [Fibers -> BOOLEAN] /\ closes \in [Fibers -> 0 .. 2]
  /\ fresh \in [Acceptors -> [conn : Conns, num : Numbers] \cup {None}]

\* A fiber uses the number of its own socket, and what it has registered and
\* recorded there is what its place in the code says.
UsesOwn(f, s) ==
  /\ pc[f] \in Serving \cup Closing \cup {"test", "ctx"} => file[fd[f]] = s
  /\ pc[f] \in Serving \cup {"test", "ctx"} => ctx[fd[f]] = "socket" /\ s \in nonblock
  /\ pc[f] = "close_f" => ctx[fd[f]] = "none"
  /\ pc[f] \in Closing => closes[f] = 1
  /\ pc[f] = "wait" => event[fd[f]] = f
  /\ pc[f] \in {"set", "wait"} => fd[f] \in watched

\* A connection fiber is never in the accept loop.
ConnUses ==
  \A c \in Conns : UsesOwn(c, c) /\ pc[c] \notin {"test", "ctx"}

ListenUses ==
  /\ \A a \in Acceptors :
       /\ UsesOwn(a, Lis) /\ fd[a] = LisFd
       /\ pc[a] = "idle" =>
            file[LisFd] = Lis /\ ctx[LisFd] = "socket" /\ Lis \in nonblock
  /\ \A n \in Numbers : file[n] = Lis => n = LisFd

\* What accept has returned and nobody uses yet.
FreshUnused ==
  \A a \in Acceptors :
    /\ pc[a] = "ctx" => fresh[a] # None
    /\ fresh[a] # None =>
         /\ pc[a] = "ctx" /\ pc[fresh[a].conn] = "idle"
         /\ file[fresh[a].num] = fresh[a].conn
         /\ ctx[fresh[a].num] = "none" /\ event[fresh[a].num] = None

\* The number of a connection is its fiber's, or just accepted.
FilesUsed ==
  \A n \in Numbers : file[n] \in Conns =>
    \/ pc[file[n]] \in Serving \cup Closing /\ fd[file[n]] = n
    \/ \E a \in Acceptors : fresh[a] = [conn |-> file[n], num |-> n]

\* Who waits in the backlog has no number and no fiber.
BacklogUnused ==
  \A c \in backlog : pc[c] = "idle" /\ \A n \in Numbers : file[n] # c

\* Only a fiber that waits is registered, and only at its number.
EventsWaited ==
  \A n \in Numbers : event[n] # None =>
    pc[event[n]] = "wait" /\ fd[event[n]] = n

\* Only a number some fiber registers itself at, or waits at, is watched.
WatchedUsed ==
  \A n \in watched : \E f \in Fibers : pc[f] \in {"set", "wait"} /\ fd[f] = n

FreeClean ==
  \A n \in Numbers : file[n] = None => ctx[n] = "none" /\ event[n] = None

\* The accept loop that accepted a connection after stop() tests mIsStop next.
LateOnce ==
  \/ late = 0
  \/ /\ late = 1 /\ mIsStop
     /\ \A a \in Acceptors : pc[a] \in Closing \cup {"ctx", "test", "done"}

IInv ==
  /\ Kinds /\ ConnUses /\ ListenUses /\ FreshUnused /\ FilesUsed
  /\ BacklogUnused /\ EventsWaited /\ WatchedUsed /\ FreeClean
  /\ LateOnce
-----------------------------------------------------------------------------
\* What accept returns is something.
LEMMA NotNone ==
  \A c \in Conns, n \in Numbers : [conn |-> c, num |-> n] # None
BY ConnectionsAssumption

\* A fiber goes on in its code and nothing else changes: none of the steps
\* that open, close, register or record a number.
LEMMA FiberMoves ==
  ASSUME IInv, NEW f \in Fibers, NEW l \in (Serving \ {"set", "wait"}) \cup Closing \cup {"test"},
         pc[f] \in (Serving \ {"set", "wait"}) \cup Closing \cup {"test"},
         Goto(f, l),
         f \in Conns => l # "test",
         l \notin Closing => pc[f] \notin Closing,
         l = "close_f" => ctx[fd[f]] = "none",
         l \in Closing => closes'[f] = 1,
         \A g \in Fibers \ {f} : closes'[g] = closes[g],
         UNCHANGED <<file, ctx, event, watched, nonblock, backlog, fd, fresh>>,
         Kinds', LateOnce'
  PROVE  IInv'
<1> USE ConnectionsAssumption DEF IInv, Goto, Serving, Closing, Fibers, Kinds
<1>1. ConnUses'
  <2> SUFFICES ASSUME NEW c \in Conns
               PROVE  UsesOwn(c, c)' /\ pc'[c] \notin {"test", "ctx"}
    BY DEF ConnUses
  <2> QED  BY DEF ConnUses, UsesOwn
<1>2. ListenUses'
  BY DEF ListenUses, UsesOwn
<1>3. FreshUnused'
  BY DEF FreshUnused
<1>4. FilesUsed'
  <2> SUFFICES ASSUME NEW n \in Numbers, file[n] \in Conns
               PROVE  \/ pc'[file[n]] \in Serving \cup Closing /\ fd[file[n]] = n
                      \/ \E a \in Acceptors : fresh[a] = [conn |-> file[n], num |-> n]
    BY DEF FilesUsed
  <2>1. CASE pc[file[n]] \in Serving \cup Closing /\ fd[file[n]] = n
    BY <2>1
  <2>2. CASE \E a \in Acceptors : fresh[a] = [conn |-> file[n], num |-> n]
    BY <2>2
  <2> QED  BY <2>1, <2>2 DEF FilesUsed
<1>5. BacklogUnused'
  BY DEF BacklogUnused
<1>6. EventsWaited'
  <2> SUFFICES ASSUME NEW n \in Numbers, event'[n] # None
               PROVE  pc'[event'[n]] = "wait" /\ fd'[event'[n]] = n
    BY DEF EventsWaited
  <2>1. event[n] # None /\ event[n] \in Fibers
    OBVIOUS
  <2>2. pc[event[n]] = "wait" /\ fd[event[n]] = n
    BY <2>1 DEF EventsWaited
  <2> QED  BY <2>1, <2>2
<1>7. FreeClean'
  BY DEF FreeClean
<1>8. WatchedUsed'
  <2> SUFFICES ASSUME NEW n \in watched
               PROVE  \E g \in Fibers : pc'[g] \in {"set", "wait"} /\ fd[g] = n
    BY DEF WatchedUsed
  <2>1. PICK g \in Fibers : pc[g] \in {"set", "wait"} /\ fd[g] = n
    BY DEF WatchedUsed
  <2> QED  BY <2>1
<1> QED  BY <1>1, <1>2, <1>3, <1>4, <1>5, <1>6, <1>7, <1>8

LEMMA ResumeStep ==
  ASSUME IInv, OneLoop, NEW f \in Fibers, Resume(f)
  PROVE  IInv'
<1> DEFINE l == CASE pc[f] = "ready" -> "try"
                  [] f \in Acceptors -> "test"
                  [] OTHER           -> "call"
<1>1. Goto(f, l) /\ pc[f] \in {"queued", "ready"} /\ l \in {"try", "test", "call"}
  BY DEF Resume
<1>2. f \in Conns => l # "test"
  BY ConnectionsAssumption
<1>3. Kinds'
  BY <1>1 DEF IInv, Kinds, Resume, Goto, Label, kernel, epoll, tables, locals
<1>4. LateOnce'
  BY <1>1 DEF IInv, LateOnce, Kinds, OneLoop, Resume, Goto, Closing, locals
<1> HIDE DEF l
<1> QED
  BY <1>1, <1>2, <1>3, <1>4, FiberMoves
  DEF Resume, Serving, Closing, kernel, epoll, tables, locals, IInv

LEMMA CallStep ==
  ASSUME IInv, OneLoop, NEW f \in Fibers, Call(f)
  PROVE  IInv'
<1>1. Kinds'
  BY DEF IInv, Kinds, Call, Goto, Label, kernel, epoll, tables
<1>2. LateOnce'
  BY DEF IInv, LateOnce, Kinds, OneLoop, Call, Goto, Closing
<1> QED
  BY <1>1, <1>2, FiberMoves DEF Call, Serving, Closing, kernel, epoll, tables

LEMMA AcceptTestStep ==
  ASSUME IInv, OneLoop, NEW a \in Acceptors, AcceptTest(a)
  PROVE  IInv'
<1> USE ConnectionsAssumption DEF IInv, AcceptTest, Fibers, Closing
<1>1. Kinds'
  BY DEF Kinds, Close, Goto, Label, kernel, epoll, tables
<1>2. LateOnce'
  BY DEF LateOnce, Kinds, OneLoop, Close, Goto
<1>3. CASE mIsStop
  BY <1>1, <1>2, <1>3, FiberMoves DEF Kinds, Close, Serving, kernel, epoll, tables
<1>4. CASE ~ mIsStop
  BY <1>1, <1>2, <1>4, FiberMoves DEF Serving, kernel, epoll, tables
<1> QED  BY <1>3, <1>4

\* With one loop there is no such step while the listening socket is open but
\* for want of a number.
LEMMA AcceptFailsStep ==
  ASSUME IInv, OneLoop, NEW a \in Acceptors, AcceptFails(a)
  PROVE  IInv'
<1> USE ConnectionsAssumption DEF IInv, AcceptFails, Fibers, Closing
<1>1. Kinds'
  BY DEF Kinds, Goto, Label, kernel, epoll, tables, locals
<1>2. LateOnce'
  BY DEF LateOnce, Kinds, OneLoop, Goto
<1> QED
  BY <1>1, <1>2, FiberMoves DEF Serving, kernel, epoll, tables, locals

LEMMA RecvStep ==
  ASSUME IInv, ~ Twice, NEW c \in Conns, RecvData(c) \/ ServeEnds(c) \/ RecvEnd(c) \/ RecvFails(c)
  PROVE  IInv'
<1> USE ConnectionsAssumption DEF IInv, Fibers, Closing, Serving, kernel, epoll, tables, locals
<1>1. Kinds'
  BY DEF Kinds, RecvData, ServeEnds, RecvEnd, RecvFails, Close, Goto, Label
<1>2. LateOnce'
  BY DEF LateOnce, Kinds, RecvData, ServeEnds, RecvEnd, RecvFails, Close, Goto
<1>3. CASE RecvData(c)
  BY <1>1, <1>2, <1>3, FiberMoves DEF RecvData
<1>4. CASE RecvEnd(c)
  BY <1>1, <1>2, <1>4, FiberMoves DEF RecvEnd, Close, Kinds
<1>5. CASE RecvFails(c)
  BY <1>1, <1>2, <1>5, FiberMoves DEF RecvFails, Close, Kinds
<1>6. CASE ServeEnds(c)
  BY <1>1, <1>2, <1>6, FiberMoves DEF ServeEnds, Close, Kinds
<1> QED  BY <1>3, <1>4, <1>5, <1>6

LEMMA CloseGetStep ==
  ASSUME IInv, NEW f \in Fibers, CloseGet(f)
  PROVE  IInv'
<1> USE DEF IInv, CloseGet, Closing, kernel, epoll, tables, locals
<1>1. Kinds'
  BY DEF Kinds, Goto, Label
<1>2. LateOnce'
  BY DEF LateOnce, Kinds, Goto
<1>3. closes[f] = 1
  BY DEF ConnUses, ListenUses, UsesOwn, Fibers
<1>4. CASE ctx[fd[f]] # "none"
  BY <1>1, <1>2, <1>3, <1>4, FiberMoves DEF Serving
<1>5. CASE ctx[fd[f]] = "none"
  BY <1>1, <1>2, <1>3, <1>5, FiberMoves DEF Serving
<1> QED  BY <1>4, <1>5

-----------------------------------------------------------------------------
\* The callers of start and stop, and the peers.

LEMMA StartStep ==
  ASSUME IInv, OneLoop, NEW a \in Acceptors, start(a)
  PROVE  IInv'
<1> USE ConnectionsAssumption
    DEF IInv, start, Goto, Serving, Closing, Fibers, Kinds, kernel, epoll, tables, locals
<1>1. Kinds'
  BY DEF Label
<1>2. ConnUses'
  <2> SUFFICES ASSUME NEW c \in Conns
               PROVE  UsesOwn(c, c)' /\ pc'[c] \notin {"test", "ctx"}
    BY DEF ConnUses
  <2> QED  BY DEF ConnUses, UsesOwn
<1>3. ListenUses'
  BY DEF ListenUses, UsesOwn
<1>4. FreshUnused'
  BY DEF FreshUnused
<1>5. FilesUsed'
  BY DEF FilesUsed
<1>6. BacklogUnused'
  BY DEF BacklogUnused
<1>7. EventsWaited'
  <2> SUFFICES ASSUME NEW n \in Numbers, event'[n] # None
               PROVE  pc'[event'[n]] = "wait" /\ fd'[event'[n]] = n
    BY DEF EventsWaited
  <2>1. event[n] \in Fibers /\ pc[event[n]] = "wait" /\ fd[event[n]] = n
    BY DEF EventsWaited
  <2> QED  BY <2>1
<1>8. FreeClean'
  BY DEF FreeClean
<1>9. LateOnce'
  BY DEF LateOnce, OneLoop
<1>10. WatchedUsed'
  <2> SUFFICES ASSUME NEW n \in watched
               PROVE  \E g \in Fibers : pc'[g] \in {"set", "wait"} /\ fd[g] = n
    BY DEF WatchedUsed
  <2>1. PICK g \in Fibers : pc[g] \in {"set", "wait"} /\ fd[g] = n
    BY DEF WatchedUsed
  <2> QED  BY <2>1
<1> QED  BY <1>1, <1>2, <1>3, <1>4, <1>5, <1>6, <1>7, <1>8, <1>9, <1>10

\* stop, what a peer does once its connection has arrived, and what an idle
\* fiber does when nobody is woken.
LEMMA OutsideStep ==
  ASSUME IInv,
         \/ stop
         \/ \E c \in Conns : PeerSends(c) \/ PeerCloses(c)
         \/ \E n \in Numbers : epoll_wait(n) \/ NoEvent(n)
  PROVE  IInv'
<1> USE DEF IInv, stop, epoll_wait, NoEvent, PeerSends, PeerCloses, Edge, kernel, epoll, tables, locals
<1>1. Kinds'
  <2>1. CASE stop
    BY <2>1 DEF Kinds
  <2>2. ASSUME NEW c \in Conns, PeerSends(c) PROVE Kinds'
    BY <2>2, ConnectionsAssumption DEF Kinds
  <2>3. ASSUME NEW c \in Conns, PeerCloses(c) PROVE Kinds'
    BY <2>3 DEF Kinds
  <2>4. ASSUME NEW n \in Numbers, epoll_wait(n) PROVE Kinds'
    BY <2>4 DEF Kinds
  <2>5. ASSUME NEW n \in Numbers, NoEvent(n) PROVE Kinds'
    BY <2>5 DEF Kinds
  <2> QED  BY <2>1, <2>2, <2>3, <2>4, <2>5
<1>2. UNCHANGED <<file, nonblock, backlog, ctx, event, watched, pc, fd, closes, fresh>>
  OBVIOUS
<1>3. ConnUses' /\ ListenUses'
  BY <1>2 DEF ConnUses, ListenUses, UsesOwn
<1>4. FreshUnused' /\ FilesUsed' /\ BacklogUnused'
  BY <1>2 DEF FreshUnused, FilesUsed, BacklogUnused
<1>5. EventsWaited' /\ FreeClean'
  BY <1>2 DEF EventsWaited, FreeClean
<1>6. LateOnce'
  BY <1>2 DEF LateOnce
<1>7. WatchedUsed'
  BY <1>2 DEF WatchedUsed
<1> QED  BY <1>1, <1>3, <1>4, <1>5, <1>6, <1>7

LEMMA ConnectStep ==
  ASSUME IInv, NEW c \in Conns, Connect(c)
  PROVE  IInv'
<1> USE DEF IInv, Connect, Edge, tables, locals
<1>1. Kinds'
  BY DEF Kinds
<1>2. BacklogUnused'
  <2>1. pc[c] = "idle" /\ \A a \in Acceptors : fresh[a] # None => fresh[a].conn # c
    BY DEF Arrived
  <2>2. ASSUME NEW n \in Numbers, file[n] = c PROVE FALSE
    <3>1. \A a \in Acceptors : fresh[a] # [conn |-> c, num |-> n]
      BY <2>1, NotNone
    <3> QED  BY <2>1, <2>2, <3>1 DEF FilesUsed, Serving, Closing
  <2> QED  BY <2>1, <2>2 DEF BacklogUnused
<1>3. ConnUses' /\ ListenUses' /\ FreshUnused' /\ FilesUsed'
  BY DEF ConnUses, ListenUses, UsesOwn, FreshUnused, FilesUsed
<1>4. EventsWaited' /\ WatchedUsed' /\ FreeClean' /\ LateOnce'
  BY DEF EventsWaited, WatchedUsed, FreeClean, LateOnce
<1> QED  BY <1>1, <1>2, <1>3, <1>4

-----------------------------------------------------------------------------
\* The steps that wait and wake.

\* The socket of a fiber.
Own(f) == IF f \in Conns THEN f ELSE Lis

LEMMA OwnFile ==
  ASSUME IInv, NEW f \in Fibers, pc[f] \notin {"idle", "done"}
  PROVE  file[fd[f]] = Own(f) /\ fd[f] \in Numbers
<1>1. pc[f] \in Serving \cup Closing \cup {"test", "ctx"} /\ fd[f] \in Numbers
  BY DEF IInv, Kinds, Label, Serving, Closing
<1> QED
  BY <1>1 DEF IInv, ConnUses, ListenUses, UsesOwn, Own, Fibers

\* Two fibers do not use the same number.
LEMMA OwnNumber ==
  ASSUME IInv, OneLoop, NEW f \in Fibers, NEW g \in Fibers,
         pc[f] \notin {"idle", "done"}, pc[g] \notin {"idle", "done"}, fd[f] = fd[g]
  PROVE  f = g
<1>1. Own(f) = Own(g)
  BY OwnFile
<1> QED
  BY <1>1, ConnectionsAssumption DEF Own, OneLoop, Fibers

\* Nothing is registered at the number of a fiber that goes on.
LEMMA NotRegistered ==
  ASSUME IInv, OneLoop, NEW f \in Fibers, pc[f] \notin {"idle", "done", "wait"}
  PROVE  event[fd[f]] = None
<1> SUFFICES ASSUME event[fd[f]] # None PROVE FALSE
  OBVIOUS
<1> DEFINE g == event[fd[f]]
<1>1. g \in Fibers /\ pc[g] = "wait" /\ fd[g] = fd[f]
  BY DEF IInv, EventsWaited, Kinds
<1>2. f = g
  BY <1>1, OwnNumber
<1> QED  BY <1>1, <1>2

LEMMA NotWatched ==
  ASSUME IInv, OneLoop, NEW f \in Fibers, pc[f] \notin {"idle", "done", "set", "wait"}
  PROVE  fd[f] \notin watched
<1> SUFFICES ASSUME fd[f] \in watched PROVE FALSE
  OBVIOUS
<1>1. PICK g \in Fibers : pc[g] \in {"set", "wait"} /\ fd[g] = fd[f]
  BY DEF IInv, WatchedUsed
<1>2. f = g
  BY <1>1, OwnNumber
<1> QED  BY <1>1, <1>2

LEMMA WaitStep ==
  ASSUME IInv, OneLoop, NEW f \in Fibers, Wait(f)
  PROVE  IInv'
<1> USE ConnectionsAssumption DEF IInv, Wait, kernel, epoll, tables, locals
<1>1. pc[f] = "try" /\ event[fd[f]] = None /\ Goto(f, "ctl")
  BY NotRegistered
<1>2. Kinds'
  BY <1>1 DEF Kinds, Goto, Label
<1>3. LateOnce'
  BY <1>1 DEF LateOnce, Kinds, OneLoop, Goto, Closing
<1> QED  BY <1>1, <1>2, <1>3, FiberMoves DEF Serving, Closing

\* A fiber goes from one step of its wait to the next; its number is watched
\* then, and registered when it waits.
LEMMA FiberWaits ==
  ASSUME IInv, OneLoop, NEW f \in Fibers,
         NEW l \in {"set", "wait"}, pc[f] \in {"ctl", "set"}, Goto(f, l),
         watched' = watched \cup {fd[f]},
         event' = IF l = "wait" THEN [event EXCEPT ![fd[f]] = f] ELSE event,
         UNCHANGED <<file, ctx, nonblock, backlog, fd, fresh, closes, mIsStop, late>>,
         Kinds'
  PROVE  IInv'
<1> USE ConnectionsAssumption DEF IInv, Goto
<1>1. pc[f] \in Serving /\ file[fd[f]] = Own(f) /\ fd[f] \in Numbers /\ Own(f) \in Sockets
  BY DEF Own, ConnUses, ListenUses, UsesOwn, Serving, Kinds, Fibers, Sockets
<1>2. event'[fd[f]] = (IF l = "wait" THEN f ELSE event[fd[f]]) /\ pc'[f] = l
  BY <1>1 DEF Kinds
<1>3. ASSUME NEW g \in Fibers \ {f}, pc[g] \notin {"idle", "done"}
      PROVE  event'[fd[g]] = event[fd[g]] /\ pc'[g] = pc[g]
  BY <1>1, <1>3, OwnNumber DEF Kinds
<1>4. ConnUses'
  <2> SUFFICES ASSUME NEW c \in Conns
               PROVE  UsesOwn(c, c)' /\ pc'[c] \notin {"test", "ctx"}
    BY DEF ConnUses
  <2>1. CASE c = f
    BY <1>1, <1>2, <2>1 DEF ConnUses, UsesOwn, Serving, Closing, Kinds, Own
  <2>2. CASE c # f
    BY <1>3, <2>2 DEF ConnUses, UsesOwn, Serving, Closing, Kinds, Fibers
  <2> QED  BY <2>1, <2>2
<1>5. ListenUses'
  <2> SUFFICES ASSUME NEW a \in Acceptors
               PROVE  UsesOwn(a, Lis)' /\ (pc'[a] = "idle" => pc[a] = "idle")
    BY DEF ListenUses
  <2>1. CASE a = f
    BY <1>1, <1>2, <2>1 DEF ListenUses, UsesOwn, Serving, Closing, Kinds, Own
  <2>2. CASE a # f
    BY <1>3, <2>2 DEF ListenUses, UsesOwn, Serving, Closing, Kinds, Fibers
  <2> QED  BY <2>1, <2>2
<1>6. FreshUnused'
  BY <1>1 DEF FreshUnused, Kinds, Own, Fibers, Sockets
<1>7. FilesUsed' /\ BacklogUnused'
  BY <1>1 DEF FilesUsed, BacklogUnused, Kinds, Serving, Closing, Fibers
<1>8. EventsWaited'
  <2> SUFFICES ASSUME NEW n \in Numbers, event'[n] # None
               PROVE  pc'[event'[n]] = "wait" /\ fd[event'[n]] = n
    BY DEF EventsWaited
  <2>1. CASE n = fd[f] /\ l = "wait"
    BY <1>1, <1>2, <2>1
  <2>2. CASE ~ (n = fd[f] /\ l = "wait")
    <3>1. event'[n] = event[n] /\ event[n] \in Fibers
      BY <2>2 DEF Kinds
    <3>2. pc[event[n]] = "wait" /\ fd[event[n]] = n
      BY <3>1 DEF EventsWaited
    <3>3. event[n] # f
      BY <3>2
    <3>4. pc'[event[n]] = pc[event[n]]
      BY <3>1, <3>3 DEF Kinds
    <3> QED  BY <3>1, <3>2, <3>4
  <2> QED  BY <2>1, <2>2
<1>9. WatchedUsed'
  <2> SUFFICES ASSUME NEW n \in watched'
               PROVE  \E g \in Fibers : pc'[g] \in {"set", "wait"} /\ fd[g] = n
    BY DEF WatchedUsed
  <2>1. CASE n = fd[f]
    BY <1>2, <2>1
  <2>2. CASE n # fd[f]
    <3>1. PICK g \in Fibers : pc[g] \in {"set", "wait"} /\ fd[g] = n
      BY <2>2 DEF WatchedUsed
    <3> QED  BY <2>2, <3>1, <1>3
  <2> QED  BY <2>1, <2>2
<1>10. FreeClean'
  <2>1. file[fd[f]] # None
    BY <1>1 DEF Sockets, Fibers
  <2> QED  BY <2>1 DEF FreeClean, Kinds
<1>11. LateOnce'
  BY <1>1 DEF LateOnce, Kinds, Closing
<1> QED  BY <1>4, <1>5, <1>6, <1>7, <1>8, <1>9, <1>10, <1>11

LEMMA EpollCtlStep ==
  ASSUME IInv, OneLoop, NEW f \in Fibers, epoll_ctl(f)
  PROVE  IInv'
<1>1. pc[f] = "ctl" /\ fd[f] \in Numbers /\ fd[f] \notin watched
  BY NotWatched DEF epoll_ctl, IInv, Kinds
<1>2. file[fd[f]] # None
  BY <1>1, OwnFile, ConnectionsAssumption DEF Own, Fibers
<1>3. /\ Goto(f, "set") /\ watched' = watched \cup {fd[f]}
      /\ edge' \subseteq edge \cup {fd[f]}
      /\ UNCHANGED <<kernel, told, missed, tables, mIsStop, locals, late>>
  BY <1>1, <1>2 DEF epoll_ctl
<1>4. Kinds'
  BY <1>1, <1>3 DEF IInv, Kinds, Goto, Label, kernel, tables, locals
<1>5. UNCHANGED <<file, ctx, event, nonblock, backlog, fd, fresh, closes, mIsStop, late>>
  BY <1>3 DEF kernel, tables, locals
<1> QED  BY <1>1, <1>3, <1>4, <1>5, FiberWaits

LEMMA SetEventStep ==
  ASSUME IInv, OneLoop, NEW f \in Fibers, SetEvent(f)
  PROVE  IInv'
<1>1. pc[f] = "set" /\ fd[f] \in watched /\ fd[f] \in Numbers
  BY DEF SetEvent, IInv, Kinds, ConnUses, ListenUses, UsesOwn, Fibers
<1>2. /\ Goto(f, "wait") /\ event' = [event EXCEPT ![fd[f]] = f]
      /\ UNCHANGED <<kernel, epoll, ctx, mIsStop, locals, late>>
  BY DEF SetEvent
<1>3. Kinds'
  BY <1>1, <1>2 DEF IInv, Kinds, Goto, Label, kernel, epoll, locals
<1>4. /\ UNCHANGED <<file, ctx, nonblock, backlog, fd, fresh, closes, mIsStop, late>>
      /\ watched' = watched \cup {fd[f]}
  BY <1>1, <1>2 DEF kernel, epoll, locals
<1> QED  BY <1>1, <1>2, <1>3, <1>4, FiberWaits

\* What epoll reports, however late: the fiber is the one that waits there.
LEMMA TriggerStep ==
  ASSUME IInv, OneLoop, NEW n \in Numbers, triggerEvent(n)
  PROVE  IInv'
<1> USE ConnectionsAssumption DEF IInv, triggerEvent, Goto, kernel, locals
<1> DEFINE f == event[n]
<1>0. f \in Fibers /\ pc[f] = "wait" /\ fd[f] = n
  BY DEF EventsWaited, Kinds
<1>1. Kinds'
  BY <1>0 DEF Kinds, Label
<1>2. pc' = [pc EXCEPT ![f] = "ready"] /\ watched' = watched \ {n}
  OBVIOUS
<1>3. ASSUME NEW g \in Fibers \ {f}, pc[g] \notin {"idle", "done"}
      PROVE  event'[fd[g]] = event[fd[g]] /\ pc'[g] = pc[g] /\ fd[g] # n
  BY <1>0, <1>2, <1>3, OwnNumber DEF Kinds
<1> HIDE DEF f
<1>4. ConnUses'
  <2> SUFFICES ASSUME NEW c \in Conns
               PROVE  UsesOwn(c, c)' /\ pc'[c] \notin {"test", "ctx"}
    BY DEF ConnUses
  <2>1. CASE c = f
    BY <1>0, <1>2, <2>1 DEF ConnUses, UsesOwn, Serving, Closing, Kinds
  <2>2. CASE c # f
    BY <1>0, <1>2, <1>3, <2>2 DEF ConnUses, UsesOwn, Serving, Closing, Kinds, Fibers
  <2> QED  BY <2>1, <2>2
<1>5. ListenUses'
  <2> SUFFICES ASSUME NEW a \in Acceptors
               PROVE  UsesOwn(a, Lis)' /\ (pc'[a] = "idle" => pc[a] = "idle")
    BY DEF ListenUses
  <2>1. CASE a = f
    BY <1>0, <1>2, <2>1 DEF ListenUses, UsesOwn, Serving, Closing, Kinds
  <2>2. CASE a # f
    BY <1>0, <1>2, <1>3, <2>2 DEF ListenUses, UsesOwn, Serving, Closing, Kinds, Fibers
  <2> QED  BY <2>1, <2>2
<1>6. FreshUnused'
  BY <1>0, <1>2 DEF FreshUnused, Kinds
<1>7. FilesUsed' /\ BacklogUnused'
  BY <1>0, <1>2 DEF FilesUsed, BacklogUnused, Kinds, Serving, Closing, Fibers
<1>8. EventsWaited'
  <2> SUFFICES ASSUME NEW m \in Numbers, event'[m] # None
               PROVE  pc'[event'[m]] = "wait" /\ fd[event'[m]] = m
    BY DEF EventsWaited
  <2>1. m # n /\ event'[m] = event[m] /\ event[m] \in Fibers
    BY DEF Kinds
  <2>2. fd[event[m]] = m /\ pc[event[m]] = "wait"
    BY <2>1 DEF EventsWaited
  <2>3. pc'[event[m]] = pc[event[m]]
    BY <1>0, <1>2, <2>1, <2>2 DEF Kinds
  <2> QED  BY <2>1, <2>2, <2>3
<1>9. WatchedUsed'
  <2> SUFFICES ASSUME NEW m \in watched \ {n}
               PROVE  \E g \in Fibers : pc'[g] \in {"set", "wait"} /\ fd[g] = m
    BY <1>2 DEF WatchedUsed
  <2>1. PICK g \in Fibers : pc[g] \in {"set", "wait"} /\ fd[g] = m
    BY DEF WatchedUsed
  <2>2. pc'[g] = pc[g]
    BY <1>0, <1>2, <2>1 DEF Kinds
  <2> QED  BY <2>1, <2>2
<1>10. FreeClean'
  BY DEF FreeClean, Kinds
<1>11. LateOnce'
  BY <1>0, <1>2 DEF LateOnce, Kinds, Closing
<1> QED  BY <1>1, <1>4, <1>5, <1>6, <1>7, <1>8, <1>9, <1>10, <1>11

-----------------------------------------------------------------------------
\* The steps of accept.

LEMMA AcceptStep ==
  ASSUME IInv, OneLoop, NEW a \in Acceptors, accept_f(a)
  PROVE  IInv'
<1> USE ConnectionsAssumption DEF IInv, epoll, tables
<1> PICK c \in backlog, n \in Free :
      /\ file' = [file EXCEPT ![n] = c] /\ backlog' = backlog \ {c}
      /\ fresh' = [fresh EXCEPT ![a] = [conn |-> c, num |-> n]]
  BY DEF accept_f
<1>1. /\ pc[a] = "try" /\ pc' = [pc EXCEPT ![a] = "ctx"]
      /\ late' = IF mIsStop THEN late + 1 ELSE 0
      /\ UNCHANGED <<nonblock, input, watched, edge, told, missed, ctx, event,
                     mIsStop, fd, hooked, closes>>
  BY DEF accept_f, Goto
<1>2. /\ n \in Numbers /\ file[n] = None /\ ctx[n] = "none" /\ event[n] = None
      /\ c \in Conns /\ pc[c] = "idle" /\ \A m \in Numbers : file[m] # c
      /\ a \in Fibers /\ c # a
  BY DEF Free, FreeClean, BacklogUnused, Kinds, Fibers
<1>3. Kinds'
  BY <1>1, <1>2 DEF Kinds, Label, Sockets, Fibers
<1>4. ConnUses'
  <2> SUFFICES ASSUME NEW d \in Conns
               PROVE  UsesOwn(d, d)' /\ pc'[d] \notin {"test", "ctx"}
    BY DEF ConnUses
  <2> QED  BY <1>1, <1>2 DEF ConnUses, UsesOwn, Kinds, Serving, Closing, Fibers
<1>5. ListenUses'
  BY <1>1, <1>2 DEF ListenUses, UsesOwn, OneLoop, Kinds, Serving, Closing, Fibers
<1>6. FreshUnused'
  BY <1>1, <1>2 DEF FreshUnused, OneLoop, Kinds
<1>7. FilesUsed'
  <2> SUFFICES ASSUME NEW m \in Numbers, file'[m] \in Conns
               PROVE  \/ pc'[file'[m]] \in Serving \cup Closing /\ fd[file'[m]] = m
                      \/ \E b \in Acceptors : fresh'[b] = [conn |-> file'[m], num |-> m]
    BY <1>1 DEF FilesUsed
  <2>1. CASE m = n
    BY <1>2, <2>1 DEF Kinds
  <2>2. CASE m # n
    <3>1. fresh[a] = None
      BY <1>1 DEF FreshUnused
    <3>2. file'[m] = file[m] /\ file[m] \in Conns
      BY <1>2, <2>2 DEF Kinds
    <3>3. \A b \in Acceptors : fresh[b] # [conn |-> file[m], num |-> m]
      BY <3>1, <3>2, NotNone DEF OneLoop
    <3>4. pc[file[m]] \in Serving \cup Closing /\ fd[file[m]] = m
      BY <3>2, <3>3 DEF FilesUsed
    <3> QED  BY <1>1, <3>2, <3>4 DEF Kinds, Serving, Closing, Fibers
  <2> QED  BY <2>1, <2>2
<1>8. BacklogUnused'
  BY <1>1, <1>2 DEF BacklogUnused, Kinds
<1>9. EventsWaited' /\ FreeClean'
  BY <1>1, <1>2 DEF EventsWaited, FreeClean, Kinds
<1>10. LateOnce'
  <2>1. late = 0
    BY <1>1 DEF LateOnce, Closing
  <2> QED  BY <1>1, <1>2, <2>1 DEF LateOnce, OneLoop, Kinds
<1>11. WatchedUsed'
  BY <1>1 DEF WatchedUsed, Kinds
<1> QED  BY <1>3, <1>4, <1>5, <1>6, <1>7, <1>8, <1>9, <1>10, <1>11

LEMMA AcceptCtxStep ==
  ASSUME IInv, OneLoop, NEW a \in Acceptors, AcceptCtx(a)
  PROVE  IInv'
<1> USE ConnectionsAssumption DEF IInv, AcceptCtx, epoll
<1> DEFINE n == fresh[a].num  c == fresh[a].conn
<1>1. /\ n \in Numbers /\ c \in Conns /\ c # a /\ a \in Fibers /\ c \in Fibers
      /\ fresh[a] = [conn |-> c, num |-> n]
      /\ file[n] = c /\ ctx[n] = "none" /\ event[n] = None /\ pc[c] = "idle"
  BY DEF FreshUnused, Kinds, Fibers
<1>2. ctx' = [ctx EXCEPT ![n] = "socket"] /\ nonblock' = nonblock \cup {c}
  BY <1>1 DEF get, IsSocket
<1>3. /\ pc' = [pc EXCEPT ![a] = "test", ![c] = "queued"] /\ fd' = [fd EXCEPT ![c] = n]
      /\ fresh' = [fresh EXCEPT ![a] = None]
      /\ UNCHANGED <<file, input, backlog, watched, edge, told, missed, event, mIsStop,
                     hooked, closes, late>>
      /\ pc[a] = "ctx"
  OBVIOUS
<1> HIDE DEF n, c, AcceptCtx
<1>4. Kinds'
  BY <1>1, <1>2, <1>3 DEF Kinds, Label, Sockets
<1>5. ConnUses'
  <2> SUFFICES ASSUME NEW d \in Conns
               PROVE  UsesOwn(d, d)' /\ pc'[d] \notin {"test", "ctx"}
    BY DEF ConnUses
  <2>1. CASE d = c
    BY <1>1, <1>2, <1>3, <2>1 DEF UsesOwn, Kinds, Serving, Closing
  <2>2. CASE d # c
    BY <1>1, <1>2, <1>3, <2>2 DEF ConnUses, UsesOwn, Kinds, Serving, Closing, Fibers
  <2> QED  BY <2>1, <2>2
<1>6. ListenUses'
  BY <1>1, <1>2, <1>3 DEF ListenUses, UsesOwn, Kinds, Serving, Closing, Fibers
<1>7. FreshUnused'
  BY <1>1, <1>2, <1>3 DEF FreshUnused, OneLoop, Kinds
<1>8. FilesUsed'
  BY <1>1, <1>3 DEF FilesUsed, OneLoop, Kinds, Serving, Closing, Fibers
<1>9. BacklogUnused'
  <2>1. c \notin backlog /\ a \notin backlog
    BY <1>1 DEF BacklogUnused, Kinds
  <2> QED  BY <1>1, <1>3, <2>1 DEF BacklogUnused, Kinds, Fibers
<1>10. EventsWaited' /\ FreeClean'
  BY <1>1, <1>2, <1>3 DEF EventsWaited, FreeClean, Kinds
<1>11. LateOnce'
  BY <1>1, <1>3 DEF LateOnce, OneLoop, Closing, Kinds
<1>12. WatchedUsed'
  <2> SUFFICES ASSUME NEW m \in watched
               PROVE  \E g \in Fibers : pc'[g] \in {"set", "wait"} /\ fd'[g] = m
    BY <1>3 DEF WatchedUsed
  <2>1. PICK g \in Fibers : pc[g] \in {"set", "wait"} /\ fd[g] = m
    BY DEF WatchedUsed
  <2>2. g # a /\ g # c
    BY <1>1, <1>3, <2>1
  <2> QED  BY <1>1, <1>3, <2>1, <2>2 DEF Kinds
<1> QED  BY <1>4, <1>5, <1>6, <1>7, <1>8, <1>9, <1>10, <1>11, <1>12

-----------------------------------------------------------------------------
\* The steps of close.

LEMMA delEventStep ==
  ASSUME IInv, OneLoop, NEW f \in Fibers, delEvent(f)
  PROVE  IInv'
<1> USE ConnectionsAssumption DEF IInv, delEvent, Closing, kernel, epoll, locals
<1>1. UNCHANGED <<epoll, event>>
  BY NotRegistered DEF Kinds
<1>2. Kinds'
  BY <1>1 DEF Kinds, Goto, Label
<1>3. LateOnce'
  BY DEF LateOnce, Kinds, Goto
<1>4. closes[f] = 1
  BY DEF ConnUses, ListenUses, UsesOwn, Fibers
<1> QED  BY <1>1, <1>2, <1>3, <1>4, FiberMoves DEF Serving

LEMMA delStep ==
  ASSUME IInv, OneLoop, NEW f \in Fibers, del(f)
  PROVE  IInv'
<1> USE ConnectionsAssumption DEF IInv, del, Goto, kernel, epoll, locals
<1>1. pc[f] = "del" /\ fd[f] \in Numbers /\ file[fd[f]] = Own(f) /\ closes[f] = 1
  BY DEF Own, ConnUses, ListenUses, UsesOwn, Closing, Kinds, Fibers
<1>2. Kinds'
  BY <1>1 DEF Kinds, Label
<1>3. ASSUME NEW g \in Fibers \ {f}, pc[g] \notin {"idle", "done"}
      PROVE  ctx'[fd[g]] = ctx[fd[g]] /\ pc'[g] = pc[g]
  BY <1>1, <1>3, OwnNumber DEF Kinds
<1>4. ConnUses'
  <2> SUFFICES ASSUME NEW c \in Conns
               PROVE  UsesOwn(c, c)' /\ pc'[c] \notin {"test", "ctx"}
    BY DEF ConnUses
  <2>1. CASE c = f
    BY <1>1, <2>1 DEF UsesOwn, Serving, Closing, Kinds, Own
  <2>2. CASE c # f
    BY <1>3, <2>2 DEF ConnUses, UsesOwn, Serving, Closing, Kinds, Fibers
  <2> QED  BY <2>1, <2>2
<1>5. ListenUses'
  <2> SUFFICES ASSUME NEW a \in Acceptors
               PROVE  /\ UsesOwn(a, Lis)'
                      /\ pc'[a] = "idle" => ctx'[LisFd] = "socket" /\ pc[a] = "idle"
    BY DEF ListenUses
  <2>1. CASE a = f
    BY <1>1, <2>1 DEF ListenUses, UsesOwn, Serving, Closing, Kinds, Own
  <2>2. CASE a # f
    <3>1. f \in Conns
      BY <2>2 DEF OneLoop, Fibers
    <3>2. pc[a] = "idle" => fd[f] # LisFd
      BY <1>1, <3>1 DEF ListenUses, Own
    <3> QED
      BY <1>1, <1>3, <2>2, <3>1, <3>2
      DEF ListenUses, UsesOwn, Serving, Closing, Kinds, Fibers
  <2> QED  BY <2>1, <2>2
<1>6. FreshUnused'
  BY <1>1 DEF FreshUnused, Kinds
<1>7. FilesUsed' /\ BacklogUnused'
  BY <1>1 DEF FilesUsed, BacklogUnused, Kinds, Serving, Closing, Fibers
<1>8. EventsWaited' /\ FreeClean'
  <2>1. EventsWaited'
    BY DEF EventsWaited
  <2>2. ASSUME NEW n \in Numbers, file[n] = None PROVE ctx'[n] = "none"
    BY <2>2 DEF FreeClean, Kinds
  <2> QED  BY <2>1, <2>2 DEF FreeClean
<1>9. LateOnce'
  BY <1>1 DEF LateOnce, Kinds, Closing
<1>10. WatchedUsed'
  BY <1>1 DEF WatchedUsed, Kinds
<1> QED  BY <1>2, <1>4, <1>5, <1>6, <1>7, <1>8, <1>9, <1>10

LEMMA CloseStepEnd ==
  ASSUME IInv, OneLoop, NEW f \in Fibers, close_f(f)
  PROVE  IInv'
<1> USE ConnectionsAssumption DEF IInv
<1>1. /\ pc[f] = "close_f" /\ fd[f] \in Numbers /\ file[fd[f]] = Own(f)
      /\ closes[f] = 1 /\ ctx[fd[f]] = "none" /\ Own(f) \in Sockets
  BY DEF close_f, Own, ConnUses, ListenUses, UsesOwn, Closing, Kinds, Fibers, Sockets
<1>2. event[fd[f]] = None
  BY <1>1, NotRegistered
<1>3. /\ file' = [file EXCEPT ![fd[f]] = None] /\ pc' = [pc EXCEPT ![f] = "done"]
      /\ backlog' \subseteq backlog /\ closes' = [closes EXCEPT ![f] = 0]
      /\ input' = [c \in Conns |-> IF file[fd[f]] = c THEN "none" ELSE input[c]]
      /\ watched' = watched \ {fd[f]} /\ edge' = edge \ {fd[f]}
      /\ missed' = missed \ {fd[f]}
      /\ UNCHANGED <<nonblock, told, ctx, event, mIsStop, fd, hooked, fresh, late>>
  <2>1. /\ closes' = [closes EXCEPT ![f] = 0] /\ pc' = [pc EXCEPT ![f] = "done"]
        /\ backlog' \subseteq backlog
    BY <1>1 DEF close_f, Goto
  <2> QED  BY <2>1 DEF close_f, Unwatch, tables
<1>4. Kinds'
  <2>1. file' \in [Numbers -> Sockets \cup {None}] /\ backlog' \subseteq Conns
    BY <1>3 DEF Kinds
  <2>2. input' \in [Conns -> {"none", "data", "eof"}]
    BY <1>3 DEF Kinds
  <2>3. watched' \subseteq Numbers /\ edge' \subseteq watched' /\ missed' \subseteq watched'
    BY <1>3 DEF Kinds
  <2>4. pc' \in [Fibers -> Label] /\ closes' \in [Fibers -> 0 .. 2]
    BY <1>3 DEF Kinds, Label
  <2> QED  BY <1>3, <2>1, <2>2, <2>3, <2>4 DEF Kinds
<1>5. ASSUME NEW g \in Fibers \ {f}, pc[g] \notin {"idle", "done"}
      PROVE  /\ file'[fd[g]] = file[fd[g]] /\ pc'[g] = pc[g] /\ closes'[g] = closes[g]
             /\ fd[g] # fd[f]
  BY <1>1, <1>3, <1>5, OwnNumber DEF Kinds
<1>6. ConnUses'
  <2> SUFFICES ASSUME NEW c \in Conns
               PROVE  UsesOwn(c, c)' /\ pc'[c] \notin {"test", "ctx"}
    BY DEF ConnUses
  <2>1. CASE c = f
    BY <1>1, <1>3, <2>1 DEF UsesOwn, Serving, Closing, Kinds
  <2>2. CASE c # f
    BY <1>3, <1>5, <2>2 DEF ConnUses, UsesOwn, Serving, Closing, Kinds, Fibers
  <2> QED  BY <2>1, <2>2
<1>7. ListenUses'
  <2> SUFFICES ASSUME NEW a \in Acceptors
               PROVE  /\ UsesOwn(a, Lis)'
                      /\ pc'[a] = "idle" => file'[LisFd] = Lis /\ pc[a] = "idle"
    BY <1>3 DEF ListenUses, Kinds
  <2>1. CASE a = f
    BY <1>1, <1>3, <2>1 DEF UsesOwn, Serving, Closing, Kinds
  <2>2. CASE a # f
    <3>1. f \in Conns
      BY <2>2 DEF OneLoop, Fibers
    <3>2. pc[a] = "idle" => fd[f] # LisFd
      BY <1>1, <3>1 DEF ListenUses, Own
    <3> QED
      BY <1>1, <1>3, <1>5, <2>2, <3>1, <3>2
      DEF ListenUses, UsesOwn, Serving, Closing, Kinds, Fibers
  <2> QED  BY <2>1, <2>2
<1>8. FreshUnused'
  <2> SUFFICES ASSUME NEW a \in Acceptors, fresh[a] # None
               PROVE  /\ pc'[a] = "ctx" /\ pc'[fresh[a].conn] = "idle"
                      /\ file'[fresh[a].num] = fresh[a].conn
    BY <1>1, <1>3 DEF FreshUnused, Kinds
  <2>1. fresh[a].num # fd[f]
    BY <1>1 DEF FreshUnused, Own, Kinds, Fibers
  <2> QED  BY <1>1, <1>3, <2>1 DEF FreshUnused, Kinds
<1>9. FilesUsed'
  BY <1>1, <1>3 DEF FilesUsed, Kinds, Serving, Closing, Fibers
<1>10. BacklogUnused'
  BY <1>1, <1>3 DEF BacklogUnused, Kinds, Fibers
<1>11. EventsWaited' /\ FreeClean'
  BY <1>1, <1>2, <1>3 DEF EventsWaited, FreeClean, Kinds
<1>12. LateOnce'
  BY <1>1, <1>3 DEF LateOnce, Kinds, Closing
<1>13. WatchedUsed'
  <2> SUFFICES ASSUME NEW m \in watched
               PROVE  \E g \in Fibers : pc'[g] \in {"set", "wait"} /\ fd[g] = m
    BY <1>3 DEF WatchedUsed
  <2>1. PICK g \in Fibers : pc[g] \in {"set", "wait"} /\ fd[g] = m
    BY DEF WatchedUsed
  <2>2. pc'[g] = pc[g]
    BY <1>1, <1>3, <2>1 DEF Kinds
  <2> QED  BY <2>1, <2>2
<1> QED  BY <1>4, <1>6, <1>7, <1>8, <1>9, <1>10, <1>11, <1>12, <1>13

-----------------------------------------------------------------------------
LEMMA InitIInv ==
  ASSUME Init
  PROVE  IInv
<1> USE ConnectionsAssumption DEF Init
<1>1. Kinds
  BY DEF Kinds, Label, Fibers, Sockets
<1>2. ConnUses /\ ListenUses
  BY DEF ConnUses, ListenUses, UsesOwn, Serving, Closing, Fibers, Sockets
<1>3. FreshUnused /\ FilesUsed /\ BacklogUnused
  BY DEF FreshUnused, FilesUsed, BacklogUnused, Fibers
<1>4. EventsWaited /\ WatchedUsed /\ FreeClean /\ LateOnce
  BY DEF EventsWaited, WatchedUsed, FreeClean, LateOnce, Fibers, Sockets
<1> QED  BY <1>1, <1>2, <1>3, <1>4 DEF IInv

LEMMA NextIInv ==
  ASSUME OneLoop, ~ Twice, IInv, [Next]_vars
  PROVE  IInv'
<1>1. ASSUME NEW f \in Fibers, Resume(f) PROVE IInv'
  BY <1>1, ResumeStep
<1>2. ASSUME NEW f \in Fibers, Run(f) PROVE IInv'
  <2>1. CASE Call(f)
    BY <2>1, CallStep
  <2>2. CASE CloseStep(f)
    BY <2>2, CloseGetStep, delEventStep, delStep, CloseStepEnd DEF CloseStep
  <2>5. CASE epoll_ctl(f) \/ SetEvent(f)
    BY <2>5, EpollCtlStep, SetEventStep
  <2>3. CASE f \in Acceptors /\ Accept(f)
    BY <2>3, AcceptTestStep, AcceptStep, AcceptCtxStep, AcceptFailsStep, WaitStep
    DEF Accept, AcceptWait, Fibers
  <2>4. CASE f \in Conns /\ Recv(f)
    BY <2>4, RecvStep, WaitStep DEF Recv, RecvWait, Fibers
  <2> QED  BY <1>2, <2>1, <2>2, <2>3, <2>4, <2>5 DEF Run
<1>3. ASSUME NEW n \in Numbers, epoll_wait(n) \/ triggerEvent(n) \/ NoEvent(n)
      PROVE  IInv'
  BY <1>3, TriggerStep, OutsideStep
<1>4. ASSUME NEW a \in Acceptors, start(a) PROVE IInv'
  BY <1>4, StartStep
<1>5. ASSUME stop PROVE IInv'
  BY <1>5, OutsideStep
<1>6. ASSUME NEW c \in Conns, Connect(c) \/ PeerSends(c) \/ PeerCloses(c) PROVE IInv'
  BY <1>6, ConnectStep, OutsideStep
<1>7. CASE UNCHANGED vars
  <2> USE <1>7 DEF vars, kernel, epoll, tables, locals, IInv
  <2>1. Kinds' /\ ConnUses' /\ ListenUses'
    BY DEF Kinds, ConnUses, ListenUses, UsesOwn
  <2>2. FreshUnused' /\ FilesUsed' /\ BacklogUnused'
    BY DEF FreshUnused, FilesUsed, BacklogUnused
  <2>3. EventsWaited' /\ WatchedUsed' /\ FreeClean' /\ LateOnce'
    BY DEF EventsWaited, WatchedUsed, FreeClean, LateOnce
  <2> QED  BY <2>1, <2>2, <2>3
<1> QED  BY <1>1, <1>2, <1>3, <1>4, <1>5, <1>6, <1>7 DEF Next

LEMMA Inductive == OneLoop /\ ~ Twice => (Spec => []IInv)
<1>1. Init => IInv
  BY InitIInv
<1>2. OneLoop /\ ~ Twice => (IInv /\ [Next]_vars => IInv')
  BY NextIInv
<1>3. SUFFICES ASSUME OneLoop, ~ Twice PROVE Spec => []IInv
  OBVIOUS
<1>4. IInv /\ [Next]_vars => IInv'
  BY <1>2, <1>3
<1> QED  BY <1>1, <1>4, PTL DEF Spec

-----------------------------------------------------------------------------
\* Every variable keeps its kind, and after stop() the accept loop accepts at
\* most one more connection (tcp_server.cpp:33-52).
THEOREM TypeCorrect ==
  ASSUME OneLoop, ~ Twice
  PROVE  Spec => []TypeOK
<1>1. IInv => TypeOK
  BY DEF IInv, Kinds, LateOnce, TypeOK
<1> QED  BY <1>1, Inductive, PTL

\* No fiber reads from, waits for or closes the connection of another, though
\* the kernel gives numbers away again as soon as they are free.
THEOREM OwnNumbers ==
  ASSUME OneLoop, ~ Twice
  PROVE  Spec => []OwnConnection
<1>1. IInv => OwnConnection
  BY DEF IInv, ConnUses, UsesOwn, Kinds, Label, OwnConnection, Serving, Closing, Fibers
<1> QED  BY <1>1, Inductive, PTL

\* The FdManager has the socket of every fiber that is served, and no number
\* the kernel may give away is left in mCtxs or in mEvents.
THEOREM TablesFollowKernel ==
  ASSUME OneLoop, ~ Twice
  PROVE  Spec => []TablesFollow
<1>1. IInv => TablesFollow
  BY DEF IInv, ConnUses, UsesOwn, FreeClean, Free, TablesFollow
<1> QED  BY <1>1, Inductive, PTL
=============================================================================
