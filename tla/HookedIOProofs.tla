--------------------------- MODULE HookedIOProofs ---------------------------
(***************************************************************************)
(* Proofs about HookedIO: types, that a wait is ended once, and, as long   *)
(* as each connection has one user, that every wait is registered.         *)
(***************************************************************************)
EXTENDS HookedIO, FiniteSetTheorems, TLAPS

\* A fiber is queued, or named by the Event object for what it waits for, or
\* neither; both only from addEvent to Resume.
WakeInv ==
  /\ \A f \in Fibers : tasks[f] > 0 =>
       /\ pc[f] \in {"yield", "held"}
       /\ \A e \in Ev : waiter[e] # f
  /\ \A f \in Fibers, e \in Ev : waiter[e] = f =>
       pc[f] \in {"yield", "held"} /\ tasks[f] = 0 /\ dir[f] = e

\* What triggerEvent adds to the queue for one fiber.
Woken(t, f) == {e \in got[t] : waiter[e] = f}

LEMMA WokenOnce ==
  ASSUME TypeOK, WakeInv, NEW t \in Threads, NEW f \in Fibers
  PROVE  \/ Woken(t, f) = {} /\ Cardinality(Woken(t, f)) = 0
         \/ /\ Woken(t, f) = {dir[f]} /\ Cardinality(Woken(t, f)) = 1
            /\ waiter[dir[f]] = f /\ dir[f] \in got[t] /\ tasks[f] = 0
<1>1. Woken(t, f) \subseteq {dir[f]}
  BY DEF Woken, WakeInv, TypeOK
<1>2. CASE Woken(t, f) = {}
  BY <1>2, FS_EmptySet
<1>3. CASE Woken(t, f) # {}
  <2>1. Woken(t, f) = {dir[f]}
    BY <1>1, <1>3
  <2>2. Cardinality({dir[f]}) = 1
    BY FS_Singleton
  <2>3. dir[f] \in got[t] /\ waiter[dir[f]] = f
    BY <2>1 DEF Woken
  <2>4. tasks[f] = 0
    BY <2>3 DEF WakeInv, TypeOK
  <2> QED  BY <2>1, <2>2, <2>3, <2>4
<1> QED  BY <1>2, <1>3

-----------------------------------------------------------------------------
LEMMA InitWake == Init => TypeOK /\ WakeInv
<1> SUFFICES ASSUME Init PROVE TypeOK /\ WakeInv
  OBVIOUS
<1>1. TypeOK
  <2>1. /\ open \in BOOLEAN /\ edge \in BOOLEAN
        /\ ready \subseteq Ev /\ interest \subseteq Ev /\ event \subseteq Ev
        /\ waiter \in [Ev -> Fibers \cup {None}]
        /\ lock \in Threads \cup {None} /\ users \subseteq Fibers
        /\ shared \in BOOLEAN
    BY DEF Init
  <2>2. /\ at \in [Threads -> Place]
        /\ job \in [Threads -> Fibers \cup {None}]
        /\ got \in [Threads -> SUBSET Ev]
    BY DEF Init, Place
  <2>3. /\ pc \in [Fibers -> Label]
        /\ dir \in [Fibers -> Ev]
        /\ mask \in [Fibers -> SUBSET Ev]
        /\ fresh \in [Fibers -> BOOLEAN]
    BY DEF Init, Label, Ev
  <2>4. /\ tasks \in [Fibers -> 0 .. 1]
        /\ timer \in [Fibers -> {"none", "armed", "due", "ran"}]
        /\ stale \in [Fibers -> Ev \cup {None}]
        /\ cancel \in [Fibers -> BOOLEAN]
    BY DEF Init
  <2> QED  BY <2>1, <2>2, <2>3, <2>4 DEF TypeOK
<1>2. WakeInv
  BY HookedAssumption DEF Init, WakeInv
<1> QED  BY <1>1, <1>2

\* The steps of the idle fiber and of the callbacks, but for triggerEvent.
IdleStep(t) ==
  \/ EpollWait(t) \/ HandleNothing(t) \/ HandleEvents(t) \/ Tick(t)
  \/ cancelNothing(t) \/ cancelEvent(t)
  \/ \E f \in Fibers : RunCallback(t, f) \/ RunStale(t, f)

LEMMA IdleType ==
  ASSUME TypeOK, NEW t \in Threads, IdleStep(t)
  PROVE  TypeOK'
<1> USE DEF TypeOK, Free, object, pool, frame, timing, Place
<1>1. CASE EpollWait(t)
  <2>1. /\ at' \in [Threads -> Place] /\ got' \in [Threads -> SUBSET Ev]
        /\ job' = job /\ edge' = FALSE
    BY <1>1 DEF EpollWait
  <2> QED  BY <1>1, <2>1 DEF EpollWait
<1>2. CASE HandleNothing(t)  BY <1>2 DEF HandleNothing, kernel
<1>3. CASE HandleEvents(t)
  <2>1. interest' \subseteq Ev /\ edge' \in BOOLEAN /\ ready' \subseteq Ev
    BY <1>3 DEF HandleEvents, Watch, Unwatch
  <2>2. at' \in [Threads -> Place] /\ lock' = t
    BY <1>3 DEF HandleEvents
  <2> QED  BY <1>3, <2>1, <2>2 DEF HandleEvents
<1>4. CASE Tick(t)  BY <1>4 DEF Tick, kernel
<1>5. CASE cancelNothing(t)  BY <1>5 DEF cancelNothing, kernel
<1>6. CASE cancelEvent(t)  BY <1>6 DEF cancelEvent, Watch, Unwatch
<1>7. ASSUME NEW f \in Fibers, RunCallback(t, f) PROVE TypeOK'
  BY <1>7 DEF RunCallback, kernel
<1>8. ASSUME NEW f \in Fibers, RunStale(t, f) PROVE TypeOK'
  <2>1. stale[f] \in Ev
    BY <1>8 DEF RunStale
  <2> QED  BY <1>8, <2>1 DEF RunStale, kernel
<1> QED  BY <1>1, <1>2, <1>3, <1>4, <1>5, <1>6, <1>7, <1>8 DEF IdleStep

\* The steps of a fiber.
FiberStep(t, f) ==
  InCall(t, f) \/ Start(t, f) \/ Close(t, f) \/ \E e \in Uses[f] : Call(t, f, e)

LEMMA FiberType ==
  ASSUME TypeOK, NEW t \in Threads, NEW f \in Fibers, FiberStep(t, f)
  PROVE  TypeOK'
<1> USE DEF TypeOK, Free, At, Goto, kernel, object, pool, frame, timing, Place,
            Label
<1>1. CASE Succeed(t, f)  BY <1>1 DEF Succeed
<1>2. CASE Block(t, f)  BY <1>2 DEF Block
<1>3. CASE Fail(t, f)  BY <1>3 DEF Fail
<1>4. CASE addTimer(t, f)  BY <1>4 DEF addTimer
<1>5. CASE addEventDup(t, f)  BY <1>5 DEF addEventDup
<1>6. CASE addEventTest(t, f)  BY <1>6 DEF addEventTest
<1>7. CASE addEventFail(t, f)  BY <1>7 DEF addEventFail, Forget
<1>8. CASE addEventCtl(t, f)  BY <1>8 DEF addEventCtl, Forget, Watch
<1>9. CASE addEvent(t, f)  BY <1>9 DEF addEvent
<1>10. CASE yieldToHold(t, f)  BY <1>10 DEF yieldToHold
<1>11. CASE Resume(t, f)  BY <1>11 DEF Resume
<1>12. CASE Return(t, f)  BY <1>12 DEF Return
<1>13. CASE delEvent(t, f)  BY <1>13 DEF delEvent
<1>14. CASE CloseFd(t, f)  BY <1>14 DEF CloseFd, Unwatch
<1>15. CASE Start(t, f)  BY <1>15 DEF Start
<1>16. CASE Close(t, f)  BY <1>16 DEF Close, Unwatch
<1>17. ASSUME NEW e \in Uses[f], Call(t, f, e) PROVE TypeOK'
  <2>1. e \in Ev
    BY <1>17, HookedAssumption
  <2> QED  BY <1>17, <2>1 DEF Call
<1> QED
  BY <1>1, <1>2, <1>3, <1>4, <1>5, <1>6, <1>7, <1>8, <1>9, <1>10, <1>11, <1>12,
     <1>13, <1>14, <1>15, <1>16, <1>17
  DEF FiberStep, InCall, AddEvent

LEMMA TriggerType ==
  ASSUME TypeOK, WakeInv, NEW t \in Threads, triggerEvent(t)
  PROVE  TypeOK'
<1>1. tasks' \in [Fibers -> 0 .. 1]
  <2>1. tasks' = [f \in Fibers |-> tasks[f] + Cardinality(Woken(t, f))]
    BY DEF triggerEvent, Woken
  <2>2. ASSUME NEW f \in Fibers
        PROVE  tasks[f] + Cardinality(Woken(t, f)) \in 0 .. 1
    <3>1. tasks[f] \in 0 .. 1
      BY DEF TypeOK
    <3>2. \/ Cardinality(Woken(t, f)) = 0
          \/ Cardinality(Woken(t, f)) = 1 /\ tasks[f] = 0
      BY WokenOnce
    <3> QED  BY <3>1, <3>2
  <2> QED  BY <2>1, <2>2
<1>2. waiter' \in [Ev -> Fibers \cup {None}]
  BY DEF triggerEvent, TypeOK
<1>3. /\ at' \in [Threads -> Place] /\ job' \in [Threads -> Fibers \cup {None}]
      /\ got' \in [Threads -> SUBSET Ev]
  BY DEF triggerEvent, Free, TypeOK, Place
<1>4. event' \subseteq Ev /\ lock' \in Threads \cup {None}
  BY DEF triggerEvent, TypeOK
<1> QED
  BY <1>1, <1>2, <1>3, <1>4 DEF triggerEvent, TypeOK, kernel, frame, timing

LEMMA NextType == TypeOK /\ WakeInv /\ [Next]_vars => TypeOK'
<1> SUFFICES ASSUME TypeOK, WakeInv, [Next]_vars PROVE TypeOK'
  OBVIOUS
<1>1. ASSUME NEW e \in Ev, Arrive(e) PROVE TypeOK'
  BY <1>1 DEF Arrive, TypeOK, object, pool, frame, timing
<1>2. ASSUME NEW t \in Threads, Idle(t) PROVE TypeOK'
  BY <1>2, IdleType, TriggerType DEF Idle, IdleStep
<1>3. ASSUME NEW t \in Threads, NEW f \in Fibers, FiberStep(t, f) PROVE TypeOK'
  BY <1>3, FiberType
<1>4. CASE UNCHANGED vars
  BY <1>4 DEF vars, TypeOK, kernel, object, pool, frame, timing
<1> QED  BY <1>1, <1>2, <1>3, <1>4 DEF Next, FiberStep

-----------------------------------------------------------------------------
\* A step that leaves the queue, the waiters, the directions and the labels
\* "yield" and "held" as they are keeps WakeInv.
LEMMA WakeSame ==
  ASSUME TypeOK, WakeInv, tasks' = tasks, waiter' = waiter,
         \A f \in Fibers : pc[f] \in {"yield", "held"} =>
           pc'[f] \in {"yield", "held"} /\ dir'[f] = dir[f]
  PROVE  WakeInv'
BY DEF WakeInv

LEMMA TriggerWake ==
  ASSUME TypeOK, WakeInv, NEW t \in Threads, triggerEvent(t)
  PROVE  WakeInv'
<1>1. /\ \A f \in Fibers : tasks'[f] = tasks[f] + Cardinality(Woken(t, f))
      /\ \A e \in Ev : waiter'[e] = IF e \in got[t] THEN None ELSE waiter[e]
      /\ pc' = pc /\ dir' = dir
  BY DEF triggerEvent, Woken, frame
<1>2. None \notin Fibers
  BY HookedAssumption
<1>3. ASSUME NEW f \in Fibers, tasks'[f] > 0
      PROVE  pc'[f] \in {"yield", "held"} /\ \A e \in Ev : waiter'[e] # f
  <2>1. CASE Cardinality(Woken(t, f)) = 0
    <3>1. tasks[f] > 0
      BY <1>1, <1>3, <2>1 DEF TypeOK
    <3> QED  BY <1>1, <1>2, <3>1 DEF WakeInv
  <2>2. CASE dir[f] \in got[t] /\ waiter[dir[f]] = f
    <3>1. dir[f] \in Ev
      BY DEF TypeOK
    <3>2. pc[f] \in {"yield", "held"}
      BY <2>2, <3>1 DEF WakeInv
    <3>3. ASSUME NEW e \in Ev, waiter'[e] = f PROVE FALSE
      <4>1. e \notin got[t] /\ waiter[e] = f
        BY <1>1, <1>2, <3>3
      <4>2. dir[f] = e
        BY <4>1 DEF WakeInv
      <4> QED  BY <2>2, <4>1, <4>2
    <3> QED  BY <1>1, <3>2, <3>3
  <2> QED  BY <2>1, <2>2, WokenOnce
<1>4. ASSUME NEW f \in Fibers, NEW e \in Ev, waiter'[e] = f
      PROVE  pc'[f] \in {"yield", "held"} /\ tasks'[f] = 0 /\ dir'[f] = e
  <2>1. e \notin got[t] /\ waiter[e] = f
    BY <1>1, <1>2, <1>4
  <2>2. pc[f] \in {"yield", "held"} /\ tasks[f] = 0 /\ dir[f] = e
    BY <2>1 DEF WakeInv
  <2>3. Cardinality(Woken(t, f)) = 0
    BY <2>1, <2>2, WokenOnce
  <2> QED  BY <1>1, <2>2, <2>3
<1> QED  BY <1>3, <1>4 DEF WakeInv

LEMMA FiberWake ==
  ASSUME TypeOK, WakeInv, NEW t \in Threads, NEW f \in Fibers, FiberStep(t, f)
  PROVE  WakeInv'
<1> USE DEF At, Goto
<1>1. CASE Succeed(t, f) \/ Block(t, f) \/ Fail(t, f) \/ addTimer(t, f)
  BY <1>1, WakeSame
  DEF Succeed, Block, Fail, addTimer, TypeOK, object, frame
<1>2. CASE addEventDup(t, f) \/ addEventTest(t, f) \/ addEventFail(t, f)
             \/ addEventCtl(t, f)
  BY <1>2, WakeSame
  DEF addEventDup, addEventTest, addEventFail, addEventCtl, Forget, TypeOK,
      object, frame
<1>3. CASE addEvent(t, f)
  <2>1. pc[f] = "set" /\ tasks' = tasks /\ dir' = dir
    BY <1>3 DEF addEvent, frame
  <2>2. tasks[f] = 0 /\ \A e \in Ev : waiter[e] # f
    BY <2>1 DEF WakeInv, TypeOK
  <2>3. \A e \in Ev : waiter'[e] = IF e = dir[f] THEN f ELSE waiter[e]
    BY <1>3 DEF addEvent, TypeOK
  <2>4. \A g \in Fibers : pc'[g] = IF g = f THEN "yield" ELSE pc[g]
    BY <1>3 DEF addEvent, TypeOK
  <2> QED  BY <2>1, <2>2, <2>3, <2>4 DEF WakeInv
<1>4. CASE yieldToHold(t, f) \/ Return(t, f)
  BY <1>4, WakeSame DEF yieldToHold, Return, TypeOK, object, frame
<1>5. CASE Resume(t, f)
  <2>1. tasks[f] > 0 /\ waiter' = waiter /\ dir' = dir
    BY <1>5 DEF Resume, object, frame
  <2>2. \A e \in Ev : waiter[e] # f
    BY <2>1 DEF WakeInv
  <2>3. /\ \A g \in Fibers : pc'[g] = IF g = f THEN "woken" ELSE pc[g]
        /\ \A g \in Fibers : tasks'[g] = IF g = f THEN 0 ELSE tasks[g]
    BY <1>5 DEF Resume, TypeOK
  <2> QED  BY <2>1, <2>2, <2>3 DEF WakeInv
<1>6. CASE delEvent(t, f)
  <2>1. None \notin Fibers
    BY HookedAssumption
  <2>2. /\ pc[f] = "del" /\ tasks' = tasks /\ dir' = dir
        /\ \A e \in Ev : waiter'[e] = None
        /\ \A g \in Fibers : g # f => pc'[g] = pc[g]
    BY <1>6 DEF delEvent, TypeOK, frame
  <2> QED  BY <2>1, <2>2 DEF WakeInv
<1>7. CASE CloseFd(t, f) \/ Start(t, f) \/ Close(t, f)
  BY <1>7, WakeSame DEF CloseFd, Start, Close, TypeOK, object, frame
<1>8. ASSUME NEW e \in Uses[f], Call(t, f, e) PROVE WakeInv'
  <2>1. /\ pc[f] = "app" /\ tasks' = tasks /\ waiter' = waiter
        /\ \A g \in Fibers : g # f => pc'[g] = pc[g] /\ dir'[g] = dir[g]
    BY <1>8 DEF Call, TypeOK, object
  <2> QED  BY <2>1, WakeSame
<1> QED
  BY <1>1, <1>2, <1>3, <1>4, <1>5, <1>6, <1>7, <1>8
  DEF FiberStep, InCall, AddEvent

LEMMA NextWake == TypeOK /\ WakeInv /\ [Next]_vars => WakeInv'
<1> SUFFICES ASSUME TypeOK, WakeInv, [Next]_vars PROVE WakeInv'
  OBVIOUS
<1>1. ASSUME NEW e \in Ev, Arrive(e) PROVE WakeInv'
  BY <1>1, WakeSame DEF Arrive, object, frame
<1>2. ASSUME NEW t \in Threads, IdleStep(t) PROVE WakeInv'
  BY <1>2, WakeSame
  DEF IdleStep, EpollWait, HandleNothing, HandleEvents, Tick, cancelNothing,
      cancelEvent, RunCallback, RunStale, object, frame
<1>3. ASSUME NEW t \in Threads, triggerEvent(t) PROVE WakeInv'
  BY <1>3, TriggerWake
<1>4. ASSUME NEW t \in Threads, NEW f \in Fibers, FiberStep(t, f) PROVE WakeInv'
  BY <1>4, FiberWake
<1>5. CASE UNCHANGED vars
  BY <1>5, WakeSame DEF vars, object, frame
<1> QED  BY <1>1, <1>2, <1>3, <1>4, <1>5 DEF Next, FiberStep, Idle, IdleStep

\* The types of all variables; a fiber is in the queue at most once.
THEOREM TypeCorrect == Spec => []TypeOK
BY InitWake, NextType, NextWake, PTL DEF Spec

\* A wait is ended once: of the idle fibers, the callbacks of timers and
\* those that come late, one at most queues the fiber.
THEOREM WokenWhileWaiting == Spec => []OneWake
<1>1. WakeInv => OneWake
  BY DEF WakeInv, OneWake
<1> QED  BY <1>1, InitWake, NextType, NextWake, PTL DEF Spec

-----------------------------------------------------------------------------
(* One user at a time: every wait is registered.                           *)

\* Who uses the connection, and that nobody closes it under a waiter.
UserInv ==
  /\ \A f, g \in users : f = g
  /\ \A f \in Fibers : f \in users <=> pc[f] \notin {"new", "done"}
  /\ open <=> users # {}
  /\ \A f \in Fibers : pc[f] # "del"

\* Between epoll_ctl and the unlock the kernel watches for nothing and the
\* events at hand are all there are; at other times the epoll set is what the
\* Event object says, but for a fiber between epoll_ctl and the lock.
RegInv ==
  /\ \A t \in Threads : at[t] = "trigger" <=> lock = t
  /\ lock # None => event # {} /\ event \subseteq got[lock] /\ interest = {}
  /\ lock = None =>
       \A e \in Ev : e \in interest <=>
         e \in event \/ \E f \in Fibers : pc[f] = "set" /\ dir[f] = e
  /\ \A e \in Ev : e \in event <=> waiter[e] # None
  /\ \A f \in Fibers : pc[f] \in {"yield", "held"} /\ tasks[f] = 0 =>
       waiter[dir[f]] = f
  /\ \A f \in Fibers : pc[f] = "ctl" => mask[f] = {dir[f]} /\ fresh[f]

OneUser == TypeOK /\ WakeInv /\ UserInv /\ RegInv

LEMMA OneWaiter ==
  ASSUME OneUser, NEW f \in Fibers, NEW e \in Ev, waiter[e] = f
  PROVE  f \in users /\ users = {f} /\ event = {e}
<1>1. pc[f] \in {"yield", "held"}
  BY DEF OneUser, WakeInv
<1>2. f \in users /\ users = {f}
  BY <1>1 DEF OneUser, UserInv
<1>3. ASSUME NEW d \in event PROVE d = e
  <2>1. d \in Ev /\ waiter[d] \in Fibers
    BY <1>3 DEF OneUser, RegInv, TypeOK
  <2>2. pc[waiter[d]] \in {"yield", "held"} /\ dir[waiter[d]] = d
    BY <2>1 DEF OneUser, WakeInv
  <2>3. waiter[d] \in users
    BY <2>1, <2>2 DEF OneUser, UserInv
  <2>4. waiter[d] = f /\ dir[f] = e
    BY <1>2, <2>3 DEF OneUser, WakeInv
  <2> QED  BY <2>2, <2>4
<1>4. e \in event
  BY HookedAssumption DEF OneUser, RegInv
<1> QED  BY <1>2, <1>3, <1>4

\* While the user is not waiting, nothing is registered.
LEMMA Quiet ==
  ASSUME OneUser, NEW f \in Fibers, pc[f] \notin {"new", "done", "yield", "held"}
  PROVE  /\ users = {f} /\ event = {} /\ lock = None
         /\ \A e \in Ev : waiter[e] = None
         /\ pc[f] # "set" => interest = {}
<1>1. users = {f}
  BY DEF OneUser, UserInv
<1>2. \A e \in Ev : waiter[e] = None
  <2>1. SUFFICES ASSUME NEW e \in Ev, waiter[e] # None PROVE FALSE
    OBVIOUS
  <2>2. waiter[e] \in Fibers
    BY <2>1 DEF OneUser, TypeOK
  <2>3. waiter[e] = f
    BY <1>1, <2>2, OneWaiter
  <2> QED  BY <2>3 DEF OneUser, WakeInv
<1>3. event = {}
  BY <1>2 DEF OneUser, RegInv, TypeOK
<1>4. lock = None
  BY <1>3 DEF OneUser, RegInv
<1>5. ASSUME pc[f] # "set" PROVE interest = {}
  <2>1. \A g \in Fibers : pc[g] # "set"
    <3>1. SUFFICES ASSUME NEW g \in Fibers, pc[g] = "set" PROVE FALSE
      OBVIOUS
    <3>2. g \in users
      BY <3>1 DEF OneUser, UserInv
    <3> QED  BY <1>1, <1>5, <3>1, <3>2
  <2> QED  BY <1>3, <1>4, <2>1 DEF OneUser, RegInv, TypeOK
<1> QED  BY <1>1, <1>2, <1>3, <1>4, <1>5

\* Without a user nothing is registered either.
LEMMA Empty ==
  ASSUME OneUser, users = {}
  PROVE  event = {} /\ interest = {} /\ lock = None /\ ~open
         /\ \A e \in Ev : waiter[e] = None
<1>1. \A e \in Ev : waiter[e] = None
  <2>1. SUFFICES ASSUME NEW e \in Ev, waiter[e] # None PROVE FALSE
    OBVIOUS
  <2>2. waiter[e] \in Fibers
    BY <2>1 DEF OneUser, TypeOK
  <2> QED  BY <2>2, OneWaiter
<1>2. event = {}
  BY <1>1 DEF OneUser, RegInv, TypeOK
<1>3. lock = None /\ \A f \in Fibers : pc[f] # "set"
  BY <1>2 DEF OneUser, RegInv, UserInv
<1> QED  BY <1>1, <1>2, <1>3 DEF OneUser, RegInv, UserInv, TypeOK

LEMMA InitOneUser == Init => UserInv /\ RegInv
<1>1. Init => UserInv
  BY DEF Init, UserInv
<1>2. Init => RegInv
  BY HookedAssumption DEF Init, RegInv
<1> QED  BY <1>1, <1>2

LEMMA NextUser ==
  ASSUME ~shared', TypeOK', OneUser, [Next]_vars
  PROVE  UserInv'
<1> USE DEF OneUser, At, Goto
<1>1. ASSUME users' = users, open' = open, pc' = pc PROVE UserInv'
  BY <1>1 DEF UserInv
<1>2. ASSUME NEW e \in Ev, Arrive(e) PROVE UserInv'
  BY <1>1, <1>2 DEF Arrive
<1>3. ASSUME NEW t \in Threads, Idle(t) PROVE UserInv'
  BY <1>1, <1>3
  DEF Idle, EpollWait, HandleNothing, HandleEvents, triggerEvent, Tick,
      cancelNothing, cancelEvent, RunCallback, RunStale, kernel
<1>4. ASSUME NEW t \in Threads, NEW f \in Fibers, FiberStep(t, f) PROVE UserInv'
  <2>1. CASE Start(t, f)
    <3>0. ~open
      BY <2>1 DEF Start
    <3>1. pc[f] = "new" /\ users = {}
      BY <2>1, <3>0 DEF Start, UserInv
    <3>2. /\ open' /\ users' = {f}
          /\ pc' = [pc EXCEPT ![f] = "app"]
      BY <2>1, <3>1 DEF Start
    <3> QED  BY <3>1, <3>2 DEF UserInv, TypeOK
  <2>2. CASE CloseFd(t, f)
    <3>1. users = {f} /\ ~open' /\ users' = {} /\ pc' = [pc EXCEPT ![f] = "done"]
      BY <2>2, Quiet DEF CloseFd
    <3> QED  BY <3>1 DEF UserInv, TypeOK
  <2>3. CASE Fail(t, f)
    BY <2>3 DEF Fail, UserInv
  <2>4. CASE Close(t, f)
    <3>1. event = {}
      BY <2>4, Quiet DEF Close
    <3> QED  BY <2>4, <3>1, SMTT(30) DEF Close, UserInv, TypeOK
  <2>5. CASE delEvent(t, f)
    BY <2>5 DEF delEvent, UserInv
  <2>6. ASSUME users' = users, open' = open,
               NEW l \in Label \ {"new", "done", "del"},
               pc[f] \notin {"new", "done"}, pc' = [pc EXCEPT ![f] = l]
        PROVE  UserInv'
    BY <2>6 DEF UserInv, TypeOK
  <2>7. CASE Succeed(t, f) \/ Block(t, f) \/ addTimer(t, f)
    BY <2>6, <2>7 DEF Succeed, Block, addTimer, kernel, Label
  <2>8. CASE AddEvent(t, f)
    BY <2>6, <2>8 DEF AddEvent, addEventDup, addEventTest, addEventFail,
                      addEventCtl, Forget, addEvent, kernel, Label
  <2>9. CASE yieldToHold(t, f) \/ Resume(t, f) \/ Return(t, f)
    BY <2>6, <2>9 DEF yieldToHold, Resume, Return, kernel, Label
  <2>10. ASSUME NEW e \in Uses[f], Call(t, f, e) PROVE UserInv'
    BY <2>6, <2>10 DEF Call, kernel, Label
  <2> QED
    BY <1>4, <2>1, <2>2, <2>3, <2>4, <2>5, <2>7, <2>8, <2>9, <2>10
    DEF FiberStep, InCall
<1>5. CASE UNCHANGED vars
  BY <1>1, <1>5 DEF vars, kernel
<1> QED  BY <1>2, <1>3, <1>4, <1>5 DEF Next, FiberStep

\* A step of a thread outside of triggerEvent that touches no registration.
LEMMA RegSame ==
  ASSUME OneUser, UNCHANGED <<event, waiter, lock, interest, dir, mask, fresh>>,
         NEW t \in Threads, at[t] # "trigger", at'[t] # "trigger",
         \A u \in Threads \ {t} : at'[u] = at[u] /\ got'[u] = got[u],
         \A f \in Fibers : /\ pc'[f] = "set" <=> pc[f] = "set"
                           /\ pc'[f] = "ctl" => pc[f] = "ctl"
                           /\ pc'[f] \in {"yield", "held"} /\ tasks'[f] = 0 =>
                                pc[f] \in {"yield", "held"} /\ tasks[f] = 0
  PROVE  RegInv'
<1>1. \A u \in Threads : at'[u] = "trigger" <=> lock' = u
  BY DEF OneUser, RegInv
<1>2. ASSUME lock' # None
      PROVE  event' # {} /\ event' \subseteq got'[lock'] /\ interest' = {}
  <2>1. lock \in Threads \ {t}
    BY <1>2 DEF OneUser, RegInv, TypeOK
  <2> QED  BY <1>2, <2>1 DEF OneUser, RegInv
<1> QED  BY <1>1, <1>2 DEF OneUser, RegInv

\* A step of the user that leaves it outside of addEvent and of its wait.
LEMMA RegQuiet ==
  ASSUME OneUser, NEW f \in Fibers, NEW t \in Threads,
         event = {}, lock = None, \A e \in Ev : waiter[e] = None,
         UNCHANGED <<event, waiter, lock>>, interest' = {},
         at'[t] # "trigger", \A u \in Threads \ {t} : at'[u] = at[u],
         \A g \in Fibers \ {f} : pc[g] \in {"new", "done"} /\ pc'[g] = pc[g],
         pc'[f] \notin {"ctl", "set", "yield", "held"}
  PROVE  RegInv'
<1>1. \A u \in Threads : at'[u] = "trigger" <=> lock' = u
  BY HookedAssumption DEF OneUser, RegInv
<1>2. \A g \in Fibers : pc'[g] \notin {"ctl", "set", "yield", "held"}
  OBVIOUS
<1> QED  BY <1>1, <1>2 DEF RegInv

LEMMA UpdateReg ==
  ASSUME OneUser, NEW t \in Threads, HandleEvents(t) \/ cancelEvent(t)
  PROVE  RegInv'
<1>1. lock = None /\ event \cap got[t] # {}
  BY DEF HandleEvents, cancelEvent
<1>2. PICK e \in Ev : e \in event /\ e \in got[t]
  BY <1>1 DEF OneUser, TypeOK
<1>3. PICK f \in Fibers : waiter[e] = f
  BY <1>2 DEF OneUser, RegInv, TypeOK
<1>4. event = {e} /\ event \subseteq got[t] /\ event \ got[t] = {}
  BY <1>2, <1>3, OneWaiter
<1>5. /\ interest' = {} /\ lock' = t /\ at' = [at EXCEPT ![t] = "trigger"]
      /\ UNCHANGED <<event, waiter, got, pc, tasks, dir, mask, fresh>>
  BY <1>4 DEF HandleEvents, cancelEvent, Unwatch, frame
<1>6. \A u \in Threads : at[u] # "trigger"
  BY <1>1, HookedAssumption DEF OneUser, RegInv
<1>7. \A u \in Threads : at'[u] = "trigger" <=> lock' = u
  BY <1>5, <1>6 DEF OneUser, TypeOK
<1> QED  BY <1>4, <1>5, <1>7, HookedAssumption DEF OneUser, RegInv

LEMMA TriggerReg ==
  ASSUME OneUser, NEW t \in Threads, triggerEvent(t)
  PROVE  RegInv'
<1>1. lock = t /\ lock # None
  BY HookedAssumption DEF triggerEvent, OneUser, RegInv
<1>2. event \subseteq got[t] /\ event # {} /\ interest = {}
  BY <1>1 DEF OneUser, RegInv
<1>3. \A e \in Ev : waiter'[e] = None
  BY <1>2 DEF triggerEvent, OneUser, RegInv
<1>4. /\ event' = {} /\ lock' = None
      /\ UNCHANGED <<interest, pc, dir, mask, fresh>>
  BY <1>2 DEF triggerEvent, kernel, frame
<1>5. \A u \in Threads : at'[u] # "trigger"
  BY <1>1 DEF triggerEvent, Free, OneUser, RegInv, TypeOK
<1>6. \A f \in Fibers : pc[f] # "set"
  <2>1. SUFFICES ASSUME NEW f \in Fibers, pc[f] = "set" PROVE FALSE
    OBVIOUS
  <2> QED  BY <1>2, <2>1, Quiet
<1>7. ASSUME NEW f \in Fibers, pc[f] \in {"yield", "held"}, tasks'[f] = 0
      PROVE  FALSE
  <2>1. tasks'[f] = tasks[f] + Cardinality(Woken(t, f))
    BY DEF triggerEvent, Woken
  <2>2. tasks[f] = 0 /\ Cardinality(Woken(t, f)) = 0
    BY <1>7, <2>1, WokenOnce DEF OneUser, TypeOK
  <2>3. waiter[dir[f]] = f /\ dir[f] \in Ev
    BY <1>7, <2>2 DEF OneUser, RegInv, TypeOK
  <2>4. dir[f] \in event
    BY <2>3, HookedAssumption DEF OneUser, RegInv
  <2>5. dir[f] \in Woken(t, f)
    BY <1>2, <2>3, <2>4 DEF Woken
  <2> QED  BY <2>2, <2>5, WokenOnce DEF OneUser
<1> QED
  BY <1>1, <1>2, <1>3, <1>4, <1>5, <1>6, <1>7, HookedAssumption
  DEF OneUser, RegInv, TypeOK

LEMMA IdleReg ==
  ASSUME OneUser, NEW t \in Threads, Idle(t)
  PROVE  RegInv'
<1> USE DEF TypeOK, Free, kernel, object, frame, pool
<1>1. CASE EpollWait(t)
  BY <1>1, RegSame DEF EpollWait, OneUser
<1>2. CASE HandleNothing(t) \/ cancelNothing(t)
  BY <1>2, RegSame DEF HandleNothing, cancelNothing, OneUser
<1>3. CASE Tick(t)
  BY <1>3, RegSame DEF Tick
<1>4. ASSUME NEW f \in Fibers, RunCallback(t, f) \/ RunStale(t, f)
      PROVE  RegInv'
  BY <1>4, RegSame DEF RunCallback, RunStale, OneUser
<1> QED
  BY <1>1, <1>2, <1>3, <1>4, UpdateReg, TriggerReg DEF Idle

LEMMA FiberReg ==
  ASSUME OneUser, NEW t \in Threads, NEW f \in Fibers, FiberStep(t, f)
  PROVE  RegInv'
<1> USE DEF At, Goto
<1>1. ASSUME pc[f] \notin {"new", "done", "yield", "held"}
      PROVE  /\ \A g \in Fibers \ {f} : pc[g] \in {"new", "done"}
             /\ event = {} /\ lock = None /\ \A e \in Ev : waiter[e] = None
             /\ pc[f] # "set" => interest = {}
             /\ open
  BY <1>1, Quiet DEF OneUser, UserInv
<1>2. CASE Succeed(t, f) \/ Block(t, f) \/ addTimer(t, f) \/ Return(t, f)
  BY <1>1, <1>2, RegQuiet
  DEF Succeed, Block, addTimer, Return, OneUser, TypeOK, kernel, object, pool
<1>3. ASSUME NEW e \in Uses[f], Call(t, f, e) PROVE RegInv'
  BY <1>1, <1>3, RegQuiet DEF Call, OneUser, TypeOK, kernel, object, pool
<1>4. CASE Close(t, f)
  BY <1>1, <1>4, RegQuiet DEF Close, OneUser, TypeOK, kernel, object, pool
<1>5. CASE CloseFd(t, f)
  BY <1>1, <1>5, RegQuiet DEF CloseFd, Unwatch, Free, OneUser, TypeOK, object
<1>6. CASE Fail(t, f) \/ addEventDup(t, f) \/ addEventFail(t, f) \/ delEvent(t, f)
  <2>1. Fail(t, f) => FALSE
    BY <1>1 DEF Fail
  <2>2. addEventDup(t, f) => FALSE
    BY <1>1 DEF addEventDup
  <2>3. addEventFail(t, f) => FALSE
    BY <1>1 DEF addEventFail, OneUser, RegInv
  <2>4. delEvent(t, f) => FALSE
    BY DEF delEvent, OneUser, UserInv
  <2> QED  BY <1>6, <2>1, <2>2, <2>3, <2>4
<1>7. CASE Start(t, f)
  <2>2. CASE users = {}
    <3>1. \A g \in Fibers \ {f} : pc[g] \in {"new", "done"}
      BY <2>2 DEF OneUser, UserInv
    <3> QED
      BY <1>7, <2>2, <3>1, Empty, RegQuiet DEF Start, OneUser, TypeOK, object
  <2>3. CASE users # {}
    \* A second user registers nothing yet.
    BY <1>7, RegSame DEF Start, OneUser, TypeOK, object, frame
  <2> QED  BY <2>2, <2>3
<1>8. CASE addEventTest(t, f)
  <2>1. /\ mask' = [mask EXCEPT ![f] = {dir[f]}] /\ fresh' = [fresh EXCEPT ![f] = TRUE]
        /\ pc' = [pc EXCEPT ![f] = "ctl"] /\ dir' = dir
        /\ UNCHANGED <<interest, event, waiter, lock, at, got, tasks>>
    BY <1>1, <1>8 DEF addEventTest, kernel, object, pool
  <2>2. pc[f] = "test"
    BY <1>8 DEF addEventTest
  <2>3. \A g \in Fibers : (mask'[g] = mask[g] /\ fresh'[g] = fresh[g]) \/ g = f
    BY <2>1 DEF OneUser, TypeOK
  <2>4. mask'[f] = {dir[f]} /\ fresh'[f]
    BY <2>1 DEF OneUser, TypeOK
  <2>5. \A g \in Fibers : pc'[g] = IF g = f THEN "ctl" ELSE pc[g]
    BY <2>1 DEF OneUser, TypeOK
  <2> QED
    BY <1>1, <2>1, <2>2, <2>3, <2>4, <2>5 DEF OneUser, RegInv
<1>9. CASE addEventCtl(t, f)
  <2>1. /\ pc[f] = "ctl" /\ interest' = mask[f]
        /\ pc' = [pc EXCEPT ![f] = "set"]
        /\ mask' = [mask EXCEPT ![f] = {}] /\ fresh' = [fresh EXCEPT ![f] = FALSE]
        /\ UNCHANGED <<event, waiter, lock, at, got, tasks, dir>>
    BY <1>9 DEF addEventCtl, Forget, Watch, object, pool
  <2>2. mask[f] = {dir[f]}
    BY <2>1 DEF OneUser, RegInv
  <2>3. \A g \in Fibers : pc'[g] = IF g = f THEN "set" ELSE pc[g]
    BY <2>1 DEF OneUser, TypeOK
  <2>4. \A g \in Fibers : g # f => mask'[g] = mask[g] /\ fresh'[g] = fresh[g]
    BY <2>1 DEF OneUser, TypeOK
  <2> QED  BY <1>1, <2>1, <2>2, <2>3, <2>4 DEF OneUser, RegInv
<1>10. CASE addEvent(t, f)
  <2>1. /\ pc[f] = "set" /\ event' = {dir[f]} /\ dir[f] \in Ev
        /\ \A e \in Ev : waiter'[e] = IF e = dir[f] THEN f ELSE None
        /\ \A g \in Fibers : pc'[g] = IF g = f THEN "yield" ELSE pc[g]
        /\ UNCHANGED <<interest, lock, at, got, tasks, dir, mask, fresh>>
    BY <1>1, <1>10 DEF addEvent, OneUser, TypeOK, kernel, pool, frame
  <2>2. interest = {dir[f]}
    BY <1>1, <2>1 DEF OneUser, RegInv, TypeOK
  <2> QED  BY <1>1, <2>1, <2>2, HookedAssumption DEF OneUser, RegInv
<1>11. CASE yieldToHold(t, f)
  BY <1>11, RegSame DEF yieldToHold, Free, OneUser, TypeOK, kernel, object, frame
<1>12. CASE Resume(t, f)
  BY <1>12, RegSame DEF Resume, OneUser, TypeOK, kernel, object, frame
<1> QED
  BY <1>2, <1>3, <1>4, <1>5, <1>6, <1>7, <1>8, <1>9, <1>10, <1>11, <1>12
  DEF FiberStep, InCall, AddEvent

\* From Start by a second user on nothing is said.
ApartInv == ~shared => OneUser

LEMMA InitApart == Init => ApartInv
BY InitWake, InitOneUser DEF ApartInv, OneUser

\* Once a connection has been shared, that is remembered.
LEMMA SharedStays == [Next]_vars /\ shared => shared'
<1> SUFFICES ASSUME [Next]_vars, shared PROVE shared'
  OBVIOUS
<1>1. ASSUME NEW t \in Threads, Idle(t) PROVE shared'
  BY <1>1
  DEF Idle, EpollWait, HandleNothing, HandleEvents, triggerEvent, Tick,
      cancelNothing, cancelEvent, RunCallback, RunStale
<1>2. ASSUME NEW t \in Threads, NEW f \in Fibers, InCall(t, f) \/ Start(t, f) \/ Close(t, f)
      PROVE  shared'
  BY <1>2
  DEF InCall, Start, Close, Succeed, Block, Fail, addTimer, AddEvent, addEventDup,
      addEventTest, addEventFail, addEventCtl, Forget, addEvent, yieldToHold, Resume,
      Return, delEvent, CloseFd
<1> QED  BY <1>1, <1>2 DEF Next, Arrive, Call, vars

LEMMA NextApart == TypeOK /\ WakeInv /\ ApartInv /\ [Next]_vars => ApartInv'
<1> SUFFICES ASSUME TypeOK, WakeInv, ApartInv, [Next]_vars, ~shared' PROVE OneUser'
  BY DEF ApartInv
<1>0. OneUser
  BY SharedStays DEF ApartInv
<1>1. TypeOK' /\ WakeInv' /\ UserInv'
  BY <1>0, NextType, NextWake, NextUser DEF OneUser
<1>2. ASSUME NEW e \in Ev, Arrive(e) PROVE RegInv'
  BY <1>0, <1>2 DEF Arrive, OneUser, RegInv, object, pool, frame
<1>3. ASSUME UNCHANGED vars PROVE RegInv'
  BY <1>0, <1>3 DEF vars, OneUser, RegInv, kernel, object, pool, frame
<1>4. RegInv'
  BY <1>0, <1>2, <1>3, IdleReg, FiberReg DEF Next, FiberStep
<1> QED  BY <1>1, <1>4 DEF OneUser

\* As long as no connection has had two users, the waits are known to the
\* Event object and to the kernel, on any number of threads and with any
\* time-outs.
THEOREM WaitIsRegistered == Spec => []Registered
<1>1. ApartInv => Registered
  <2> SUFFICES ASSUME OneUser, NEW f \in Fibers, Waits(f)
               PROVE  dir[f] \in event \cap interest /\ waiter[dir[f]] = f
    BY DEF Registered, ApartInv
  <2>1. waiter[dir[f]] = f /\ dir[f] \in Ev
    BY DEF Waits, OneUser, RegInv, TypeOK
  <2>2. dir[f] \in event
    BY <2>1, HookedAssumption DEF OneUser, RegInv
  <2> QED  BY <2>1, <2>2 DEF Waits, OneUser, RegInv
<1> QED
  BY <1>1, InitWake, InitApart, NextType, NextWake, NextApart, PTL DEF Spec

\* Then the epoll set also never keeps a descriptor nobody waits for, on
\* which the next EPOLL_CTL_ADD would fail.
THEOREM EpollInStep == Spec => []InStep
<1>1. ApartInv => InStep
  BY DEF ApartInv, OneUser, RegInv, InStep, TypeOK
<1> QED
  BY <1>1, InitWake, InitApart, NextType, NextWake, NextApart, PTL DEF Spec

-----------------------------------------------------------------------------
(* One thread: no wake-up is lost, also when a connection is shared, as    *)
(* long as its users wait for different things.  With two threads the code *)
(* loses edges (HookedIO_edge).                                            *)

OneThread == \A t, u \in Threads : t = u

\* Of two users of one connection one reads and the other writes.
OneEach == Sharing => \A f, g \in Fibers : f # g => Uses[f] \cap Uses[g] = {}

Parked(f) == pc[f] \in {"new", "held", "done"}

\* A fiber that runs is the job of a thread; the lock is held in triggerEvent.
TurnInv ==
  /\ \A f \in Fibers : Parked(f) \/ \E t \in Threads : at[t] = "run" /\ job[t] = f
  /\ \A t \in Threads : at[t] = "trigger" <=> lock = t

Closing == \E f \in Fibers : pc[f] \in {"del", "close"}

\* Who uses the connection, and for what; nobody is queued or named by the
\* Event object when it is closed.
UseInv ==
  /\ open <=> users # {}
  /\ \A f \in Fibers : ~Parked(f) => f \in users
  /\ \A f \in users : pc[f] \notin {"new", "done"}
  /\ ~Sharing => \A f, g \in users : f = g
  /\ \A f \in Fibers : pc[f] \notin {"new", "app", "del", "close", "done"} => dir[f] \in Uses[f]
  /\ \A e \in Ev : waiter[e] # None => waiter[e] \in users
  /\ \A e \in Ev : e \in event <=> waiter[e] # None
  /\ \A f \in Fibers : tasks[f] > 0 => f \in users
  /\ Closing => \A f \in Fibers : tasks[f] = 0
  /\ \A f \in Fibers : pc[f] = "close" => event = {}

\* Every wait of a user is known to the Event object, ...
KnownInv ==
  ~Closing =>
    \A f \in users : pc[f] \in {"yield", "held"} /\ tasks[f] = 0 => waiter[dir[f]] = f

\* ... and what the Event object knows, to the kernel: between epoll_ctl and
\* the unlock what remains of it, in addEvent what is to be added too.
WatchInv ==
  /\ lock # None => event \ got[lock] \subseteq interest
  /\ lock # None /\ event \subseteq got[lock] => interest = {}
  /\ lock = None /\ (\A f \in Fibers : pc[f] # "del") => event \subseteq interest
  /\ lock = None /\ (\A f \in Fibers : pc[f] # "set") /\ event = {} => interest = {}
  /\ \A f \in Fibers : pc[f] = "ctl" =>
       mask[f] = event \cup {dir[f]} /\ (fresh[f] <=> event = {})
  /\ \A f \in Fibers : pc[f] = "set" => dir[f] \in interest
  /\ \A f \in Fibers : pc[f] = "del" => interest = {}

\* What is ready and waited for is reported, being handled or being woken.
EdgeInv ==
  /\ ~Closing =>
       \A e \in event \cap ready :
         edge \/ \E t \in Threads : at[t] \in {"handle", "trigger"} /\ e \in got[t]
  /\ \A f \in Fibers : pc[f] = "set" /\ dir[f] \in ready => edge

\* The timer of a wait is still to expire, or its callback is at work.
TimeInv ==
  /\ \A f \in Fibers : pc[f] \in {"test", "ctl", "set"} /\ dir[f] \in Timed =>
       timer[f] \in {"armed", "due"}
  /\ \A f \in Fibers : waiter[dir[f]] = f /\ dir[f] \in Timed =>
       \/ timer[f] \in {"armed", "due"}
       \/ \E t \in Threads : at[t] \in {"cancel", "trigger"} /\ dir[f] \in got[t]

Base == TypeOK /\ WakeInv /\ TurnInv /\ UseInv
Alone == Base /\ KnownInv /\ WatchInv /\ EdgeInv /\ TimeInv

\* A thread that runs a fiber is the only one, and so is the fiber ...
LEMMA Solo ==
  ASSUME OneThread, Base, NEW t \in Threads, NEW f \in Fibers,
         at[t] = "run", job[t] = f
  PROVE  /\ \A g \in Fibers : g # f => Parked(g)
         /\ lock = None
         /\ \A u \in Threads : u = t /\ at[u] = "run"
<1>1. \A u \in Threads : u = t
  BY DEF OneThread
<1>2. \A g \in Fibers : g # f => Parked(g)
  BY <1>1 DEF Base, TurnInv
<1>3. lock = None
  BY <1>1 DEF Base, TurnInv, TypeOK
<1> QED  BY <1>1, <1>2, <1>3

\* ... and one that is in the idle fiber or in a callback finds no fiber at work.
LEMMA Lull ==
  ASSUME OneThread, Base, NEW t \in Threads, at[t] # "run"
  PROVE  /\ \A g \in Fibers : Parked(g)
         /\ ~Closing
         /\ \A u \in Threads : u = t
<1>1. \A u \in Threads : u = t
  BY DEF OneThread
<1>2. \A g \in Fibers : Parked(g)
  BY <1>1 DEF Base, TurnInv
<1> QED  BY <1>1, <1>2 DEF Closing, Parked

LEMMA InitAlone == Init => Base /\ KnownInv /\ WatchInv /\ EdgeInv /\ TimeInv
<1> SUFFICES ASSUME Init PROVE Base /\ KnownInv /\ WatchInv /\ EdgeInv /\ TimeInv
  OBVIOUS
<1>1. TypeOK /\ WakeInv
  BY InitWake
<1>2. TurnInv /\ UseInv
  BY HookedAssumption DEF Init, TurnInv, UseInv, Parked
<1>3. KnownInv /\ WatchInv /\ EdgeInv
  BY DEF Init, KnownInv, WatchInv, EdgeInv
<1>4. TimeInv
  BY <1>1, HookedAssumption DEF Init, TimeInv, TypeOK
<1> QED  BY <1>1, <1>2, <1>3, <1>4 DEF Base

LEMMA IdleTurn ==
  ASSUME Base, NEW t \in Threads, Idle(t)
  PROVE  TurnInv'
<1> USE DEF Base, TurnInv, Parked, TypeOK, Free
<1>1. CASE EpollWait(t)
  BY <1>1 DEF EpollWait, object, pool
<1>2. CASE HandleNothing(t) \/ cancelNothing(t)
  BY <1>2 DEF HandleNothing, cancelNothing, object
<1>3. CASE HandleEvents(t) \/ cancelEvent(t)
  BY <1>3, HookedAssumption DEF HandleEvents, cancelEvent
<1>4. CASE triggerEvent(t)
  BY <1>4, HookedAssumption DEF triggerEvent
<1>5. CASE Tick(t)
  BY <1>5 DEF Tick, object, pool
<1>6. ASSUME NEW f \in Fibers, RunCallback(t, f) \/ RunStale(t, f) PROVE TurnInv'
  BY <1>6 DEF RunCallback, RunStale, object
<1> QED  BY <1>1, <1>2, <1>3, <1>4, <1>5, <1>6 DEF Idle

LEMMA FiberTurn ==
  ASSUME Base, NEW t \in Threads, NEW f \in Fibers, FiberStep(t, f)
  PROVE  TurnInv'
<1> USE DEF Base, TurnInv, Parked, TypeOK, Free, At, Goto
\* It goes on, ...
<1>1. ASSUME at[t] = "run", job[t] = f, UNCHANGED <<at, job, lock>>,
             \A g \in Fibers : g # f => pc'[g] = pc[g]
      PROVE  TurnInv'
  BY <1>1
\* ... it leaves the thread, ...
<1>2. ASSUME at[t] = "run", job[t] = f, lock' = lock, Free(t),
             NEW l \in {"held", "done"}, pc' = [pc EXCEPT ![f] = l]
      PROVE  TurnInv'
  BY <1>2
\* ... or it gets it.
<1>3. ASSUME at[t] = "free", lock' = lock, at' = [at EXCEPT ![t] = "run"],
             job' = [job EXCEPT ![t] = f],
             \A g \in Fibers : g # f => pc'[g] = pc[g]
      PROVE  TurnInv'
  BY <1>3
<1>4. CASE Succeed(t, f) \/ Block(t, f) \/ addTimer(t, f) \/ AddEvent(t, f)
             \/ Return(t, f) \/ delEvent(t, f) \/ Close(t, f)
  BY <1>1, <1>4
  DEF Succeed, Block, addTimer, AddEvent, addEventDup, addEventTest, addEventFail,
      addEventCtl, Forget, addEvent, Return, delEvent, Close, object, pool
<1>5. ASSUME NEW e \in Uses[f], Call(t, f, e) PROVE TurnInv'
  BY <1>1, <1>5 DEF Call, object, pool
<1>6. CASE Fail(t, f) \/ yieldToHold(t, f) \/ CloseFd(t, f)
  BY <1>2, <1>6 DEF Fail, yieldToHold, CloseFd, object
<1>7. CASE Start(t, f) \/ Resume(t, f)
  BY <1>3, <1>7 DEF Start, Resume, object
<1> QED
  BY <1>4, <1>5, <1>6, <1>7 DEF FiberStep, InCall

LEMMA UseSame ==
  ASSUME UseInv, UNCHANGED <<open, users, pc, dir, waiter, event, tasks>>
  PROVE  UseInv'
BY DEF UseInv, Parked, Closing

LEMMA IdleUse ==
  ASSUME OneThread, Base, NEW t \in Threads, Idle(t)
  PROVE  UseInv'
<1>1. CASE triggerEvent(t)
  <2>1. UNCHANGED <<open, users, pc, dir>>
    BY <1>1 DEF triggerEvent, kernel, frame
  <2>2. ~Closing
    BY <1>1, Lull DEF triggerEvent
  <2>3. /\ \A e \in Ev : waiter'[e] = IF e \in got[t] THEN None ELSE waiter[e]
        /\ event' = event \ got[t]
    BY <1>1 DEF triggerEvent
  <2>4. ASSUME NEW f \in Fibers, tasks'[f] > 0 PROVE f \in users
    <3>1. tasks'[f] = tasks[f] + Cardinality(Woken(t, f))
      BY <1>1 DEF triggerEvent, Woken
    <3>2. tasks[f] > 0 \/ (waiter[dir[f]] = f /\ dir[f] \in Ev)
      BY <2>4, <3>1, WokenOnce DEF Base, TypeOK
    <3> QED  BY <3>2, HookedAssumption DEF Base, UseInv
  <2>5. \A f \in Fibers : pc[f] # "close"
    BY <2>2 DEF Closing
  <2> QED  BY <2>1, <2>2, <2>3, <2>4, <2>5 DEF Base, UseInv, Parked, Closing
<1>2. CASE IdleStep(t)
  <2>1. UNCHANGED <<open, users, pc, dir, waiter, event, tasks>>
    BY <1>2
    DEF IdleStep, EpollWait, HandleNothing, HandleEvents, Tick, cancelNothing,
        cancelEvent, RunCallback, RunStale, kernel, object, frame
  <2> QED  BY <2>1, UseSame DEF Base
<1> QED  BY <1>1, <1>2 DEF Idle, IdleStep

LEMMA FiberUse ==
  ASSUME OneThread, Base, NEW t \in Threads, NEW f \in Fibers, FiberStep(t, f)
  PROVE  UseInv'
<1> USE DEF At, Goto
<1>1. /\ dir \in [Fibers -> Ev] /\ pc \in [Fibers -> Label]
      /\ waiter \in [Ev -> Fibers \cup {None}] /\ tasks \in [Fibers -> 0 .. 1]
      /\ event \subseteq Ev /\ users \subseteq Fibers
      /\ UseInv
  BY DEF Base, TypeOK
<1>2. None \notin Fibers
  BY HookedAssumption
<1>3. ASSUME at[t] = "run", job[t] = f
      PROVE  \A g \in Fibers : g # f => Parked(g)
  BY <1>3, Solo
\* It goes on with its call, ...
<1>4. ASSUME NEW l \in Label \ {"new", "app", "del", "close", "done"},
             pc[f] \notin {"new", "app", "del", "close", "done"}, f \in users,
             pc' = [pc EXCEPT ![f] = l], UNCHANGED <<open, users, dir, waiter, event>>,
             \A g \in Fibers : tasks'[g] \in {tasks[g], 0}
      PROVE  UseInv'
  <2>1. \A g \in Fibers : pc'[g] = IF g = f THEN l ELSE pc[g]
    BY <1>1, <1>4
  <2>2. Closing' => Closing
    BY <1>4, <2>1 DEF Closing
  <2>3. \A g \in Fibers : tasks'[g] > 0 => tasks[g] > 0
    BY <1>1, <1>4
  <2> QED  BY <1>1, <1>4, <2>1, <2>2, <2>3 DEF UseInv, Parked
\* ... or is through with it.
<1>5. ASSUME ~Parked(f), f \in users, pc' = [pc EXCEPT ![f] = "app"],
             at[t] = "run", job[t] = f,
             UNCHANGED <<open, users, dir, waiter, event, tasks>>
      PROVE  UseInv'
  <2>1. \A g \in Fibers : pc'[g] = IF g = f THEN "app" ELSE pc[g]
    BY <1>1, <1>5
  <2>2. ~Closing'
    BY <1>3, <1>5, <2>1 DEF Closing, Parked
  <2>3. \A g \in Fibers : pc'[g] # "close"
    BY <2>2 DEF Closing
  <2> QED  BY <1>1, <1>5, <2>1, <2>2, <2>3 DEF UseInv, Parked
<1>6. CASE Succeed(t, f) \/ (Return(t, f) /\ cancel[f])
  <2>1. f \in users /\ ~Parked(f)
    BY <1>1, <1>6 DEF Succeed, Return, UseInv, Parked
  <2> QED
    BY <1>5, <1>6, <2>1 DEF Succeed, Return, kernel, object, frame
<1>7. CASE Block(t, f) \/ addTimer(t, f) \/ (Return(t, f) /\ ~cancel[f])
  <2>1. f \in users
    BY <1>1, <1>7 DEF Block, addTimer, Return, UseInv, Parked
  <2> QED
    BY <1>4, <1>7, <2>1 DEF Block, addTimer, Return, kernel, object, frame, Label
<1>8. CASE addEventDup(t, f) \/ addEventTest(t, f) \/ addEventFail(t, f) \/ addEventCtl(t, f)
  <2>1. f \in users
    BY <1>1, <1>8
    DEF addEventDup, addEventTest, addEventFail, addEventCtl, Forget, UseInv, Parked
  <2> QED
    BY <1>4, <1>8, <2>1
    DEF addEventDup, addEventTest, addEventFail, addEventCtl, Forget, kernel,
        object, frame, Label
<1>9. CASE addEvent(t, f)
  <2>1. /\ pc[f] = "set" /\ f \in users /\ UNCHANGED <<open, users, dir, tasks>>
        /\ \A g \in Fibers : pc'[g] = IF g = f THEN "yield" ELSE pc[g]
        /\ \A e \in Ev : waiter'[e] = IF e = dir[f] THEN f ELSE waiter[e]
        /\ event' = event \cup {dir[f]}
    BY <1>1, <1>9 DEF addEvent, kernel, frame, UseInv, Parked
  <2>2. Closing' => Closing
    BY <2>1 DEF Closing
  <2>3. \A g \in Fibers : pc'[g] # "close"
    BY <1>3, <1>9, <2>1 DEF Parked, addEvent
  <2> QED  BY <1>1, <1>2, <2>1, <2>2, <2>3 DEF UseInv, Parked
<1>10. CASE yieldToHold(t, f)
  <2>1. f \in users
    BY <1>1, <1>10 DEF yieldToHold, UseInv, Parked
  <2> QED  BY <1>4, <1>10, <2>1 DEF yieldToHold, kernel, object, frame, Label
<1>11. CASE Resume(t, f)
  <2>1. f \in users
    BY <1>1, <1>11 DEF Resume, UseInv
  <2>2. \A g \in Fibers : tasks'[g] \in {tasks[g], 0}
    BY <1>1, <1>11 DEF Resume
  <2> QED
    BY <1>4, <1>11, <2>1, <2>2 DEF Resume, kernel, object, frame, Label
<1>12. CASE Fail(t, f)
  BY <1>1, <1>12 DEF Fail, UseInv, Parked
<1>13. CASE Start(t, f)
  <2>1. /\ pc[f] = "new" /\ open' /\ users' = users \cup {f}
        /\ \A g \in Fibers : pc'[g] = IF g = f THEN "app" ELSE pc[g]
        /\ UNCHANGED <<dir, waiter, event, tasks>>
        /\ open => Sharing
    BY <1>1, <1>13 DEF Start, object, frame
  <2>2. users # {} => Sharing
    <3>1. open <=> users # {}
      BY <1>1 DEF UseInv
    <3> QED  BY <2>1, <3>1
  <2>3. Closing' => Closing
    BY <2>1 DEF Closing
  <2>4. ASSUME ~Sharing PROVE \A g, h \in users' : g = h
    BY <2>1, <2>2, <2>4
  <2>5. \A g \in Fibers : pc'[g] = "close" => event = {}
    BY <1>1, <2>1 DEF UseInv
  <2>6. \A g \in Fibers : tasks[g] > 0 => g \in users'
    BY <1>1, <2>1 DEF UseInv
  <2>7. Closing => \A g \in Fibers : tasks[g] = 0
    BY <1>1 DEF UseInv
  <2> QED  BY <1>1, <2>1, <2>3, <2>4, <2>5, <2>6, <2>7 DEF UseInv, Parked
<1>14. CASE Close(t, f)
  <2>1. /\ pc[f] = "app" /\ f \in users /\ UNCHANGED <<open, users, dir, waiter, event, tasks>>
        /\ \A g \in users \ {f} : tasks[g] = 0
    BY <1>1, <1>14 DEF Close, object, frame, UseInv, Parked
  <2>2. PICK l \in {"del", "close"} :
          /\ \A g \in Fibers : pc'[g] = IF g = f THEN l ELSE pc[g]
          /\ l = "close" => event = {}
    BY <1>1, <1>14 DEF Close
  <2>3. tasks[f] = 0
    BY <1>1, <2>1 DEF Base, WakeInv
  <2>4. \A g \in Fibers : tasks[g] = 0
    BY <1>1, <2>1, <2>3 DEF UseInv
  <2>5. \A g \in Fibers : pc'[g] = "close" => event = {}
    BY <1>1, <2>2 DEF UseInv
  <2> QED  BY <1>1, <2>1, <2>2, <2>4, <2>5 DEF UseInv, Parked
<1>15. CASE delEvent(t, f)
  <2>1. /\ pc[f] = "del" /\ f \in users /\ UNCHANGED <<open, users, dir, tasks>>
        /\ \A g \in Fibers : pc'[g] = IF g = f THEN "close" ELSE pc[g]
        /\ event' = {} /\ \A e \in Ev : waiter'[e] = None
    BY <1>1, <1>15 DEF delEvent, kernel, frame, UseInv, Parked
  <2>2. \A g \in Fibers : tasks[g] = 0
    BY <1>1, <2>1 DEF UseInv, Closing
  <2> QED  BY <1>1, <1>2, <2>1, <2>2 DEF UseInv, Parked
<1>16. CASE CloseFd(t, f)
  <2>1. /\ pc[f] = "close" /\ ~open' /\ users' = {}
        /\ \A g \in Fibers : pc'[g] = IF g = f THEN "done" ELSE pc[g]
        /\ UNCHANGED <<dir, waiter, event, tasks>>
    BY <1>1, <1>16 DEF CloseFd, object, frame
  <2>2. event = {} /\ \A g \in Fibers : tasks[g] = 0
    BY <1>1, <2>1 DEF UseInv, Closing
  <2>3. \A g \in Fibers \ {f} : Parked(g)
    BY <1>3, <1>16 DEF CloseFd
  <2> QED  BY <1>1, <2>1, <2>2, <2>3 DEF UseInv, Parked
<1>17. ASSUME NEW e \in Uses[f], Call(t, f, e) PROVE UseInv'
  <2>1. /\ pc[f] = "app" /\ f \in users /\ UNCHANGED <<open, users, waiter, event, tasks>>
        /\ \A g \in Fibers : pc'[g] = IF g = f THEN "try" ELSE pc[g]
        /\ \A g \in Fibers : dir'[g] = IF g = f THEN e ELSE dir[g]
    BY <1>1, <1>17 DEF Call, kernel, object, UseInv, Parked
  <2>2. Closing' => Closing
    BY <2>1 DEF Closing
  <2>3. ASSUME NEW g \in Fibers, pc'[g] \notin {"new", "app", "del", "close", "done"}
        PROVE  dir'[g] \in Uses[g]
    BY <1>1, <2>1, <2>3 DEF UseInv
  <2>4. /\ \A g \in Fibers : pc'[g] = "close" => event = {}
        /\ Closing => \A g \in Fibers : tasks[g] = 0
    BY <1>1, <2>1 DEF UseInv
  <2> QED  BY <1>1, <2>1, <2>2, <2>3, <2>4 DEF UseInv, Parked
<1> QED
  BY <1>6, <1>7, <1>8, <1>9, <1>10, <1>11, <1>12, <1>13, <1>14, <1>15, <1>16, <1>17
  DEF FiberStep, InCall, AddEvent

\* Nobody waits for what a fiber is about to wait for ...
LEMMA NotYetKnown ==
  ASSUME OneEach, Base, NEW f \in Fibers, pc[f] \in {"test", "ctl", "set"}
  PROVE  dir[f] \notin event
<1>1. SUFFICES ASSUME dir[f] \in event PROVE FALSE
  OBVIOUS
<1>2. PICK g \in users : waiter[dir[f]] = g
  BY <1>1 DEF Base, UseInv, TypeOK
<1>3. g \in Fibers /\ dir[f] \in Ev
  BY <1>2 DEF Base, TypeOK
<1>4. pc[g] \in {"yield", "held"} /\ dir[g] = dir[f]
  BY <1>2, <1>3 DEF Base, WakeInv
<1>5. f # g /\ f \in users
  BY <1>4 DEF Base, UseInv, Parked
<1>6. Sharing
  BY <1>2, <1>5 DEF Base, UseInv
<1>7. dir[f] \in Uses[f] \cap Uses[g]
  BY <1>3, <1>4 DEF Base, UseInv
<1> QED  BY <1>3, <1>5, <1>6, <1>7 DEF OneEach

\* ... so that its registration succeeds.
LEMMA CtlSucceeds ==
  ASSUME OneThread, Base, WatchInv, NEW t \in Threads, NEW f \in Fibers, At(t, f, "ctl")
  PROVE  open /\ (fresh[f] <=> interest = {})
<1>1. f \in users /\ open
  BY DEF At, Base, UseInv, Parked
<1>2. lock = None /\ \A g \in Fibers : pc[g] \notin {"set", "del"}
  <2>1. lock = None /\ \A g \in Fibers : g # f => Parked(g)
    BY Solo DEF At
  <2> QED  BY <2>1 DEF At, Parked
<1>3. event = {} <=> interest = {}
  BY <1>2 DEF WatchInv
<1> QED  BY <1>1, <1>3 DEF At, WatchInv

LEMMA NoFailure ==
  ASSUME OneThread, OneEach, Base, WatchInv, NEW t \in Threads, NEW f \in Fibers
  PROVE  ~(addEventDup(t, f) \/ addEventFail(t, f))
<1>1. ~addEventDup(t, f)
  <2>1. SUFFICES ASSUME addEventDup(t, f) PROVE FALSE
    OBVIOUS
  <2>2. pc[f] = "test" /\ dir[f] \in event
    BY <2>1 DEF addEventDup, At
  <2> QED  BY <2>2, NotYetKnown
<1>2. ~addEventFail(t, f)
  <2>1. SUFFICES ASSUME addEventFail(t, f) PROVE FALSE
    OBVIOUS
  <2>2. At(t, f, "ctl") /\ (~open \/ fresh[f] # (interest = {}))
    BY <2>1 DEF addEventFail, Forget
  <2>3. open /\ (fresh[f] <=> interest = {})
    BY <2>2, CtlSucceeds
  <2>4. fresh[f] \in BOOLEAN
    BY DEF Base, TypeOK
  <2> QED  BY <2>2, <2>3, <2>4
<1> QED  BY <1>1, <1>2

LEMMA NextKnown ==
  ASSUME OneThread, OneEach, Alone, [Next]_vars
  PROVE  KnownInv'
<1> USE DEF At, Goto
<1>0. /\ Base /\ KnownInv /\ WatchInv
      /\ dir \in [Fibers -> Ev] /\ pc \in [Fibers -> Label]
      /\ waiter \in [Ev -> Fibers \cup {None}] /\ tasks \in [Fibers -> 0 .. 1]
      /\ users \subseteq Fibers
  BY DEF Alone, Base, TypeOK
<1>1. ASSUME UNCHANGED <<users, pc, tasks, waiter, dir>> PROVE KnownInv'
  BY <1>0, <1>1 DEF KnownInv, Closing
\* The fiber is not waiting after the step.
<1>2. ASSUME NEW f \in Fibers, NEW l \in Label \ {"yield", "held", "del", "close"},
             pc[f] \notin {"del", "close"}, pc' = [pc EXCEPT ![f] = l],
             users' \in {users, users \cup {f}}, waiter' = waiter,
             \A g \in Fibers : g # f => dir'[g] = dir[g] /\ tasks'[g] = tasks[g]
      PROVE  KnownInv'
  <2>1. \A g \in Fibers : pc'[g] = IF g = f THEN l ELSE pc[g]
    BY <1>0, <1>2
  <2>2. Closing => Closing'
    BY <1>2, <2>1 DEF Closing
  <2>3. \A g \in users' : g \in users \/ g = f
    BY <1>2
  <2> QED  BY <1>0, <1>2, <2>1, <2>2, <2>3 DEF KnownInv
<1>3. ASSUME NEW e \in Ev, Arrive(e) PROVE KnownInv'
  BY <1>1, <1>3 DEF Arrive, object, frame
<1>4. ASSUME NEW t \in Threads, Idle(t) PROVE KnownInv'
  <2>1. CASE IdleStep(t)
    BY <1>1, <2>1
    DEF IdleStep, EpollWait, HandleNothing, HandleEvents, Tick, cancelNothing,
        cancelEvent, RunCallback, RunStale, object, frame
  <2>2. CASE triggerEvent(t)
    <3>1. /\ UNCHANGED <<users, pc, dir>>
          /\ \A e \in Ev : waiter'[e] = IF e \in got[t] THEN None ELSE waiter[e]
      BY <2>2 DEF triggerEvent, frame
    <3>2. ~Closing
      BY <1>0, <2>2, Lull DEF triggerEvent
    <3>3. ASSUME NEW f \in users, pc[f] \in {"yield", "held"}, tasks'[f] = 0
          PROVE  waiter'[dir[f]] = f
      <4>1. f \in Fibers /\ dir[f] \in Ev
        BY <1>0
      <4>2. tasks'[f] = tasks[f] + Cardinality(Woken(t, f))
        BY <2>2, <4>1 DEF triggerEvent, Woken
      <4>3. tasks[f] = 0 /\ Cardinality(Woken(t, f)) = 0
        BY <1>0, <3>3, <4>1, <4>2, WokenOnce DEF Base
      <4>4. waiter[dir[f]] = f
        BY <1>0, <3>2, <3>3, <4>3 DEF KnownInv
      <4>5. dir[f] \notin Woken(t, f)
        BY <1>0, <4>1, <4>3, WokenOnce DEF Base
      <4> QED  BY <3>1, <4>1, <4>4, <4>5 DEF Woken
    <3> QED  BY <3>1, <3>3 DEF KnownInv
  <2> QED  BY <1>4, <2>1, <2>2 DEF Idle, IdleStep
<1>5. ASSUME NEW t \in Threads, NEW f \in Fibers, FiberStep(t, f) PROVE KnownInv'
  <2>1. CASE Succeed(t, f) \/ Block(t, f) \/ Fail(t, f) \/ addTimer(t, f) \/ Return(t, f)
    <3>1. PICK l \in {"app", "try", "timer", "test", "done"} : pc' = [pc EXCEPT ![f] = l]
      BY <2>1 DEF Succeed, Block, Fail, addTimer, Return
    <3>2. pc[f] \in {"try", "timer", "woken"}
      BY <2>1 DEF Succeed, Block, Fail, addTimer, Return
    <3>3. UNCHANGED <<users, waiter, dir, tasks>>
      BY <2>1 DEF Succeed, Block, Fail, addTimer, Return, kernel, object, frame
    <3>4. l \in Label \ {"yield", "held", "del", "close"}
      BY <3>1 DEF Label
    <3>5. pc[f] \notin {"del", "close"} /\ users' \in {users, users \cup {f}}
      BY <3>2, <3>3
    <3> QED  BY <1>2, <3>1, <3>3, <3>4, <3>5
  <2>2. CASE addEventDup(t, f) \/ addEventFail(t, f)
    BY <1>0, <2>2, NoFailure
  <2>3. CASE addEventTest(t, f) \/ addEventCtl(t, f)
    BY <1>2, <2>3 DEF addEventTest, addEventCtl, Forget, kernel, object, frame, Label
  <2>4. CASE addEvent(t, f)
    <3>1. /\ pc[f] = "set" /\ UNCHANGED <<users, dir, tasks>>
          /\ \A g \in Fibers : pc'[g] = IF g = f THEN "yield" ELSE pc[g]
          /\ \A e \in Ev : waiter'[e] = IF e = dir[f] THEN f ELSE waiter[e]
      BY <1>0, <2>4 DEF addEvent, frame
    <3>2. Closing => Closing'
      BY <3>1 DEF Closing
    <3>3. waiter[dir[f]] = None /\ None \notin Fibers
      BY <1>0, <3>1, NotYetKnown, HookedAssumption DEF Base, UseInv
    <3> QED  BY <1>0, <3>1, <3>2, <3>3 DEF KnownInv
  <2>5. CASE yieldToHold(t, f)
    <3>1. /\ pc[f] = "yield" /\ UNCHANGED <<users, dir, tasks, waiter>>
          /\ \A g \in Fibers : pc'[g] = IF g = f THEN "held" ELSE pc[g]
      BY <1>0, <2>5 DEF yieldToHold, object, frame
    <3>2. Closing => Closing'
      BY <3>1 DEF Closing
    <3> QED  BY <1>0, <3>1, <3>2 DEF KnownInv
  <2>6. CASE Resume(t, f)
    BY <1>0, <1>2, <2>6 DEF Resume, object, frame, Label
  <2>7. CASE Start(t, f)
    BY <1>2, <2>7 DEF Start, object, frame, Label
  <2>8. CASE Close(t, f) \/ delEvent(t, f)
    <3>1. Closing'
      BY <1>0, <2>8 DEF Close, delEvent, Closing
    <3> QED  BY <3>1 DEF KnownInv
  <2>9. CASE CloseFd(t, f)
    BY <2>9 DEF CloseFd, KnownInv
  <2>10. ASSUME NEW e \in Uses[f], Call(t, f, e) PROVE KnownInv'
    BY <1>0, <1>2, <2>10 DEF Call, kernel, object, Label
  <2> QED
    BY <1>5, <2>1, <2>2, <2>3, <2>4, <2>5, <2>6, <2>7, <2>8, <2>9, <2>10
    DEF FiberStep, InCall, AddEvent
<1>6. CASE UNCHANGED vars
  BY <1>1, <1>6 DEF vars, object, frame
<1> QED  BY <1>3, <1>4, <1>5, <1>6 DEF Next, FiberStep

LEMMA IdleWatch ==
  ASSUME OneThread, Alone, NEW t \in Threads, Idle(t)
  PROVE  WatchInv'
<1>0. /\ Base /\ WatchInv /\ event \subseteq Ev
      /\ at \in [Threads -> Place] /\ got \in [Threads -> SUBSET Ev]
  BY DEF Alone, Base, TypeOK
<1>1. /\ at[t] # "run"
      /\ \A f \in Fibers : pc[f] \notin {"ctl", "set", "del"}
      /\ ~Closing
  <2>1. at[t] # "run"
    BY DEF Idle, EpollWait, HandleNothing, HandleEvents, triggerEvent, Tick,
           cancelNothing, cancelEvent, RunCallback, RunStale
  <2> QED  BY <1>0, <2>1, Lull DEF Parked
<1>2. pc' = pc /\ dir' = dir
  BY DEF Idle, EpollWait, HandleNothing, HandleEvents, triggerEvent, Tick,
         cancelNothing, cancelEvent, RunCallback, RunStale, frame
<1>3. lock = None <=> at[t] # "trigger"
  BY <1>0, HookedAssumption DEF OneThread, Base, TurnInv, TypeOK
<1>4. CASE HandleEvents(t)
  <2>1. /\ lock' = t /\ lock' # None /\ UNCHANGED <<event, got>>
        /\ interest' = event \ got[t]
    BY <1>4, HookedAssumption DEF HandleEvents, Watch, Unwatch
  <2> QED  BY <1>1, <1>2, <2>1 DEF WatchInv
<1>5. CASE cancelEvent(t)
  <2>1. lock = None /\ event \subseteq interest
    BY <1>0, <1>1, <1>5 DEF cancelEvent, WatchInv
  <2>2. /\ lock' = t /\ lock' # None /\ UNCHANGED <<event, got>>
        /\ interest' = IF event \ got[t] = {} THEN {} ELSE event
    BY <1>5, <2>1, HookedAssumption DEF cancelEvent, Watch, Unwatch
  <2> QED  BY <1>1, <1>2, <2>2 DEF WatchInv
<1>6. CASE triggerEvent(t)
  <2>1. lock = t /\ lock # None
    BY <1>0, <1>6, HookedAssumption DEF triggerEvent, Base, TurnInv
  <2>2. lock' = None /\ event' = event \ got[t] /\ interest' = interest
    BY <1>6 DEF triggerEvent, kernel
  <2>3. event \ got[t] \subseteq interest /\ (event \ got[t] = {} => interest = {})
    BY <1>0, <2>1 DEF WatchInv
  <2> QED  BY <1>1, <1>2, <2>2, <2>3 DEF WatchInv
<1>7. CASE EpollWait(t) \/ HandleNothing(t) \/ Tick(t) \/ cancelNothing(t)
             \/ \E f \in Fibers : RunCallback(t, f) \/ RunStale(t, f)
  <2>1. at[t] # "trigger" /\ UNCHANGED <<event, interest, lock>>
    BY <1>7
    DEF EpollWait, HandleNothing, Tick, cancelNothing, RunCallback, RunStale,
        kernel, object
  <2>2. lock = None
    BY <1>3, <2>1
  <2> QED  BY <1>0, <1>1, <1>2, <2>1, <2>2 DEF WatchInv
<1> QED  BY <1>4, <1>5, <1>6, <1>7 DEF Idle

LEMMA FiberWatch ==
  ASSUME OneThread, OneEach, Alone, NEW t \in Threads, NEW f \in Fibers, FiberStep(t, f)
  PROVE  WatchInv'
<1> USE DEF At, Goto
<1>0. /\ Base /\ WatchInv /\ KnownInv
      /\ dir \in [Fibers -> Ev] /\ pc \in [Fibers -> Label]
      /\ mask \in [Fibers -> SUBSET Ev] /\ fresh \in [Fibers -> BOOLEAN]
      /\ event \subseteq Ev
  BY DEF Alone, Base, TypeOK
<1>1. at[t] = "run" /\ job[t] = f => lock = None /\ \A g \in Fibers : g # f => Parked(g)
  BY <1>0, Solo
<1>2. at[t] = "free" => lock = None /\ \A g \in Fibers : Parked(g)
  BY <1>0, Lull, HookedAssumption DEF OneThread, Base, TurnInv, TypeOK
<1>3. /\ lock = None /\ lock' = None
      /\ \A g \in Fibers : g # f => Parked(g) /\ pc'[g] = pc[g]
  <2>1. lock = None /\ \A g \in Fibers : g # f => Parked(g)
    BY <1>1, <1>2
    DEF FiberStep, InCall, AddEvent, Succeed, Block, Fail, addTimer, addEventDup,
        addEventTest, addEventFail, addEventCtl, Forget, addEvent, yieldToHold, Resume,
        Return, delEvent, CloseFd, Start, Close, Call
  <2>2. lock' = lock /\ \A g \in Fibers : g # f => pc'[g] = pc[g]
    BY <1>0
    DEF FiberStep, InCall, AddEvent, Succeed, Block, Fail, addTimer, addEventDup,
        addEventTest, addEventFail, addEventCtl, Forget, addEvent, yieldToHold, Resume,
        Return, delEvent, CloseFd, Start, Close, Call, object
  <2> QED  BY <2>1, <2>2
<1>4. \A g \in Fibers : g # f => pc'[g] \notin {"ctl", "set", "del"}
  BY <1>3 DEF Parked
\* What the four conditions of WatchInv come to when only f is at work.
<1>5. ASSUME pc'[f] \notin {"ctl", "set", "del"}, event' \subseteq interest',
             event' = {} => interest' = {}
      PROVE  WatchInv'
  BY <1>3, <1>4, <1>5 DEF WatchInv
<1>6. ASSUME pc[f] \notin {"set", "del"}
      PROVE  event \subseteq interest /\ (event = {} => interest = {})
  BY <1>0, <1>3, <1>6 DEF WatchInv, Parked
<1>7. CASE Succeed(t, f) \/ Block(t, f) \/ Fail(t, f) \/ addTimer(t, f)
             \/ yieldToHold(t, f) \/ Resume(t, f) \/ Return(t, f) \/ Start(t, f)
             \/ \E e \in Uses[f] : Call(t, f, e)
  <2>1. /\ pc[f] \notin {"set", "del"} /\ pc'[f] \notin {"ctl", "set", "del"}
        /\ UNCHANGED <<event, interest>>
    BY <1>0, <1>7
    DEF Succeed, Block, Fail, addTimer, yieldToHold, Resume, Return, Start, Call,
        kernel, object
  <2> QED  BY <1>5, <1>6, <2>1
<1>8. CASE addEventDup(t, f) \/ addEventFail(t, f)
  BY <1>0, <1>8, NoFailure
<1>9. CASE addEventTest(t, f)
  <2>1. /\ pc[f] = "test" /\ pc'[f] = "ctl" /\ UNCHANGED <<event, interest, dir>>
        /\ mask'[f] = event \cup {dir[f]} /\ fresh'[f] = (event = {})
    BY <1>0, <1>9 DEF addEventTest, kernel, object
  <2> QED  BY <1>3, <1>4, <1>6, <2>1 DEF WatchInv
<1>10. CASE addEventCtl(t, f)
  <2>1. /\ pc'[f] = "set" /\ UNCHANGED <<event, dir>>
        /\ interest' = event \cup {dir[f]}
    BY <1>0, <1>10 DEF addEventCtl, Forget, Watch, WatchInv, object, frame
  <2> QED  BY <1>3, <1>4, <2>1 DEF WatchInv
<1>11. CASE addEvent(t, f)
  <2>1. /\ pc[f] = "set" /\ pc'[f] = "yield" /\ event' = event \cup {dir[f]}
        /\ interest' = interest
    BY <1>0, <1>11 DEF addEvent, kernel
  <2>2. event \subseteq interest /\ dir[f] \in interest
    BY <1>0, <1>3, <2>1 DEF WatchInv, Parked
  <2> QED  BY <1>5, <2>1, <2>2
<1>12. CASE Close(t, f)
  <2>1. CASE event = {}
    BY <1>0, <1>5, <1>6, <1>12, <2>1 DEF Close, object
  <2>2. CASE event # {}
    <3>1. pc'[f] = "del" /\ interest' = {} /\ event' = event
      BY <1>0, <1>12, <2>2 DEF Close, Unwatch, object
    <3> QED  BY <1>3, <1>4, <3>1 DEF WatchInv
  <2> QED  BY <2>1, <2>2
<1>13. CASE delEvent(t, f)
  <2>1. pc[f] = "del" /\ pc'[f] = "close" /\ event' = {} /\ interest' = interest
    BY <1>0, <1>13 DEF delEvent, kernel
  <2> QED  BY <1>0, <1>5, <2>1 DEF WatchInv
<1>14. CASE CloseFd(t, f)
  <2>1. pc[f] = "close" /\ pc'[f] = "done" /\ interest' = {} /\ event' = event
    BY <1>0, <1>14 DEF CloseFd, Unwatch, object
  <2> QED  BY <1>0, <1>5, <2>1 DEF Base, UseInv
<1> QED
  BY <1>7, <1>8, <1>9, <1>10, <1>11, <1>12, <1>13, <1>14 DEF FiberStep, InCall, AddEvent

LEMMA NextEdge ==
  ASSUME OneThread, OneEach, Alone, [Next]_vars
  PROVE  EdgeInv'
<1> USE DEF At, Goto
<1>0. /\ Base /\ EdgeInv /\ WatchInv
      /\ dir \in [Fibers -> Ev] /\ pc \in [Fibers -> Label]
      /\ at \in [Threads -> Place] /\ got \in [Threads -> SUBSET Ev]
      /\ event \subseteq Ev /\ ready \subseteq Ev /\ interest \subseteq Ev
      /\ edge \in BOOLEAN
  BY DEF Alone, Base, TypeOK
<1>1. ASSUME UNCHANGED <<event, edge, pc, dir, at, got>>, ready' \subseteq ready
      PROVE  EdgeInv'
  BY <1>0, <1>1 DEF EdgeInv, Closing
<1>2. ASSUME NEW e \in Ev, Arrive(e) PROVE EdgeInv'
  <2>1. /\ ready' = ready \cup {e} /\ (edge' <=> edge \/ e \in interest)
        /\ UNCHANGED <<event, pc, dir, at, got, lock>>
    BY <1>2 DEF Arrive, object, pool, frame
  <2>2. ASSUME NEW f \in Fibers, pc[f] = "set", dir[f] = e PROVE edge'
    BY <1>0, <2>1, <2>2 DEF WatchInv
  <2>3. ASSUME ~Closing, e \in event
        PROVE  edge' \/ \E t \in Threads : at[t] = "trigger" /\ e \in got[t]
    <3>1. CASE lock = None
      BY <1>0, <2>1, <2>3, <3>1 DEF WatchInv, Closing
    <3>2. CASE lock # None
      <4>1. lock \in Threads /\ at[lock] = "trigger"
        BY <1>0, <3>2 DEF Base, TypeOK, TurnInv
      <4>2. e \in got[lock] \/ e \in interest
        BY <1>0, <2>3, <3>2 DEF WatchInv
      <4> QED  BY <2>1, <4>1, <4>2
    <3> QED  BY <3>1, <3>2
  <2> QED  BY <1>0, <2>1, <2>2, <2>3 DEF EdgeInv, Closing
<1>3. ASSUME NEW t \in Threads, Idle(t) PROVE EdgeInv'
  <2>1. /\ at[t] # "run" /\ ready' = ready /\ pc' = pc
    BY <1>3
    DEF Idle, EpollWait, HandleNothing, HandleEvents, triggerEvent, Tick,
        cancelNothing, cancelEvent, RunCallback, RunStale, kernel
  <2>2. ~Closing /\ (\A u \in Threads : u = t) /\ \A f \in Fibers : pc'[f] # "set"
    BY <1>0, <2>1, Lull DEF Parked
  <2>3. \A e \in event \cap ready :
          edge \/ (at[t] \in {"handle", "trigger"} /\ e \in got[t])
    BY <1>0, <2>2 DEF EdgeInv
  <2>4. SUFFICES ASSUME NEW e \in event' \cap ready
                 PROVE  edge' \/ (at'[t] \in {"handle", "trigger"} /\ e \in got'[t])
    BY <2>1, <2>2 DEF EdgeInv
  <2>5. event' \subseteq event
    BY <1>3
    DEF Idle, EpollWait, HandleNothing, HandleEvents, triggerEvent, Tick,
        cancelNothing, cancelEvent, RunCallback, RunStale, object
  <2>6. edge \/ (at[t] \in {"handle", "trigger"} /\ e \in got[t])
    BY <2>3, <2>4, <2>5
  <2>7. lock = None => e \in interest
    BY <1>0, <2>2, <2>4, <2>5 DEF WatchInv, Closing
  <2>8. CASE EpollWait(t)
    <3>1. lock = None
      BY <1>0, <2>8, HookedAssumption DEF EpollWait, OneThread, Base, TurnInv, TypeOK
    <3>2. e \in ready \cap interest
      BY <2>4, <2>7, <3>1
    <3> QED  BY <1>0, <2>8, <3>2 DEF EpollWait
  <2>9. CASE HandleNothing(t)
    <3>1. lock = None /\ event' = event /\ edge' = edge
      BY <2>9 DEF HandleNothing, object, kernel
    <3>2. e \notin got[t]
      BY <2>4, <2>7, <2>9, <3>1 DEF HandleNothing
    <3> QED  BY <2>6, <3>1, <3>2
  <2>10. CASE HandleEvents(t)
    <3>1. at'[t] = "trigger" /\ got' = got /\ event' = event
      BY <1>0, <2>10 DEF HandleEvents
    <3>2. CASE e \in got[t]
      BY <3>1, <3>2
    <3>3. CASE e \notin got[t]
      BY <2>4, <2>10, <3>1, <3>3 DEF HandleEvents, Watch
    <3> QED  BY <3>2, <3>3
  <2>11. CASE cancelEvent(t)
    <3>1. at'[t] = "trigger" /\ got' = got /\ event' = event /\ lock = None
      BY <1>0, <2>11 DEF cancelEvent
    <3>2. CASE e \in got[t]
      BY <3>1, <3>2
    <3>3. CASE e \notin got[t]
      <4>1. event \ got[t] # {} /\ interest # {} /\ event \cap ready # {}
        BY <2>4, <2>7, <3>1, <3>3
      <4> QED  BY <2>11, <4>1 DEF cancelEvent, Watch
    <3> QED  BY <3>2, <3>3
  <2>12. CASE triggerEvent(t)
    <3>1. event' = event \ got[t] /\ edge' = edge
      BY <2>12 DEF triggerEvent, kernel
    <3> QED  BY <2>4, <2>6, <3>1
  <2>13. CASE Tick(t) \/ cancelNothing(t) \/ \E f \in Fibers : RunCallback(t, f) \/ RunStale(t, f)
    <3>1. edge' = edge /\ at[t] \in {"free", "cancel"}
      BY <2>13 DEF Tick, cancelNothing, RunCallback, RunStale, kernel
    <3> QED  BY <2>6, <3>1
  <2> QED
    BY <1>3, <2>8, <2>9, <2>10, <2>11, <2>12, <2>13 DEF Idle
<1>4. ASSUME NEW t \in Threads, NEW f \in Fibers, FiberStep(t, f) PROVE EdgeInv'
  <2>1. (\A u \in Threads : u = t) /\ at[t] \in {"free", "run"}
    BY <1>4
    DEF OneThread, FiberStep, InCall, AddEvent, Succeed, Block, Fail, addTimer,
        addEventDup, addEventTest, addEventFail, addEventCtl, Forget, addEvent,
        yieldToHold, Resume, Return, delEvent, CloseFd, Start, Close, Call
  <2>2. /\ \A g \in Fibers : g # f => Parked(g)
        /\ \A g \in Fibers : g # f => pc'[g] = pc[g]
    <3>1. \A g \in Fibers : g # f => pc'[g] = pc[g]
      BY <1>0, <1>4
      DEF FiberStep, InCall, AddEvent, Succeed, Block, Fail, addTimer,
          addEventDup, addEventTest, addEventFail, addEventCtl, Forget, addEvent,
          yieldToHold, Resume, Return, delEvent, CloseFd, Start, Close, Call
    <3>2. at[t] = "free" \/ (at[t] = "run" /\ job[t] = f)
      BY <1>4
      DEF FiberStep, InCall, AddEvent, Succeed, Block, Fail, addTimer,
          addEventDup, addEventTest, addEventFail, addEventCtl, Forget, addEvent,
          yieldToHold, Resume, Return, delEvent, CloseFd, Start, Close, Call
    <3> QED  BY <1>0, <3>1, <3>2, Solo, Lull
  <2>3. \A g \in Fibers : g # f => pc'[g] \notin {"set", "del", "close"}
    BY <2>2 DEF Parked
  <2>4. ~Closing => \A e \in event \cap ready : edge
    BY <1>0, <2>1 DEF EdgeInv
  <2>5. Closing => pc[f] \in {"del", "close"}
    BY <2>2 DEF Closing, Parked
  \* A step that touches no registration.
  <2>6. ASSUME pc[f] \notin {"set", "del", "close"}, pc'[f] # "set",
               event' = event, edge' = edge, ready' \subseteq ready
        PROVE  EdgeInv'
    BY <1>0, <2>3, <2>4, <2>5, <2>6 DEF EdgeInv
  <2>7. CASE Succeed(t, f) \/ Block(t, f) \/ Fail(t, f) \/ addTimer(t, f)
               \/ addEventTest(t, f) \/ yieldToHold(t, f) \/ Resume(t, f)
               \/ Return(t, f) \/ Start(t, f) \/ \E e \in Uses[f] : Call(t, f, e)
    <3>1. /\ pc[f] \notin {"set", "del", "close"} /\ pc'[f] # "set"
          /\ event' = event /\ edge' = edge /\ ready' \subseteq ready
      BY <1>0, <2>7
      DEF Succeed, Block, Fail, addTimer, addEventTest, yieldToHold, Resume,
          Return, Start, Call, kernel, object
    <3> QED  BY <2>6, <3>1
  <2>8. CASE addEventDup(t, f) \/ addEventFail(t, f)
    BY <1>0, <2>8, NoFailure
  <2>9. CASE addEventCtl(t, f)
    <3>1. /\ event' = event /\ ready' = ready /\ dir' = dir /\ pc[f] = "ctl"
          /\ edge' <=> edge \/ (event \cup {dir[f]}) \cap ready # {}
      BY <1>0, <2>9 DEF addEventCtl, Forget, Watch, WatchInv, object, frame
    <3> QED  BY <1>0, <2>3, <2>4, <2>5, <3>1 DEF EdgeInv
  <2>10. CASE addEvent(t, f)
    <3>1. /\ event' = event \cup {dir[f]} /\ ready' = ready /\ dir' = dir
          /\ edge' = edge /\ pc[f] = "set" /\ pc'[f] = "yield"
      BY <1>0, <2>10 DEF addEvent, kernel, frame
    <3> QED  BY <1>0, <2>3, <2>4, <2>5, <3>1 DEF EdgeInv
  <2>11. CASE Close(t, f) \/ delEvent(t, f)
    <3>1. pc'[f] \in {"del", "close"}
      BY <1>0, <2>11 DEF Close, delEvent
    <3>2. Closing' /\ pc'[f] # "set"
      BY <3>1 DEF Closing
    <3> QED  BY <2>3, <3>2 DEF EdgeInv
  <2>12. CASE CloseFd(t, f)
    <3>1. ready' = {} /\ pc'[f] = "done"
      BY <1>0, <2>12 DEF CloseFd
    <3> QED  BY <2>3, <3>1 DEF EdgeInv
  <2> QED
    BY <1>4, <2>7, <2>8, <2>9, <2>10, <2>11, <2>12 DEF FiberStep, InCall, AddEvent
<1>5. CASE UNCHANGED vars
  BY <1>1, <1>5 DEF vars, kernel, object, pool, frame
<1> QED  BY <1>2, <1>3, <1>4, <1>5 DEF Next, FiberStep

LEMMA NextTime ==
  ASSUME OneThread, OneEach, Alone, [Next]_vars
  PROVE  TimeInv'
<1> USE DEF At, Goto
<1>0. /\ Base /\ TimeInv /\ WatchInv
      /\ dir \in [Fibers -> Ev] /\ pc \in [Fibers -> Label]
      /\ waiter \in [Ev -> Fibers \cup {None}]
      /\ at \in [Threads -> Place] /\ got \in [Threads -> SUBSET Ev]
      /\ timer \in [Fibers -> {"none", "armed", "due", "ran"}]
  BY DEF Alone, Base, TypeOK
<1>1. ASSUME UNCHANGED <<waiter, pc, dir, at, got, timer>> PROVE TimeInv'
  BY <1>0, <1>1 DEF TimeInv
<1>2. ASSUME NEW e \in Ev, Arrive(e) PROVE TimeInv'
  BY <1>1, <1>2 DEF Arrive, object, pool, frame, timing
<1>3. ASSUME NEW t \in Threads, Idle(t) PROVE TimeInv'
  <2>1. /\ at[t] # "run" /\ dir' = dir /\ pc' = pc
    BY <1>3
    DEF Idle, EpollWait, HandleNothing, HandleEvents, triggerEvent, Tick,
        cancelNothing, cancelEvent, RunCallback, RunStale, frame
  <2>2. (\A u \in Threads : u = t) /\ \A f \in Fibers : pc'[f] \notin {"test", "ctl", "set"}
    BY <1>0, <2>1, Lull DEF Parked
  <2>3. \A f \in Fibers : waiter[dir[f]] = f /\ dir[f] \in Timed =>
          \/ timer[f] \in {"armed", "due"}
          \/ at[t] \in {"cancel", "trigger"} /\ dir[f] \in got[t]
    BY <1>0, <2>2 DEF TimeInv
  <2>4. \A e \in Ev, f \in Fibers : waiter'[e] = f => waiter[e] = f
    BY <1>3, HookedAssumption
    DEF Idle, EpollWait, HandleNothing, HandleEvents, triggerEvent, Tick,
        cancelNothing, cancelEvent, RunCallback, RunStale, object
  <2>5. SUFFICES ASSUME NEW f \in Fibers, waiter'[dir[f]] = f, dir[f] \in Timed
                 PROVE  \/ timer'[f] \in {"armed", "due"}
                        \/ at'[t] \in {"cancel", "trigger"} /\ dir[f] \in got'[t]
    BY <2>1, <2>2 DEF TimeInv
  <2>6. /\ waiter[dir[f]] = f /\ dir[f] \in Ev
        /\ \/ timer[f] \in {"armed", "due"}
           \/ at[t] \in {"cancel", "trigger"} /\ dir[f] \in got[t]
    BY <1>0, <2>3, <2>4, <2>5
  <2>7. CASE EpollWait(t) \/ HandleNothing(t)
    BY <2>6, <2>7 DEF EpollWait, HandleNothing, timing
  <2>8. CASE HandleEvents(t) \/ cancelEvent(t)
    BY <1>0, <2>6, <2>8 DEF HandleEvents, cancelEvent, timing
  <2>9. CASE triggerEvent(t)
    <3>1. dir[f] \notin got[t]
      BY <2>5, <2>6, <2>9, HookedAssumption DEF triggerEvent
    <3> QED  BY <2>6, <2>9, <3>1 DEF triggerEvent, timing
  <2>10. CASE Tick(t)
    <3>1. timer[f] \in {"armed", "due"}
      BY <2>6, <2>10 DEF Tick
    <3> QED  BY <2>10, <3>1 DEF Tick
  <2>11. CASE cancelNothing(t)
    <3>1. dir[f] \in event
      BY <1>0, <2>6, HookedAssumption DEF Base, UseInv
    <3>2. dir[f] \notin got[t]
      BY <2>11, <3>1 DEF cancelNothing
    <3> QED  BY <2>6, <2>11, <3>2 DEF cancelNothing, timing
  <2>12. ASSUME NEW g \in Fibers, RunCallback(t, g) PROVE
                  \/ timer'[f] \in {"armed", "due"}
                  \/ at'[t] \in {"cancel", "trigger"} /\ dir[f] \in got'[t]
    <3>1. timer[f] \in {"armed", "due"}
      BY <2>6, <2>12 DEF RunCallback
    <3>2. at'[t] = "cancel" /\ got'[t] = {dir[g]} /\ timer' = [timer EXCEPT ![g] = "ran"]
      BY <1>0, <2>12 DEF RunCallback
    <3> QED  BY <1>0, <3>1, <3>2
  <2>13. ASSUME NEW g \in Fibers, RunStale(t, g) PROVE timer'[f] \in {"armed", "due"}
    BY <2>6, <2>13 DEF RunStale
  <2> QED
    BY <1>3, <2>7, <2>8, <2>9, <2>10, <2>11, <2>12, <2>13 DEF Idle
<1>4. ASSUME NEW t \in Threads, NEW f \in Fibers, FiberStep(t, f) PROVE TimeInv'
  <2>1. (\A u \in Threads : u = t) /\ at[t] \in {"free", "run"}
    BY <1>4
    DEF OneThread, FiberStep, InCall, AddEvent, Succeed, Block, Fail, addTimer,
        addEventDup, addEventTest, addEventFail, addEventCtl, Forget, addEvent,
        yieldToHold, Resume, Return, delEvent, CloseFd, Start, Close, Call
  <2>2. \A g \in Fibers : g # f => pc'[g] = pc[g] /\ dir'[g] = dir[g] /\ timer'[g] = timer[g]
    BY <1>0, <1>4
    DEF FiberStep, InCall, AddEvent, Succeed, Block, Fail, addTimer,
        addEventDup, addEventTest, addEventFail, addEventCtl, Forget, addEvent,
        yieldToHold, Resume, Return, delEvent, CloseFd, Start, Close, Call,
        frame, timing
  <2>3. \A g \in Fibers : waiter[dir[g]] = g /\ dir[g] \in Timed => timer[g] \in {"armed", "due"}
    BY <1>0, <2>1 DEF TimeInv
  \* What TimeInv comes to for the other fibers and for f.
  <2>4. ASSUME \A g \in Fibers : g # f /\ waiter'[dir[g]] = g => waiter[dir[g]] = g,
               pc'[f] \in {"test", "ctl", "set"} /\ dir'[f] \in Timed =>
                 timer'[f] \in {"armed", "due"},
               waiter'[dir'[f]] = f /\ dir'[f] \in Timed => timer'[f] \in {"armed", "due"}
        PROVE  TimeInv'
    BY <1>0, <2>2, <2>3, <2>4 DEF TimeInv
  <2>5. \A e \in Ev : pc[f] \notin {"yield", "held"} => waiter[e] # f
    BY <1>0 DEF Base, WakeInv
  <2>6. CASE Succeed(t, f) \/ Return(t, f) \/ Start(t, f) \/ Close(t, f)
               \/ CloseFd(t, f) \/ Resume(t, f) \/ \E e \in Uses[f] : Call(t, f, e)
    <3>1. /\ pc'[f] \notin {"test", "ctl", "set"} /\ waiter' = waiter
          /\ pc[f] # "yield"
      BY <1>0, <2>6
      DEF Succeed, Return, Start, Close, CloseFd, Resume, Call, object
    <3>2. \A e \in Ev : waiter[e] # f
      <4>1. CASE pc[f] \notin {"yield", "held"}
        BY <2>5, <4>1
      <4>2. CASE pc[f] = "held"
        <5>1. tasks[f] > 0
          BY <2>6, <4>2 DEF Succeed, Return, Start, Close, CloseFd, Resume, Call
        <5> QED  BY <1>0, <5>1 DEF Base, WakeInv
      <4> QED  BY <3>1, <4>1, <4>2
    <3>3. dir'[f] \in Ev
      <4>1. \A e \in Uses[f] : e \in Ev
        BY HookedAssumption
      <4> QED
        BY <1>0, <2>6, <4>1 DEF Succeed, Return, Start, Close, CloseFd, Resume, Call, frame
    <3> QED  BY <2>4, <3>1, <3>2, <3>3
  <2>7. CASE Block(t, f)
    <3>1. /\ waiter' = waiter /\ dir' = dir /\ timer' = timer /\ pc[f] = "try"
          /\ pc'[f] = IF dir[f] \in Timed THEN "timer" ELSE "test"
      BY <1>0, <2>7 DEF Block, object, frame
    <3> QED  BY <1>0, <2>4, <2>5, <3>1
  <2>8. CASE addTimer(t, f)
    <3>1. waiter' = waiter /\ dir' = dir /\ timer'[f] = "armed" /\ pc[f] = "timer"
      BY <1>0, <2>8 DEF addTimer, object, frame
    <3> QED  BY <1>0, <2>4, <3>1
  <2>9. CASE Fail(t, f) \/ addEventDup(t, f) \/ addEventFail(t, f)
    <3>1. ~Fail(t, f)
      BY <1>0 DEF Fail, Base, UseInv, Parked
    <3> QED  BY <1>0, <2>9, <3>1, NoFailure
  <2>10. CASE addEventTest(t, f) \/ addEventCtl(t, f)
    <3>1. /\ waiter' = waiter /\ dir' = dir /\ timer' = timer /\ pc[f] \in {"test", "ctl"}
      BY <2>10 DEF addEventTest, addEventCtl, Forget, object, frame, timing
    <3>2. dir[f] \in Timed => timer[f] \in {"armed", "due"}
      BY <1>0, <3>1 DEF TimeInv
    <3> QED  BY <1>0, <2>4, <3>1, <3>2
  <2>11. CASE addEvent(t, f)
    <3>1. /\ \A e \in Ev : waiter'[e] = IF e = dir[f] THEN f ELSE waiter[e]
          /\ dir' = dir /\ timer' = timer /\ pc[f] = "set" /\ pc'[f] = "yield"
      BY <1>0, <2>11 DEF addEvent, frame, timing
    <3>2. dir[f] \in Timed => timer[f] \in {"armed", "due"}
      BY <1>0, <3>1 DEF TimeInv
    <3> QED  BY <1>0, <2>4, <3>1, <3>2
  <2>12. CASE yieldToHold(t, f)
    <3>1. /\ waiter' = waiter /\ dir' = dir /\ timer' = timer /\ pc'[f] = "held"
      BY <1>0, <2>12 DEF yieldToHold, object, frame, timing
    <3> QED  BY <1>0, <2>3, <2>4, <3>1
  <2>13. CASE delEvent(t, f)
    <3>1. pc'[f] = "close" /\ dir' = dir /\ \A e \in Ev : waiter'[e] = None
      BY <1>0, <2>13 DEF delEvent, frame
    <3> QED  BY <1>0, <2>4, <3>1, HookedAssumption
  <2> QED
    BY <1>4, <2>6, <2>7, <2>8, <2>9, <2>10, <2>11, <2>12, <2>13
    DEF FiberStep, InCall, AddEvent
<1>5. CASE UNCHANGED vars
  BY <1>1, <1>5 DEF vars, object, pool, frame, timing
<1> QED  BY <1>2, <1>3, <1>4, <1>5 DEF Next, FiberStep

LEMMA NextAlone ==
  ASSUME OneThread, OneEach
  PROVE  Alone /\ [Next]_vars => Alone'
<1> SUFFICES ASSUME Alone, [Next]_vars PROVE Alone'
  OBVIOUS
<1>1. TypeOK' /\ WakeInv'
  BY NextType, NextWake DEF Alone, Base
<1>2. TurnInv' /\ UseInv'
  <2>1. ASSUME UNCHANGED <<open, users, pc, dir, waiter, event, tasks, at, job, lock>>
        PROVE  TurnInv' /\ UseInv'
    BY <2>1 DEF Alone, Base, TurnInv, UseInv, Parked, Closing
  <2>2. ASSUME NEW e \in Ev, Arrive(e) PROVE TurnInv' /\ UseInv'
    BY <2>1, <2>2 DEF Arrive, object, pool, frame
  <2>3. CASE UNCHANGED vars
    BY <2>1, <2>3 DEF vars, kernel, object, pool, frame
  <2> QED
    BY <2>2, <2>3, IdleTurn, FiberTurn, IdleUse, FiberUse DEF Next, FiberStep, Alone
<1>3. WatchInv'
  <2>1. ASSUME UNCHANGED <<event, interest, lock, got, pc, dir, mask, fresh>>
        PROVE  WatchInv'
    BY <2>1 DEF Alone, WatchInv
  <2>2. ASSUME NEW e \in Ev, Arrive(e) PROVE WatchInv'
    BY <2>1, <2>2 DEF Arrive, object, pool, frame
  <2>3. CASE UNCHANGED vars
    BY <2>1, <2>3 DEF vars, kernel, object, pool, frame
  <2> QED  BY <2>2, <2>3, IdleWatch, FiberWatch DEF Next, FiberStep
<1>4. KnownInv' /\ EdgeInv' /\ TimeInv'
  BY NextKnown, NextEdge, NextTime
<1> QED  BY <1>1, <1>2, <1>3, <1>4 DEF Alone, Base

\* On one thread no edge is lost between epoll, the Event object and the
\* fiber: for a fiber that waits for what is ready a wake-up is on its way,
\* whatever comes in, expires or is cancelled meanwhile.
THEOREM NoEdgeIsLost ==
  ASSUME OneThread, OneEach
  PROVE  Spec => []NoLostWakeup
<1>1. Alone => NoLostWakeup
  <2> SUFFICES ASSUME Alone, NEW f \in Fibers, Waits(f), dir[f] \in ready
               PROVE  edge \/ \E t \in Threads : at[t] = "handle" /\ dir[f] \in got[t]
    BY DEF NoLostWakeup
  <2>1. ~Closing
    <3>1. SUFFICES ASSUME NEW g \in Fibers, pc[g] \in {"del", "close"} PROVE FALSE
      BY DEF Closing
    <3>2. g \in users
      BY <3>1 DEF Alone, Base, UseInv, Parked
    <3> QED  BY <3>1, <3>2 DEF Waits
  <2>2. waiter[dir[f]] = f /\ dir[f] \in Ev
    BY <2>1 DEF Waits, Alone, Base, TypeOK, KnownInv
  <2>3. dir[f] \in event
    BY <2>2, HookedAssumption DEF Alone, Base, UseInv
  <2>4. \A t \in Threads : at[t] # "trigger"
    BY HookedAssumption DEF Waits, Alone, Base, TurnInv
  <2> QED  BY <2>1, <2>3, <2>4 DEF Alone, EdgeInv
<1> QED  BY <1>1, InitAlone, NextAlone, PTL DEF Spec, Alone

\* On one thread a wait with a time-out ends: its timer is still armed, or due,
\* or its callback is about to cancel the wait.
THEOREM TimeoutStaysAhead ==
  ASSUME OneThread, OneEach
  PROVE  Spec => []TimeoutAhead
<1>1. Alone => TimeoutAhead
  <2> SUFFICES ASSUME Alone, NEW f \in Fibers, Waits(f), dir[f] \in Timed
               PROVE  \/ timer[f] \in {"armed", "due"}
                      \/ \E t \in Threads : at[t] = "cancel" /\ dir[f] \in got[t]
    BY DEF TimeoutAhead
  <2>1. ~Closing
    <3>1. SUFFICES ASSUME NEW g \in Fibers, pc[g] \in {"del", "close"} PROVE FALSE
      BY DEF Closing
    <3>2. g \in users
      BY <3>1 DEF Alone, Base, UseInv, Parked
    <3> QED  BY <3>1, <3>2 DEF Waits
  <2>2. waiter[dir[f]] = f
    BY <2>1 DEF Waits, Alone, KnownInv
  <2>3. \A t \in Threads : at[t] # "trigger"
    BY HookedAssumption DEF Waits, Alone, Base, TurnInv
  <2> QED  BY <2>2, <2>3 DEF Alone, TimeInv
<1> QED  BY <1>1, InitAlone, NextAlone, PTL DEF Spec, Alone
=============================================================================
