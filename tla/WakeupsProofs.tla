---------------------------- MODULE WakeupsProofs ----------------------------
(***************************************************************************)
(* Proofs about Wakeups: no thread sleeps through a task it might take,    *)
(* and threads leave nothing behind when they stop.                        *)
(***************************************************************************)
EXTENDS Wakeups, SequenceTheorems, FiniteSetTheorems, TLAPS

\* Is a task of job j and kind k in the queue?
Queued(j, k) == \E i \in DOMAIN mTasks : mTasks[i].job = j /\ mTasks[i].kind = k

\* Does thread t hold a task of job j and kind k?
Holds(t, j, k) == task[t] # NoTask /\ task[t].job = j /\ task[t].kind = k

\* Is t at l, or will it be after its notification?
At(t, l) == pc[t] = l \/ (pc[t] = "notify" /\ then[t] = l)

\* A callback of j that has yet to be called.
Pending(t, j) == Holds(t, j, "callback") /\ ~ At(t, "yield")

Kind == {"fiber", "callback"}

\* Where addTask returns to.
Later == {"look", "run", "yield", "events", "stop", "main"}

TimersFinite == IsFiniteSet(armed \cup must)

\* A thread holds a task from Take until it is released.  A fiber that is about
\* to yield has queued itself.
Place(t) ==
  /\ then[t] # "main"
  /\ At(t, "run") => task[t] # NoTask
  /\ task[t] # NoTask => pc[t] \in {"count", "test", "del"} \/ At(t, "run") \/ At(t, "yield")
  /\ pc[t] = "del" => \E j \in Jobs : Holds(t, j, "fiber")
  /\ At(t, "yield") =>
       \E j \in Jobs : \/ Holds(t, j, "callback")
                       \/ Holds(t, j, "fiber") /\ Queued(j, "fiber")

PlaceInv == \A t \in Threads : Place(t)

\* A job runs on one thread; if it does not run, and does not wait for an
\* event either, then something is queued, held or armed that goes on with it.
OneJob(j) ==
  /\ \A t \in Threads : Holds(t, j, "fiber") => status[j] = "running"
  /\ \A t, u \in Threads : Holds(t, j, "fiber") /\ Holds(u, j, "fiber") => t = u
  /\ status[j] = "running" => \E t \in Threads : Holds(t, j, "fiber")
  /\ status[j] = "queued" => Queued(j, "fiber")
  /\ status[j] = "asleep" =>
       \/ j \in armed \/ Queued(j, "callback")
       \/ \E t \in Threads : Pending(t, j)

JobInv == \A j \in Jobs : OneJob(j)

\* Someone will look at a queue that is not empty.
QueueNoticed == mTasks # << >> => edge \/ \E a \in Actors : Attentive(a)

\* What a thread in stopping(), or one that has left, has read still holds.
Agrees(t) ==
  /\ pc[t] # "stop" => mTimerCnt = 0
  /\ pc[t] \in {"stopActive", "stopTimers", "left"} => mStopping /\ mTasks = << >>
  /\ pc[t] \in {"stopTimers", "left"} => Active = {}

Stops(t) == pc[t] \in StopLabel \cup {"left"}

\* If all threads stop, what the last of them to begin has read still holds,
\* as nobody is there to change it.
LastAgrees == (\A t \in Threads : Stops(t)) => \E t \in Threads : Agrees(t)

IInv == TypeOK /\ TimersFinite /\ PlaceInv /\ JobInv /\ QueueNoticed /\ LastAgrees
-----------------------------------------------------------------------------
\* Facts about the queue.

\* What was queued is queued.
Kept == \A j \in Jobs, k \in Kind : Queued(j, k) => Queued(j, k)'

\* A sequence of tasks at the end of the queue.
LEMMA Appended ==
  ASSUME TypeOK, NEW s \in Seq(Task), mTasks' = mTasks \o s
  PROVE  /\ mTasks' \in Seq(Task) /\ Kept
         /\ \A i \in DOMAIN s : Queued(s[i].job, s[i].kind)'
         /\ mTasks' = << >> => mTasks = << >>
<1>1. /\ mTasks' \in Seq(Task)
      /\ Len(mTasks') = Len(mTasks) + Len(s)
      /\ \A i \in 1 .. Len(mTasks) + Len(s) :
           mTasks'[i] = IF i <= Len(mTasks) THEN mTasks[i] ELSE s[i - Len(mTasks)]
  BY ConcatProperties DEF TypeOK
<1>2. /\ DOMAIN mTasks' = 1 .. Len(mTasks) + Len(s) /\ DOMAIN s = 1 .. Len(s)
      /\ DOMAIN mTasks = 1 .. Len(mTasks) /\ Len(s) \in Nat /\ Len(mTasks) \in Nat
  BY <1>1, LenProperties DEF TypeOK
<1>3. Kept
  BY <1>1, <1>2 DEF Kept, Queued
<1>4. ASSUME NEW i \in DOMAIN s
      PROVE  Queued(s[i].job, s[i].kind)'
  <2>1. Len(mTasks) + i \in DOMAIN mTasks' /\ mTasks'[Len(mTasks) + i] = s[i]
    BY <1>1, <1>2
  <2> QED  BY <2>1 DEF Queued
<1>5. mTasks' = << >> => mTasks = << >>
  BY <1>1, <1>2 DEF TypeOK
<1> QED  BY <1>1, <1>3, <1>4, <1>5

\* addTask of one task: a notification follows if the queue was empty.
LEMMA AddTask ==
  ASSUME TypeOK, NEW a \in Actors, NEW e \in Task, NEW l \in Later,
         addTask(a, << e >>, l)
  PROVE  /\ mTasks' \in Seq(Task) /\ Kept /\ Queued(e.job, e.kind)'
         /\ pc' \in [Actors -> Label] /\ then' \in [Actors -> Later]
         /\ \/ Goto(a, "notify") /\ then' = [then EXCEPT ![a] = l]
            \/ mTasks # << >> /\ Goto(a, l) /\ then' = then
<1>1. << e >> \in Seq(Task) /\ DOMAIN << e >> = {1} /\ << e >>[1] = e
  OBVIOUS
<1>2. mTasks' \in Seq(Task) /\ Kept /\ Queued(e.job, e.kind)'
  BY <1>1, Appended DEF addTask
<1>3. \/ Goto(a, "notify") /\ then' = [then EXCEPT ![a] = l]
      \/ mTasks # << >> /\ Goto(a, l) /\ then' = then
  BY DEF addTask
<1>4. l \in Label /\ "notify" \in Label
  BY DEF Later, Label, StopLabel
<1>5. pc' \in [Actors -> Label] /\ then' \in [Actors -> Later]
  BY <1>3, <1>4 DEF TypeOK, Goto, Later
<1> QED  BY <1>2, <1>3, <1>5

\* The callbacks of the timers that are due.
LEMMA AddTasks ==
  ASSUME TypeOK, TimersFinite, NEW t \in Threads, addTasks(t, Due)
  PROVE  /\ mTasks' \in Seq(Task) /\ Kept
         /\ \A j \in Due : Queued(j, "callback")'
         /\ mTasks' = << >> => mTasks = << >>
<1>1. IsFiniteSet(Due) /\ Due \subseteq Jobs
  BY FS_EmptySet, FS_Subset DEF TimersFinite, Due, TypeOK
<1>2. Cardinality(Due) \in Nat
  BY <1>1, FS_CardinalityType
<1> PICK s \in SetToSeqs(Due) : mTasks' = mTasks \o [i \in DOMAIN s |-> Callback(s[i])]
  BY DEF addTasks
<1> DEFINE D == 1 .. Cardinality(Due)
           c == [i \in DOMAIN s |-> Callback(s[i])]
<1>3. s \in [D -> Due] /\ \A i, j \in D : i # j => s[i] # s[j]
  BY DEF SetToSeqs
<1>4. c \in Seq(Task)
  <2>1. ASSUME NEW i \in D PROVE Callback(s[i]) \in Task
    BY <1>1, <1>3 DEF Callback, Task
  <2>2. c \in [D -> Task]
    BY <1>3, <2>1
  <2> QED  BY <1>2, <2>2, SeqDef
<1>5. ASSUME NEW j \in Due PROVE \E i \in DOMAIN c : c[i].job = j /\ c[i].kind = "callback"
  <2>1. s \in Injection(D, Due)
    BY <1>3 DEF Injection, IsInjective
  <2>2. Cardinality(D) = Cardinality(Due)
    BY <1>2, FS_Interval
  <2>3. s \in Surjection(D, Due)
    BY <1>1, <2>1, <2>2, FS_Injection
  <2>4. PICK i \in D : s[i] = j
    BY <2>3 DEF Surjection
  <2> QED  BY <1>3, <2>4 DEF Callback
<1> HIDE DEF c
<1>6. /\ mTasks' \in Seq(Task) /\ Kept /\ (mTasks' = << >> => mTasks = << >>)
      /\ \A i \in DOMAIN c : Queued(c[i].job, c[i].kind)'
  BY <1>4, Appended DEF c
<1> QED  BY <1>5, <1>6

\* A task is taken out of the queue.
LEMMA Removed ==
  ASSUME TypeOK, NEW i \in DOMAIN mTasks, mTasks' = RemoveAt(mTasks, i)
  PROVE  /\ mTasks' \in Seq(Task) /\ mTasks[i] \in Task
         /\ \A j \in Jobs, k \in Kind :
              Queued(j, k) => Queued(j, k)' \/ (mTasks[i].job = j /\ mTasks[i].kind = k)
<1> DEFINE n == Len(mTasks)
           u == SubSeq(mTasks, 1, i - 1)
           v == SubSeq(mTasks, i + 1, n)
<1>1. n \in Nat /\ i \in 1 .. n /\ DOMAIN mTasks = 1 .. n /\ \A m \in 1 .. n : mTasks[m] \in Task
  BY LenProperties, ElementOfSeq DEF TypeOK
<1>2. /\ u \in Seq(Task) /\ Len(u) = i - 1
      /\ \A m \in 1 .. i - 1 : u[m] = mTasks[m]
  <2>1. \A m \in 1 .. i - 1 : mTasks[m] \in Task
    BY <1>1
  <2>2. /\ Len(u) = IF 1 <= i - 1 THEN i - 1 - 1 + 1 ELSE 0
        /\ \A m \in 1 .. i - 1 - 1 + 1 : u[m] = mTasks[1 + m - 1]
        /\ u \in Seq(Task)
    BY <1>1, <2>1, SubSeqProperties
  <2> QED  BY <1>1, <2>2
<1>3. /\ v \in Seq(Task) /\ Len(v) = n - i
      /\ \A m \in 1 .. n - i : v[m] = mTasks[i + m]
  <2>1. \A m \in i + 1 .. n : mTasks[m] \in Task
    BY <1>1
  <2>2. /\ Len(v) = IF i + 1 <= n THEN n - (i + 1) + 1 ELSE 0
        /\ \A m \in 1 .. n - (i + 1) + 1 : v[m] = mTasks[i + 1 + m - 1]
        /\ v \in Seq(Task)
    BY <1>1, <2>1, SubSeqProperties
  <2> QED  BY <1>1, <2>2
<1> HIDE DEF n, u, v
<1>4. mTasks' = u \o v
  BY DEF RemoveAt, n, u, v
<1>5. /\ mTasks' \in Seq(Task) /\ Len(mTasks') = n - 1
      /\ \A m \in 1 .. n - 1 :
           mTasks'[m] = IF m <= i - 1 THEN u[m] ELSE v[m - (i - 1)]
  <2>1. /\ u \o v \in Seq(Task) /\ Len(u \o v) = Len(u) + Len(v)
        /\ \A m \in 1 .. Len(u) + Len(v) :
             (u \o v)[m] = IF m <= Len(u) THEN u[m] ELSE v[m - Len(u)]
    BY <1>2, <1>3, ConcatProperties
  <2>2. Len(u) + Len(v) = n - 1
    BY <1>1, <1>2, <1>3
  <2> QED  BY <1>2, <1>4, <2>1, <2>2
<1>6. DOMAIN mTasks' = 1 .. n - 1
  BY <1>5, LenProperties
<1>7. ASSUME NEW m \in 1 .. n, m # i
      PROVE  \E p \in DOMAIN mTasks' : mTasks'[p] = mTasks[m]
  <2>1. CASE m < i
    BY <1>1, <1>2, <1>5, <1>6, <2>1
  <2>2. CASE m > i
    <3>1. m - 1 \in DOMAIN mTasks' /\ m - i \in 1 .. n - i /\ ~ (m - 1 <= i - 1)
      BY <1>1, <1>6, <2>2
    <3>2. mTasks'[m - 1] = v[m - i] /\ v[m - i] = mTasks[i + (m - i)] /\ i + (m - i) = m
      BY <1>1, <1>3, <1>5, <1>6, <3>1
    <3> QED  BY <3>1, <3>2
  <2> QED  BY <1>1, <1>7, <2>1, <2>2
<1>8. ASSUME NEW j \in Jobs, NEW k \in Kind, Queued(j, k)
      PROVE  Queued(j, k)' \/ (mTasks[i].job = j /\ mTasks[i].kind = k)
  <2>1. PICK m \in 1 .. n : mTasks[m].job = j /\ mTasks[m].kind = k
    BY <1>1, <1>8 DEF Queued
  <2>2. CASE m = i
    BY <2>1, <2>2
  <2>3. CASE m # i
    BY <1>7, <2>1, <2>3 DEF Queued
  <2> QED  BY <2>2, <2>3
<1> QED  BY <1>1, <1>5, <1>8

-----------------------------------------------------------------------------
\* Types.

\* What a thread holds when it runs.
LEMMA TaskHeld ==
  ASSUME TypeOK, PlaceInv, NEW t \in Threads, pc[t] = "run"
  PROVE  task[t] \in Task /\ task[t].job \in Jobs /\ task[t].kind \in Kind
BY DEF TypeOK, PlaceInv, Place, At, Task, Kind

LEMMA Tasks ==
  \A j \in Jobs : /\ Fiber(j) \in Task /\ Fiber(j).job = j /\ Fiber(j).kind = "fiber"
                  /\ NewJob(j) \in Task /\ NewJob(j).job = j /\ NewJob(j).kind = "fiber"
BY WakeupsAssumption DEF Fiber, NewJob, Task

\* A fiber is queued.
LEMMA AddFiber ==
  ASSUME TypeOK, NEW a \in Actors, NEW j \in Jobs, NEW l \in Later,
         addTask(a, << Fiber(j) >>, l)
  PROVE  /\ Kept /\ Queued(j, "fiber")'
         /\ \/ Goto(a, "notify") /\ then' = [then EXCEPT ![a] = l]
            \/ Goto(a, l) /\ then' = then
<1>1. Fiber(j) \in Task /\ Fiber(j).job = j /\ Fiber(j).kind = "fiber"
  BY Tasks
<1> HIDE DEF Fiber
<1>2. Kept /\ Queued(Fiber(j).job, Fiber(j).kind)'
  BY <1>1, AddTask
<1> QED  BY <1>1, <1>2 DEF addTask

\* TypeOK, without what it says of the timers.
Plain ==
  /\ mTasks \in Seq(Task) /\ edge \in BOOLEAN /\ mStopping \in BOOLEAN
  /\ status \in [Jobs -> {"new", "queued", "running", "waiting", "asleep", "done"}]
  /\ pc \in [Actors -> Label] /\ then \in [Actors -> Later]
  /\ task \in [Threads -> Task \cup {NoTask}]
  /\ isTrickle \in [Threads -> BOOLEAN]

Clocks ==
  /\ waitTime \in [Threads -> 0 .. mTickTime]
  /\ slept \in [Threads -> 0 .. mTickTime] /\ since \in 0 .. mTickTime

\* What mTimerCnt has to count.
Owed == (armed \ Deleting) \cup must

Counted ==
  /\ armed \subseteq Jobs /\ must \subseteq Jobs
  /\ mTimerCnt \in Nat /\ mTimerCnt >= Cardinality(Owed)
  /\ TimersFinite

LEMMA TypeParts ==
  TypeOK /\ TimersFinite <=> Plain /\ Clocks /\ Counted
BY DEF TypeOK, Plain, Clocks, Counted, Owed, Later

\* Every step but those of delTimer leaves Deleting alone.
LEMMA DeletingKept ==
  ASSUME Plain, NEW a \in Actors, NEW l \in Label \ {"del"}, Goto(a, l), pc[a] # "del",
         \A t \in Threads \ {a} : task'[t] = task[t]
  PROVE  Deleting' = Deleting
<1>1. \A t \in Threads : pc'[t] = "del" <=> pc[t] = "del"
  BY DEF Goto, Plain, Actors
<1>2. \A t \in Threads : pc[t] = "del" => task'[t] = task[t]
  OBVIOUS
<1> QED  BY <1>1, <1>2 DEF Deleting

\* The timers that mTimerCnt counts become fewer, or one more with a ++.
LEMMA CountKept ==
  ASSUME Counted, armed' \subseteq Jobs, must' \subseteq Jobs, IsFiniteSet(armed' \cup must'),
         \/ mTimerCnt' = mTimerCnt /\ Owed' \subseteq Owed
         \/ \E j \in Jobs : mTimerCnt' = mTimerCnt + 1 /\ Owed' \subseteq Owed \cup {j}
         \/ \E j \in Owed : mTimerCnt' = mTimerCnt - 1 /\ Owed' \subseteq Owed \ {j}
  PROVE  Counted'
<1>1. IsFiniteSet(Owed)
  BY FS_Subset DEF Owed, Counted, TimersFinite
<1>2. Cardinality(Owed) \in Nat
  BY <1>1, FS_CardinalityType
<1>3. \A S : S \subseteq Owed => Cardinality(S) <= Cardinality(Owed) /\ Cardinality(S) \in Nat
  BY <1>1, FS_Subset, FS_CardinalityType
<1>4. \A j \in Owed : /\ IsFiniteSet(Owed \ {j})
                      /\ Cardinality(Owed \ {j}) = Cardinality(Owed) - 1
                      /\ Cardinality(Owed \ {j}) \in Nat
  BY <1>1, FS_RemoveElement, FS_CardinalityType
<1>5. \A j : /\ IsFiniteSet(Owed \cup {j})
             /\ Cardinality(Owed \cup {j}) <= Cardinality(Owed) + 1
             /\ Cardinality(Owed \cup {j}) \in Nat
  <2> SUFFICES ASSUME NEW j
               PROVE  /\ IsFiniteSet(Owed \cup {j})
                      /\ Cardinality(Owed \cup {j}) <= Cardinality(Owed) + 1
                      /\ Cardinality(Owed \cup {j}) \in Nat
    OBVIOUS
  <2>1. /\ IsFiniteSet(Owed \cup {j})
        /\ Cardinality(Owed \cup {j}) =
             IF j \in Owed THEN Cardinality(Owed) ELSE Cardinality(Owed) + 1
    BY <1>1, FS_AddElement
  <2> QED  BY <1>2, <2>1
<1>6. mTimerCnt' \in Nat /\ mTimerCnt' >= Cardinality(Owed')
  <2>1. CASE mTimerCnt' = mTimerCnt /\ Owed' \subseteq Owed
    <3>1. Cardinality(Owed') <= Cardinality(Owed) /\ Cardinality(Owed') \in Nat
      BY <1>3, <2>1
    <3> QED  BY <1>2, <2>1, <3>1 DEF Counted
  <2>2. ASSUME NEW j \in Jobs, mTimerCnt' = mTimerCnt + 1, Owed' \subseteq Owed \cup {j}
        PROVE  mTimerCnt' \in Nat /\ mTimerCnt' >= Cardinality(Owed')
    <3>1. /\ Cardinality(Owed') <= Cardinality(Owed \cup {j})
          /\ Cardinality(Owed') \in Nat
      BY <1>5, <2>2, FS_Subset, FS_CardinalityType
    <3>2. /\ Cardinality(Owed \cup {j}) <= Cardinality(Owed) + 1
          /\ Cardinality(Owed \cup {j}) \in Nat
      BY <1>5
    <3>3. mTimerCnt \in Nat /\ mTimerCnt >= Cardinality(Owed)
      BY DEF Counted
    <3> QED  BY <1>2, <2>2, <3>1, <3>2, <3>3
  <2>3. ASSUME NEW j \in Owed, mTimerCnt' = mTimerCnt - 1, Owed' \subseteq Owed \ {j}
        PROVE  mTimerCnt' \in Nat /\ mTimerCnt' >= Cardinality(Owed')
    <3>1. /\ Cardinality(Owed') <= Cardinality(Owed \ {j})
          /\ Cardinality(Owed') \in Nat
      BY <1>4, <2>3, FS_Subset, FS_CardinalityType
    <3>2. /\ Cardinality(Owed \ {j}) = Cardinality(Owed) - 1
          /\ Cardinality(Owed \ {j}) \in Nat
      BY <1>4
    <3>3. mTimerCnt \in Nat /\ mTimerCnt >= Cardinality(Owed)
      BY DEF Counted
    <3> QED  BY <1>2, <2>3, <3>1, <3>2, <3>3
  <2> QED  BY <2>1, <2>2, <2>3
<1> QED  BY <1>6 DEF Counted, TimersFinite

LEMMA CountStep ==
  ASSUME TypeOK, TimersFinite, PlaceInv, Next
  PROVE  Counted'
<1> USE DEF queue, timers, thread, clock
<1>0. Plain /\ Counted
  BY TypeParts
<1>1. ASSUME UNCHANGED timers, Deleting' = Deleting PROVE Counted'
  BY <1>0, <1>1 DEF Counted, Owed, TimersFinite
<1>2. ASSUME NEW a \in Actors, trickle(a) PROVE Counted'
  <2>1. pc[a] = "notify" /\ Goto(a, then[a]) /\ task' = task /\ UNCHANGED timers
    BY <1>2 DEF trickle
  <2>2. then[a] \in Label \ {"del"}
    BY <1>0 DEF Plain, Later, Label, StopLabel
  <2> QED  BY <1>0, <1>1, <2>1, <2>2, DeletingKept
<1>3. ASSUME NEW t \in Threads,
             \/ Take(t) \/ CountActive(t) \/ FindNothing(t) \/ Test(t) \/ Yield(t)
             \/ stopping(t) \/ EventFd(t) \/ AfterEvents(t)
             \/ \E j \in Jobs : Return(t, j) \/ Wait(t, j)
      PROVE  Counted'
  <2>1. pc[t] # "del" /\ UNCHANGED timers /\ \A u \in Threads \ {t} : task'[u] = task[u]
    BY <1>0, <1>3 DEF Take, CountActive, FindNothing, Test, Yield, Return, Wait, Step, Runs, stopping,
       Read, EventFd, AfterEvents, Release, Plain
  <2>2. \E l \in Label \ {"del"} : Goto(t, l)
    BY <1>3 DEF Take, CountActive, FindNothing, Test, Yield, Return, Wait, stopping, Read,
       EventFd, AfterEvents, Label, StopLabel
  <2> QED  BY <1>0, <1>1, <2>1, <2>2, DeletingKept DEF Actors
<1>4. ASSUME NEW a \in Actors, NEW s, NEW l \in Later, addTask(a, s, l), pc[a] # "del",
             task' = task
      PROVE  Deleting' = Deleting
  <2>1. \E m \in Label \ {"del"} : Goto(a, m)
    BY <1>4 DEF addTask, Later, Label, StopLabel
  <2> QED  BY <1>0, <1>4, <2>1, DeletingKept
<1>5. ASSUME NEW t \in Threads, RunCallback(t) PROVE Counted'
  <2>1. pc[t] # "del" /\ task' = task /\ UNCHANGED timers /\ t \in Actors
    BY <1>5 DEF RunCallback, Actors
  <2>2. (\E s : addTask(t, s, "yield")) \/ Goto(t, "yield")
    BY <1>5 DEF RunCallback
  <2>3. "yield" \in Later /\ "yield" \in Label \ {"del"}
    BY DEF Later, Label
  <2>4. Deleting' = Deleting
    BY <1>0, <1>4, <2>1, <2>2, <2>3, DeletingKept
  <2> QED  BY <1>1, <2>1, <2>4
<1>6. ASSUME NEW t \in Threads, NEW j \in Jobs,
             Again(t, j) \/ Event(t, j) \/ \E k \in Jobs : AddsJob(t, j, k)
      PROVE  Counted'
  <2>1. pc[t] # "del" /\ task' = task /\ UNCHANGED timers /\ t \in Actors
    BY <1>6 DEF Again, Event, AddsJob, Step, Runs, Actors
  <2>2. \E s : \E l \in {"yield", "events", "run"} : addTask(t, s, l)
    BY <1>6 DEF Again, Event, AddsJob
  <2>3. {"yield", "events", "run"} \subseteq Later
    BY DEF Later
  <2> QED  BY <1>1, <1>4, <2>1, <2>2, <2>3
<1>7. ASSUME NEW j \in Jobs, Submit(j) PROVE Counted'
  <2>1. /\ pc[Main] # "del" /\ task' = task /\ UNCHANGED timers /\ Main \in Actors
        /\ \E s : addTask(Main, s, "main")
    BY <1>7 DEF Submit, Actors
  <2> QED  BY <1>1, <1>4, <2>1 DEF Later
<1>8. ASSUME NEW t \in Threads, NEW j \in Jobs, WaitTimed(t, j) \/ sleep(t, j)
      PROVE  Counted'
  <2>1. /\ pc[t] # "del" /\ Goto(t, "look") /\ \A u \in Threads \ {t} : task'[u] = task[u]
        /\ mTimerCnt' = mTimerCnt + 1 /\ armed' = armed \cup {j}
        /\ must' = must \/ must' = must \cup {j}
    BY <1>0, <1>8 DEF WaitTimed, sleep, addTimer, Step, Runs, Release, Plain
  <2>2. Deleting' = Deleting
    BY <1>0, <2>1, DeletingKept DEF Actors, Label
  <2>3. Owed' \subseteq Owed \cup {j} /\ IsFiniteSet((armed \cup must) \cup {j})
    BY <1>0, <2>1, <2>2, FS_AddElement DEF Owed, Counted, TimersFinite
  <2>4. armed' \cup must' \subseteq (armed \cup must) \cup {j}
    BY <2>1
  <2>5. IsFiniteSet(armed' \cup must')
    BY <2>3, <2>4, FS_Subset
  <2>6. armed' \subseteq Jobs /\ must' \subseteq Jobs
    BY <1>0, <2>1 DEF Counted
  <2> QED  BY <1>0, <2>1, <2>3, <2>5, <2>6, CountKept
<1>9. ASSUME NEW t \in Threads, NEW j \in Jobs, delTimer(t, j) PROVE Counted'
  <2>1. /\ pc[t] # "del" /\ Goto(t, "del") /\ task' = task /\ task[t].job = j /\ j \in must
        /\ mTimerCnt' = mTimerCnt - 1 /\ armed' = armed /\ must' = must \ {j}
    BY <1>9 DEF delTimer, Runs
  <2>2. Deleting' = Deleting \cup {j}
    <3>1. pc'[t] = "del" /\ \A u \in Threads \ {t} : pc'[u] = pc[u]
      BY <1>0, <2>1 DEF Goto, Plain, Actors
    <3> QED  BY <2>1, <3>1 DEF Deleting
  <2>3. Owed' \subseteq Owed \ {j} /\ j \in Owed
    BY <2>1, <2>2 DEF Owed
  <2>4. armed' \cup must' \subseteq armed \cup must
    BY <2>1
  <2>5. IsFiniteSet(armed' \cup must') /\ armed' \subseteq Jobs /\ must' \subseteq Jobs
    BY <1>0, <2>1, <2>4, FS_Subset DEF Counted, TimersFinite
  <2> QED  BY <1>0, <2>1, <2>3, <2>5, CountKept
<1>10. ASSUME NEW t \in Threads, DelFromWheel(t) PROVE Counted'
  <2>1. /\ pc[t] = "del" /\ Goto(t, "run") /\ task' = task
        /\ mTimerCnt' = mTimerCnt /\ armed' = armed \ {task[t].job} /\ must' = must
    BY <1>10 DEF DelFromWheel
  <2>2. Deleting \subseteq Deleting' \cup {task[t].job}
    <3>1. \A u \in Threads \ {t} : pc'[u] = pc[u]
      BY <1>0, <2>1 DEF Goto, Plain, Actors
    <3> QED  BY <2>1, <3>1 DEF Deleting
  <2>3. Owed' \subseteq Owed
    BY <2>1, <2>2 DEF Owed
  <2>4. armed' \cup must' \subseteq armed \cup must
    BY <2>1
  <2>5. IsFiniteSet(armed' \cup must') /\ armed' \subseteq Jobs /\ must' \subseteq Jobs
    BY <1>0, <2>1, <2>4, FS_Subset DEF Counted, TimersFinite
  <2> QED  BY <1>0, <2>1, <2>3, <2>5, CountKept
<1>11. ASSUME NEW t \in Threads, tick(t) PROVE Counted'
  <2>1. /\ pc[t] # "del" /\ task' = task
        /\ mTimerCnt' = mTimerCnt /\ armed' = armed \ Due /\ must' = must
    BY <1>11 DEF tick, Elapsed
  <2>2. \E l \in Label \ {"del"} : Goto(t, l)
    BY <1>11 DEF tick, addTasks, Label, StopLabel
  <2>3. Deleting' = Deleting
    BY <1>0, <2>1, <2>2, DeletingKept DEF Actors
  <2>4. Owed' \subseteq Owed /\ armed' \cup must' \subseteq armed \cup must
    BY <2>1, <2>3 DEF Owed
  <2>5. IsFiniteSet(armed' \cup must') /\ armed' \subseteq Jobs /\ must' \subseteq Jobs
    BY <1>0, <2>1, <2>4, FS_Subset DEF Counted, TimersFinite
  <2> QED  BY <1>0, <2>1, <2>4, <2>5, CountKept
<1>12. CASE Pass \/ stop
  <2>1. UNCHANGED <<timers, pc, task>>
    BY <1>12 DEF Pass, stop
  <2>2. Deleting' = Deleting
    BY <2>1 DEF Deleting
  <2> QED  BY <1>1, <2>1, <2>2
<1> QED
  BY <1>2, <1>3, <1>5, <1>6, <1>7, <1>8, <1>9, <1>10, <1>11, <1>12
  DEF Next, Thread, Works, Run, Actors

LEMMA PlainStep ==
  ASSUME TypeOK, TimersFinite, PlaceInv, Next
  PROVE  Plain' /\ Clocks'
<1> USE DEF queue, timers, thread, clock
<1>0. Plain /\ Clocks
  BY TypeParts
<1>1. ASSUME NEW a \in Actors, trickle(a) PROVE Plain' /\ Clocks'
  <2>1. then[a] \in Label
    BY <1>0 DEF Plain, Later, Label, StopLabel
  <2> QED  BY <1>0, <1>1, <2>1 DEF trickle, Goto, Plain, Clocks, Later
<1>2. ASSUME NEW t \in Threads, Take(t) PROVE Plain' /\ Clocks'
  <2>1. PICK i \in First(t) : /\ mTasks' = RemoveAt(mTasks, i)
                              /\ task' = [task EXCEPT ![t] = mTasks[i]]
                              /\ isTrickle' = [isTrickle EXCEPT ![t] = Foreign(t, i)]
    BY <1>2 DEF Take
  <2>2. mTasks' \in Seq(Task) /\ task' \in [Threads -> Task \cup {NoTask}]
    BY <1>0, <2>1, Removed DEF First, Plain
  <2>3. isTrickle' \in [Threads -> BOOLEAN]
    BY <1>0, <2>1 DEF Plain, Foreign
  <2>4. pc' \in [Actors -> Label]
    BY <1>0, <1>2 DEF Take, Plain, Goto, Label, Actors
  <2>5. status' \in [Jobs -> {"new", "queued", "running", "waiting", "asleep", "done"}]
    BY <1>0, <1>2 DEF Take, Plain
  <2> QED  BY <1>0, <1>2, <2>2, <2>3, <2>4, <2>5 DEF Take, Plain, Clocks
<1>3. ASSUME NEW t \in Threads, FindNothing(t) \/ Test(t) PROVE Plain' /\ Clocks'
  <2>1. edge' \in BOOLEAN /\ isTrickle' \in [Threads -> BOOLEAN]
    BY <1>0, <1>3 DEF FindNothing, Test, Plain, Foreign
  <2>2. pc' \in [Actors -> Label]
    BY <1>0, <1>3 DEF FindNothing, Test, Plain, Goto, Label, Actors
  <2> QED  BY <1>0, <1>3, <2>1, <2>2 DEF FindNothing, Test, Plain, Clocks
<1>4. ASSUME NEW t \in Threads, CountActive(t) \/ stopping(t) \/ EventFd(t)
      PROVE  Plain' /\ Clocks'
  <2>1. \E l \in Label : Goto(t, l)
    BY <1>4 DEF CountActive, stopping, Read, EventFd, Label, StopLabel
  <2>2. pc' \in [Actors -> Label]
    BY <1>0, <2>1 DEF Plain, Goto, Actors
  <2> QED  BY <1>0, <1>4, <2>2 DEF CountActive, stopping, Read, EventFd, Plain, Clocks
<1>5. ASSUME NEW t \in Threads,
             \/ Yield(t)
             \/ \E j \in Jobs : Return(t, j) \/ Wait(t, j) \/ WaitTimed(t, j) \/ sleep(t, j)
      PROVE  Plain' /\ Clocks'
  <2>1. Goto(t, "look") /\ Release(t)
    BY <1>5 DEF Yield, Return, Wait, WaitTimed, sleep
  <2>2. pc' \in [Actors -> Label]
    BY <1>0, <2>1 DEF Plain, Goto, Label, Actors
  <2>3. task' \in [Threads -> Task \cup {NoTask}] /\ isTrickle' = isTrickle
    BY <1>0, <2>1 DEF Plain, Release
  <2>4. status' \in [Jobs -> {"new", "queued", "running", "waiting", "asleep", "done"}]
    BY <1>0, <1>5 DEF Plain, Yield, Return, Wait, WaitTimed, sleep
  <2>5. UNCHANGED <<mTasks, edge, mStopping, then, clock>>
    BY <1>5 DEF Yield, Return, Wait, WaitTimed, sleep
  <2> QED  BY <1>0, <2>2, <2>3, <2>4, <2>5 DEF Plain, Clocks
<1>6. ASSUME NEW a \in Actors, NEW e \in Task, NEW l \in Later, addTask(a, << e >>, l),
             edge' \in BOOLEAN, UNCHANGED <<mStopping, thread, clock>>,
             \/ status' = status
             \/ \E j \in Jobs : status' = [status EXCEPT ![j] = "queued"]
      PROVE  Plain' /\ Clocks'
  <2>1. mTasks' \in Seq(Task) /\ pc' \in [Actors -> Label] /\ then' \in [Actors -> Later]
    BY <1>6, AddTask
  <2>2. status' \in [Jobs -> {"new", "queued", "running", "waiting", "asleep", "done"}]
    BY <1>0, <1>6 DEF Plain
  <2> QED  BY <1>0, <1>6, <2>1, <2>2 DEF Plain, Clocks
<1>7. ASSUME NEW t \in Threads, RunCallback(t) PROVE Plain' /\ Clocks'
  <2>1. task[t].job \in Jobs /\ t \in Actors /\ "yield" \in Later
    BY <1>7, TaskHeld DEF RunCallback, Actors, Later
  <2>2. Fiber(task[t].job) \in Task
    BY <2>1, Tasks
  <2>3. CASE status[task[t].job] \in {"waiting", "asleep"}
    <3>1. /\ addTask(t, << Fiber(task[t].job) >>, "yield") /\ edge' \in BOOLEAN
          /\ UNCHANGED <<mStopping, thread, clock>>
          /\ status' = [status EXCEPT ![task[t].job] = "queued"]
      BY <1>0, <1>7, <2>3 DEF RunCallback, Plain
    <3> QED  BY <1>6, <2>1, <2>2, <3>1
  <2>4. CASE status[task[t].job] \notin {"waiting", "asleep"}
    <3>1. Goto(t, "yield") /\ UNCHANGED <<mTasks, edge, mStopping, status, then, thread, clock>>
      BY <1>7, <2>4 DEF RunCallback
    <3> QED  BY <1>0, <3>1 DEF Plain, Clocks, Goto, Label, Actors
  <2> QED  BY <2>3, <2>4
<1>8. ASSUME NEW t \in Threads, NEW j \in Jobs, Again(t, j) \/ Event(t, j)
      PROVE  Plain' /\ Clocks'
  <2>1. Fiber(j) \in Task /\ t \in Actors
    BY Tasks DEF Actors
  <2>2. \E l \in Later : addTask(t, << Fiber(j) >>, l)
    BY <1>8 DEF Again, Event, Later
  <2>3. /\ edge' \in BOOLEAN /\ UNCHANGED <<mStopping, thread, clock>>
        /\ status' = status \/ status' = [status EXCEPT ![j] = "queued"]
    BY <1>0, <1>8 DEF Again, Event, Plain
  <2> QED  BY <1>6, <2>1, <2>2, <2>3
<1>9. ASSUME NEW a \in Actors, NEW j \in Jobs, NEW l \in {"run", "main"},
             addTask(a, << NewJob(j) >>, l), edge' = edge,
             UNCHANGED <<mStopping, thread, clock>>, status' = [status EXCEPT ![j] = "queued"]
      PROVE  Plain' /\ Clocks'
  <2>1. NewJob(j) \in Task /\ edge' \in BOOLEAN /\ l \in Later
    BY <1>0, <1>9, Tasks DEF Plain, Later
  <2> QED  BY <1>6, <1>9, <2>1
<1>10. ASSUME NEW t \in Threads, NEW j \in Jobs, NEW k \in Jobs, AddsJob(t, j, k)
       PROVE  Plain' /\ Clocks'
  BY <1>9, <1>10 DEF AddsJob, Actors
<1>11. ASSUME NEW j \in Jobs, Submit(j) PROVE Plain' /\ Clocks'
  BY <1>9, <1>11 DEF Submit, Actors
<1>12. ASSUME NEW t \in Threads, DelFromWheel(t) \/ \E j \in Jobs : delTimer(t, j)
       PROVE  Plain' /\ Clocks'
  <2>1. /\ Goto(t, "run") \/ Goto(t, "del")
        /\ UNCHANGED <<queue, mStopping, status, then, thread, clock>>
    BY <1>12 DEF DelFromWheel, delTimer
  <2> QED  BY <1>0, <2>1 DEF Plain, Clocks, Goto, Label, Actors
<1>13. ASSUME NEW t \in Threads, AfterEvents(t) PROVE Plain' /\ Clocks'
  <2>1. pc' \in [Actors -> Label]
    BY <1>0, <1>13 DEF AfterEvents, Plain, Goto, Label, StopLabel, Actors
  <2>2. Clocks'
    BY <1>0, <1>13, WakeupsAssumption DEF AfterEvents, Clocks
  <2> QED  BY <1>0, <1>13, <2>1, <2>2 DEF AfterEvents, Plain
<1>14. ASSUME NEW t \in Threads, tick(t) PROVE Plain' /\ Clocks'
  <2>1. mTasks' \in Seq(Task)
    BY <1>14, AddTasks DEF tick
  <2>2. pc' \in [Actors -> Label] /\ then' \in [Actors -> Later]
    BY <1>0, <1>14 DEF tick, addTasks, Goto, Plain, Label, StopLabel, Later, Actors
  <2>3. Clocks'
    BY <1>0, <1>14, WakeupsAssumption DEF tick, Clocks
  <2> QED  BY <1>0, <1>14, <2>1, <2>2, <2>3 DEF Plain, tick
<1>15. CASE Pass
  <2>1. Clocks'
    BY <1>0, <1>15, WakeupsAssumption DEF Pass, Clocks
  <2> QED  BY <1>0, <1>15, <2>1 DEF Pass, Plain
<1>16. CASE stop
  BY <1>0, <1>16 DEF stop, Plain, Clocks
<1> QED
  BY <1>1, <1>2, <1>3, <1>4, <1>5, <1>7, <1>8, <1>10, <1>11, <1>12,
     <1>13, <1>14, <1>15, <1>16
  DEF Next, Thread, Works, Run, Actors

-----------------------------------------------------------------------------
\* Where the threads are, and what becomes of the jobs.

\* A step of the other actors and of other tasks.
LEMMA PlaceKept ==
  ASSUME TypeOK, PlaceInv, JobInv, NEW t \in Threads,
         pc'[t] = pc[t], then'[t] = then[t], task'[t] = task[t],
         \A j \in Jobs : Queued(j, "fiber") /\ status[j] = "running" => Queued(j, "fiber")'
  PROVE  Place(t)'
<1>1. Place(t)
  BY DEF PlaceInv
<1>2. \A l : At(t, l)' <=> At(t, l)
  BY DEF At
<1>3. \A j, k : Holds(t, j, k)' <=> Holds(t, j, k)
  BY DEF Holds
<1>4. \A j \in Jobs : Holds(t, j, "fiber") /\ Queued(j, "fiber") => Queued(j, "fiber")'
  BY DEF JobInv, OneJob
<1> QED  BY <1>1, <1>2, <1>3, <1>4 DEF Place

\* Nothing of the job changes.
LEMMA JobKept ==
  ASSUME JobInv, NEW j \in Jobs,
         status'[j] = status[j], status[j] = "asleep" /\ j \in armed => j \in armed',
         \A k \in Kind : Queued(j, k) => Queued(j, k)',
         \A t \in Threads : /\ Holds(t, j, "fiber") <=> Holds(t, j, "fiber")'
                            /\ Pending(t, j) => Pending(t, j)'
  PROVE  OneJob(j)'
BY DEF JobInv, OneJob, Kind

\* A step of actor a: the others stay where they are.
LEMMA OthersStay ==
  ASSUME TypeOK, NEW a \in Actors, NEW l, Goto(a, l),
         then' = then \/ \E m : then' = [then EXCEPT ![a] = m],
         NEW t \in Threads, t # a, task'[t] = task[t]
  PROVE  /\ pc'[t] = pc[t] /\ then'[t] = then[t]
         /\ \A j \in Jobs : /\ \A k \in Kind : Holds(t, j, k)' <=> Holds(t, j, k)
                            /\ Pending(t, j)' <=> Pending(t, j)
<1>1. pc'[t] = pc[t] /\ then'[t] = then[t]
  BY DEF Goto, TypeOK, Actors
<1> QED  BY <1>1 DEF Holds, Pending, At

\* A step of the code that leaves the queue as it is or adds to it, and takes
\* and releases nothing.
LEMMA CodeStep ==
  ASSUME TypeOK, PlaceInv, JobInv, NEW t \in Actors, NEW l \in Label \ {"notify"}, Goto(t, l),
         then' = [then EXCEPT ![t] = "look"] \/ then' = then,
         task' = task, status' = status, Kept,
         \A j \in Jobs : status[j] = "asleep" /\ j \in armed => j \in armed',
         t \in Threads => \/ task[t] = NoTask /\ l \notin {"run", "yield", "del"}
                          \/ task[t] # NoTask /\ l \in {"run", "test"}
                          \/ l = "del" /\ \E j \in Jobs : Holds(t, j, "fiber")
                          \/ At(t, "yield") /\ l = "yield"
  PROVE  PlaceInv' /\ JobInv'
<1>1. \A j, k : \A u \in Threads : Holds(u, j, k)' <=> Holds(u, j, k)
  BY DEF Holds
<1>2. ASSUME NEW u \in Threads, u # t
      PROVE  Place(u)' /\ \A j \in Jobs : Pending(u, j)' <=> Pending(u, j)
  <2>1. /\ pc'[u] = pc[u] /\ then'[u] = then[u] /\ task'[u] = task[u]
        /\ \A j \in Jobs : Pending(u, j)' <=> Pending(u, j)
    BY <1>2, OthersStay
  <2> QED  BY <2>1, PlaceKept DEF Kept, Kind
<1>3. ASSUME t \in Threads
      PROVE  Place(t)' /\ \A j \in Jobs : Pending(t, j) => Pending(t, j)'
  <2>1. pc'[t] = l /\ then'[t] # "main" /\ task'[t] = task[t]
    BY <1>3 DEF Goto, TypeOK, Actors, PlaceInv, Place
  <2>2. \A m : At(t, m)' <=> l = m
    BY <2>1 DEF At
  <2>3. Place(t)
    BY <1>3 DEF PlaceInv
  <2>4. \A j \in Jobs : Queued(j, "fiber") => Queued(j, "fiber")'
    BY DEF Kept, Kind
  <2>5. \A j \in Jobs : Pending(t, j) => Pending(t, j)'
    <3>1. \A j \in Jobs : Pending(t, j) => l # "yield"
      BY <1>3 DEF Pending, Holds
    <3> QED  BY <1>1, <1>3, <2>2, <3>1 DEF Pending
  <2>6. l = "del" => \E j \in Jobs : Holds(t, j, "fiber")
    BY <1>3
  <2>7. l = "run" => task[t] # NoTask
    BY <1>3
  <2>8. l = "yield" => At(t, "yield")
    BY <1>3
  <2>9. task[t] # NoTask => l \in {"run", "test", "del", "yield"}
    BY <1>3
  <2> QED  BY <1>1, <1>3, <2>1, <2>2, <2>3, <2>4, <2>5, <2>6, <2>7, <2>8, <2>9 DEF Place
<1>4. ASSUME NEW j \in Jobs PROVE OneJob(j)'
  BY <1>1, <1>2, <1>3, JobKept DEF Kept
<1> QED  BY <1>2, <1>3, <1>4 DEF PlaceInv, JobInv

\* A thread releases its task, which has done something to its job.
LEMMA ReleaseStep ==
  ASSUME TypeOK, PlaceInv, JobInv, NEW t \in Threads, NEW j \in Jobs, NEW k \in Kind,
         Holds(t, j, k), Release(t), Kept, Goto(t, "look"), then' = then,
         \A i \in Jobs \ {j} : status'[i] = status[i] /\ (i \in armed => i \in armed'),
         OneJob(j)'
  PROVE  PlaceInv' /\ JobInv'
<1>1. \A u \in Threads \ {t} : task'[u] = task[u]
  BY DEF Release, TypeOK
<1>2. \A u \in Threads \ {t} :
        /\ pc'[u] = pc[u] /\ then'[u] = then[u]
        /\ \A i \in Jobs : /\ \A m \in Kind : Holds(u, i, m)' <=> Holds(u, i, m)
                           /\ Pending(u, i)' <=> Pending(u, i)
  BY <1>1, OthersStay DEF Actors
<1>3. ASSUME NEW u \in Threads PROVE Place(u)'
  <2>1. CASE u # t
    BY <1>1, <1>2, <2>1, PlaceKept DEF Kept, Kind
  <2>2. CASE u = t
    BY <2>2 DEF Place, PlaceInv, At, Release, Goto, TypeOK, Actors
  <2> QED  BY <2>1, <2>2
<1>4. ASSUME NEW i \in Jobs, i # j PROVE OneJob(i)'
  <2>1. ~ Holds(t, i, "fiber") /\ ~ Holds(t, i, "fiber")' /\ ~ Pending(t, i)
    BY <1>4 DEF Holds, Pending, Release, TypeOK
  <2>2. \A u \in Threads : /\ Holds(u, i, "fiber") <=> Holds(u, i, "fiber")'
                           /\ Pending(u, i) => Pending(u, i)'
    BY <1>2, <2>1 DEF Kind
  <2> QED  BY <1>4, <2>2, JobKept DEF Kept
<1> QED  BY <1>3, <1>4 DEF PlaceInv, JobInv

\* A thread takes a task of a job that does not run.
LEMMA TakeStep ==
  ASSUME TypeOK, PlaceInv, JobInv, NEW t \in Threads, Take(t)
  PROVE  PlaceInv' /\ JobInv'
<1>1. /\ pc[t] = "look" /\ Goto(t, "count") /\ then' = then /\ armed' = armed
      /\ task[t] = NoTask
  BY DEF Take, PlaceInv, Place, At, timers
<1>3. PICK n \in First(t) :
        /\ mTasks' = RemoveAt(mTasks, n) /\ task' = [task EXCEPT ![t] = mTasks[n]]
        /\ status' = IF mTasks[n].kind = "fiber"
                     THEN [status EXCEPT ![mTasks[n].job] = "running"] ELSE status
  BY DEF Take
<1>4. mTasks[n] \in Task
  BY <1>3, Removed DEF First
<1> PICK j \in Jobs, k \in Kind : mTasks[n].job = j /\ mTasks[n].kind = k
  BY <1>4 DEF Task, Kind
<1>5. \A i \in Jobs, m \in Kind : Queued(i, m) => Queued(i, m)' \/ (j = i /\ k = m)
  BY <1>3, Removed DEF First
<1>6. k = "fiber" => status[j] # "running"
  BY DEF First, Takeable
<1>7. task'[t] = mTasks[n] /\ mTasks[n] # NoTask /\ \A u \in Threads \ {t} : task'[u] = task[u]
  BY <1>3, <1>4 DEF TypeOK, Task, NoTask
<1>8. /\ \A m \in Kind : Holds(t, j, m)' <=> m = k
      /\ \A i \in Jobs \ {j}, m \in Kind : ~ Holds(t, i, m)'
      /\ \A i \in Jobs, m \in Kind : ~ Holds(t, i, m)
  BY <1>1, <1>7 DEF Holds
<1>9. \A u \in Threads \ {t} :
        /\ pc'[u] = pc[u] /\ then'[u] = then[u]
        /\ \A i \in Jobs : /\ \A m \in Kind : Holds(u, i, m)' <=> Holds(u, i, m)
                           /\ Pending(u, i)' <=> Pending(u, i)
  BY <1>1, <1>7, OthersStay DEF Actors
<1>10. status' = IF k = "fiber" THEN [status EXCEPT ![j] = "running"] ELSE status
  BY <1>3
<1>11. pc'[t] = "count" /\ ~ At(t, "yield")'
  BY <1>1 DEF Goto, TypeOK, Actors, At
<1>12. ASSUME NEW u \in Threads PROVE Place(u)'
  <2>1. CASE u # t
    BY <1>5, <1>6, <1>7, <1>9, <2>1, PlaceKept DEF Kind
  <2>2. CASE u = t
    <3>1. then'[t] # "main"
      BY <1>1 DEF PlaceInv, Place
    <3>2. ~ At(t, "run")'
      BY <1>11 DEF At
    <3> QED  BY <1>11, <2>2, <3>1, <3>2 DEF Place
  <2> QED  BY <2>1, <2>2
<1>13. ASSUME NEW i \in Jobs PROVE OneJob(i)'
  <2>0. \A u \in Threads : Pending(u, i) => Pending(u, i)'
    <3>1. ~ Pending(t, i)
      BY <1>8 DEF Pending, Kind
    <3> QED  BY <1>9, <3>1
  <2>1. CASE i # j
    <3>1. status'[i] = status[i]
      BY <1>10, <2>1 DEF TypeOK
    <3>2. \A m \in Kind : Queued(i, m) => Queued(i, m)'
      BY <1>5, <2>1
    <3>3. \A u \in Threads : Holds(u, i, "fiber") <=> Holds(u, i, "fiber")'
      BY <1>8, <1>9, <2>1 DEF Kind
    <3> QED  BY <1>1, <2>0, <3>1, <3>2, <3>3, JobKept
  <2>2. CASE i = j /\ k = "fiber"
    <3>1. status'[j] = "running" /\ Holds(t, j, "fiber")'
      BY <1>8, <1>10, <2>2 DEF TypeOK, Kind
    <3>2. \A u \in Threads : Holds(u, j, "fiber")' => u = t
      BY <1>6, <1>9, <2>2 DEF JobInv, OneJob, Kind
    <3> QED  BY <2>2, <3>1, <3>2 DEF OneJob
  <2>3. CASE i = j /\ k = "callback"
    <3>1. status'[j] = status[j] /\ Pending(t, j)'
      BY <1>8, <1>10, <1>11, <2>3 DEF Kind, Pending
    <3>2. \A u \in Threads : Holds(u, j, "fiber")' <=> Holds(u, j, "fiber")
      BY <1>8, <1>9, <2>3 DEF Kind
    <3>3. Queued(j, "fiber") => Queued(j, "fiber")'
      BY <1>5, <2>3 DEF Kind
    <3> QED  BY <2>3, <3>1, <3>2, <3>3 DEF JobInv, OneJob
  <2> QED  BY <2>1, <2>2, <2>3 DEF Kind
<1> QED  BY <1>12, <1>13 DEF PlaceInv, JobInv

\* A thread with a task adds to the queue, and goes on with it.
LEMMA AddStep ==
  ASSUME TypeOK, PlaceInv, JobInv, NEW t \in Threads, NEW l \in {"run", "yield"},
         \/ Goto(t, "notify") /\ then' = [then EXCEPT ![t] = l]
         \/ Goto(t, l) /\ then' = then,
         task[t] # NoTask, task' = task, Kept,
         l = "yield" => \E j \in Jobs : \/ Holds(t, j, "callback")
                                        \/ Holds(t, j, "fiber") /\ Queued(j, "fiber")'
  PROVE  /\ PlaceInv'
         /\ \A u \in Threads, j \in Jobs :
              /\ Holds(u, j, "fiber") <=> Holds(u, j, "fiber")'
              /\ u # t \/ l = "run" => (Pending(u, j) => Pending(u, j)')
<1>1. \A j, k : \A u \in Threads : Holds(u, j, k)' <=> Holds(u, j, k)
  BY DEF Holds
<1>2. \A u \in Threads \ {t} :
        pc'[u] = pc[u] /\ then'[u] = then[u] /\ \A j \in Jobs : Pending(u, j)' <=> Pending(u, j)
  BY OthersStay DEF Actors
<1>3. \A m : m # "notify" => (At(t, m)' <=> m = l)
  BY DEF At, Goto, TypeOK, Actors
<1>4. then'[t] # "main" /\ pc'[t] # "del"
  BY DEF Goto, TypeOK, Actors, PlaceInv, Place
<1>5. ASSUME NEW u \in Threads PROVE Place(u)'
  <2>1. CASE u # t
    BY <1>2, <2>1, PlaceKept DEF Kept, Kind
  <2>2. CASE u = t
    BY <1>1, <1>3, <1>4, <2>2 DEF Place
  <2> QED  BY <2>1, <2>2
<1>6. \A j \in Jobs : l = "run" => (Pending(t, j) => Pending(t, j)')
  BY <1>1, <1>3 DEF Pending
<1> QED  BY <1>1, <1>2, <1>5, <1>6 DEF PlaceInv

\* The callback queues the fiber, if that still waits.
LEMMA CallbackStep ==
  ASSUME TypeOK, PlaceInv, JobInv, NEW t \in Threads, RunCallback(t)
  PROVE  PlaceInv' /\ JobInv'
<1> PICK j \in Jobs : j = task[t].job
  BY TaskHeld DEF RunCallback
<1>1. Holds(t, j, "callback") /\ task' = task /\ armed' = armed /\ task[t] # NoTask
  BY DEF RunCallback, Holds, PlaceInv, Place, At, timers, thread
<1>2. /\ Kept
      /\ \/ Goto(t, "notify") /\ then' = [then EXCEPT ![t] = "yield"]
         \/ Goto(t, "yield") /\ then' = then
      /\ \/ /\ status[j] \in {"waiting", "asleep"} /\ Queued(j, "fiber")'
            /\ status' = [status EXCEPT ![j] = "queued"]
         \/ status[j] \notin {"waiting", "asleep"} /\ status' = status
  <2>1. CASE status[j] \in {"waiting", "asleep"}
    <3>1. addTask(t, << Fiber(j) >>, "yield") /\ status' = [status EXCEPT ![j] = "queued"]
      BY <2>1 DEF RunCallback
    <3> QED  BY <2>1, <3>1, AddFiber DEF Actors, Later
  <2>2. CASE status[j] \notin {"waiting", "asleep"}
    BY <2>2 DEF RunCallback, Kept, Queued
  <2> QED  BY <2>1, <2>2
<1>3. /\ PlaceInv'
      /\ \A u \in Threads, i \in Jobs : /\ Holds(u, i, "fiber") <=> Holds(u, i, "fiber")'
                                        /\ u # t => (Pending(u, i) => Pending(u, i)')
  BY <1>1, <1>2, AddStep
<1>4. ASSUME NEW i \in Jobs PROVE OneJob(i)'
  <2>1. CASE i # j
    <3>1. ~ Pending(t, i)
      BY <1>1, <2>1 DEF Pending, Holds
    <3>2. status'[i] = status[i]
      BY <1>2, <2>1 DEF TypeOK
    <3> QED  BY <1>1, <1>2, <1>3, <3>1, <3>2, JobKept DEF Kept
  <2>2. CASE i = j /\ status[j] \in {"waiting", "asleep"}
    <3>1. status'[j] = "queued" /\ Queued(j, "fiber")'
      BY <1>2, <2>2 DEF TypeOK
    <3>2. \A u \in Threads : ~ Holds(u, j, "fiber")'
      BY <1>3, <2>2 DEF JobInv, OneJob
    <3> QED  BY <2>2, <3>1, <3>2 DEF OneJob
  <2>3. CASE i = j /\ status[j] \notin {"waiting", "asleep"}
    BY <1>2, <1>3, <2>3 DEF JobInv, OneJob, Kept, Kind
  <2> QED  BY <2>1, <2>2, <2>3
<1> QED  BY <1>3, <1>4 DEF JobInv

\* A job's own step ends its turn: it is over, or waits, or sleeps.
LEMMA TurnEnds ==
  ASSUME TypeOK, PlaceInv, JobInv, NEW t \in Threads, NEW j \in Jobs,
         Return(t, j) \/ Wait(t, j) \/ WaitTimed(t, j) \/ sleep(t, j)
  PROVE  PlaceInv' /\ JobInv'
<1>1. Holds(t, j, "fiber") /\ Release(t) /\ mTasks' = mTasks /\ then' = then /\ Goto(t, "look")
  BY DEF Return, Wait, WaitTimed, sleep, Step, Runs, Holds, PlaceInv, Place, At, queue
<1>2. /\ \/ status' = [status EXCEPT ![j] = "done"]
         \/ status' = [status EXCEPT ![j] = "waiting"]
         \/ status' = [status EXCEPT ![j] = "asleep"] /\ j \in armed'
      /\ armed \subseteq armed'
  BY DEF Return, Wait, WaitTimed, sleep, addTimer, timers
<1>3. ASSUME NEW u \in Threads PROVE ~ Holds(u, j, "fiber")'
  <2>1. Holds(u, j, "fiber") => u = t
    BY <1>1 DEF JobInv, OneJob
  <2> QED  BY <1>1, <2>1 DEF Release, Holds, TypeOK
<1>4. OneJob(j)'
  <2>1. status'[j] \in {"done", "waiting", "asleep"} /\ (status'[j] = "asleep" => j \in armed')
    BY <1>2 DEF TypeOK
  <2> QED  BY <1>3, <2>1 DEF OneJob
<1>5. \A i \in Jobs \ {j} : status'[i] = status[i] /\ (i \in armed => i \in armed')
  BY <1>2 DEF TypeOK
<1>6. Kept
  BY <1>1 DEF Kept, Queued
<1> QED
  BY <1>1, <1>4, <1>5, <1>6, ReleaseStep DEF Kind

LEMMA YieldStep ==
  ASSUME TypeOK, PlaceInv, JobInv, NEW t \in Threads, Yield(t)
  PROVE  PlaceInv' /\ JobInv'
<1>1. /\ pc[t] = "yield" /\ Goto(t, "look") /\ Release(t) /\ then' = then
      /\ armed' = armed /\ mTasks' = mTasks
  BY DEF Yield, queue, timers
<1>2. PICK j \in Jobs : \/ Holds(t, j, "callback")
                        \/ Holds(t, j, "fiber") /\ Queued(j, "fiber")
  BY <1>1 DEF PlaceInv, Place, At
<1>3. Kept
  BY <1>1 DEF Kept, Queued
<1>4. CASE Holds(t, j, "fiber") /\ Queued(j, "fiber")
  <2>1. status' = [status EXCEPT ![j] = "queued"]
    BY <1>4 DEF Yield, Holds
  <2>2. ASSUME NEW u \in Threads PROVE ~ Holds(u, j, "fiber")'
    <3>1. Holds(u, j, "fiber") => u = t
      BY <1>4 DEF JobInv, OneJob
    <3> QED  BY <1>1, <3>1 DEF Release, Holds, TypeOK
  <2>3. Queued(j, "fiber")'
    BY <1>3, <1>4 DEF Kept, Kind
  <2>4. status'[j] = "queued" /\ \A i \in Jobs \ {j} : status'[i] = status[i]
    BY <2>1 DEF TypeOK
  <2>5. OneJob(j)'
    BY <2>2, <2>3, <2>4 DEF OneJob
  <2> QED  BY <1>1, <1>3, <1>4, <2>4, <2>5, ReleaseStep DEF Kind
<1>5. CASE Holds(t, j, "callback")
  <2>1. status' = status
    BY <1>5 DEF Yield, Holds
  <2>2. ASSUME NEW u \in Threads
        PROVE  /\ Holds(u, j, "fiber") <=> Holds(u, j, "fiber")'
               /\ Pending(u, j) => Pending(u, j)'
    <3>1. CASE u = t
      BY <1>1, <1>5, <3>1 DEF Holds, Pending, At, Release, TypeOK
    <3>2. CASE u # t
      <4>1. task'[u] = task[u] /\ "look" \in Label
        BY <1>1, <3>2 DEF Release, TypeOK, Label
      <4> QED  BY <1>1, <3>2, <4>1, OthersStay DEF Actors, Kind
    <3> QED  BY <3>1, <3>2
  <2>3. OneJob(j)'
    BY <1>1, <1>3, <2>1, <2>2, JobKept DEF Kept
  <2> QED  BY <1>1, <1>3, <1>5, <2>1, <2>3, ReleaseStep DEF Kind
<1> QED  BY <1>2, <1>4, <1>5

\* The fiber queues itself and still runs.
LEMMA AgainStep ==
  ASSUME TypeOK, PlaceInv, JobInv, NEW t \in Threads, NEW j \in Jobs, Again(t, j)
  PROVE  PlaceInv' /\ JobInv'
<1>1. /\ Holds(t, j, "fiber") /\ task' = task /\ status' = status /\ armed' = armed
      /\ addTask(t, << Fiber(j) >>, "yield") /\ task[t] # NoTask
  BY DEF Again, Step, Runs, Holds, PlaceInv, Place, At, thread, timers
<1>2. /\ Kept /\ Queued(j, "fiber")'
      /\ \/ Goto(t, "notify") /\ then' = [then EXCEPT ![t] = "yield"]
         \/ Goto(t, "yield") /\ then' = then
  BY <1>1, AddFiber DEF Actors, Later
<1>3. /\ PlaceInv'
      /\ \A u \in Threads, i \in Jobs : /\ Holds(u, i, "fiber") <=> Holds(u, i, "fiber")'
                                        /\ u # t => (Pending(u, i) => Pending(u, i)')
  BY <1>1, <1>2, AddStep
<1>4. \A i \in Jobs : ~ Pending(t, i)
  BY <1>1 DEF Pending, Holds
<1>5. ASSUME NEW i \in Jobs PROVE OneJob(i)'
  BY <1>1, <1>2, <1>3, <1>4, JobKept DEF Kept
<1> QED  BY <1>3, <1>5 DEF JobInv

\* An actor without a task adds to the queue.
LEMMA QueueStep ==
  ASSUME TypeOK, PlaceInv, JobInv, NEW a \in Actors, NEW l \in {"events", "stop", "main"},
         a \in Threads => task[a] = NoTask /\ l # "main",
         \/ Goto(a, "notify") /\ then' = [then EXCEPT ![a] = l]
         \/ Goto(a, l) /\ then' = then,
         task' = task, Kept
  PROVE  /\ PlaceInv'
         /\ \A u \in Threads, i \in Jobs : /\ Holds(u, i, "fiber") <=> Holds(u, i, "fiber")'
                                           /\ Pending(u, i) => Pending(u, i)'
<1>1. ASSUME NEW u \in Threads, u # a
      PROVE  /\ Place(u)'
             /\ \A i \in Jobs : /\ Holds(u, i, "fiber") <=> Holds(u, i, "fiber")'
                                /\ Pending(u, i) => Pending(u, i)'
  <2>1. /\ pc'[u] = pc[u] /\ then'[u] = then[u] /\ task'[u] = task[u]
        /\ \A i \in Jobs : /\ \A k \in Kind : Holds(u, i, k)' <=> Holds(u, i, k)
                           /\ Pending(u, i)' <=> Pending(u, i)
    BY <1>1, OthersStay
  <2> QED  BY <2>1, PlaceKept DEF Kept, Kind
<1>2. ASSUME a \in Threads
      PROVE  /\ Place(a)'
             /\ \A i \in Jobs, k \in Kind : ~ Holds(a, i, k) /\ ~ Holds(a, i, k)'
  <2>1. task'[a] = NoTask /\ task[a] = NoTask /\ l \in {"events", "stop"}
    BY <1>2
  <2>2. /\ then'[a] # "main"
        /\ pc'[a] = l \/ (pc'[a] = "notify" /\ then'[a] = l)
    BY <1>2, <2>1 DEF Goto, TypeOK, Actors, PlaceInv, Place
  <2> QED  BY <2>1, <2>2 DEF Place, At, Holds
<1> QED  BY <1>1, <1>2 DEF PlaceInv, Pending, Kind

\* A job that did not run is queued.
LEMMA JobQueued ==
  ASSUME TypeOK, JobInv, NEW j \in Jobs, status[j] # "running", armed' = armed,
         status' = [status EXCEPT ![j] = "queued"], Kept, Queued(j, "fiber")',
         \A u \in Threads, i \in Jobs : /\ Holds(u, i, "fiber") <=> Holds(u, i, "fiber")'
                                        /\ Pending(u, i) => Pending(u, i)'
  PROVE  JobInv'
<1> SUFFICES ASSUME NEW i \in Jobs PROVE OneJob(i)'
  BY DEF JobInv
<1>1. CASE i # j
  <2>1. status'[i] = status[i]
    BY <1>1 DEF TypeOK
  <2> QED  BY <2>1, JobKept DEF Kept
<1>2. CASE i = j
  <2>1. \A t \in Threads : ~ Holds(t, j, "fiber")'
    BY DEF JobInv, OneJob
  <2>2. status'[j] = "queued"
    BY DEF TypeOK
  <2> QED  BY <1>2, <2>1, <2>2 DEF OneJob
<1> QED  BY <1>1, <1>2

LEMMA EventStep ==
  ASSUME TypeOK, PlaceInv, JobInv, NEW t \in Threads, NEW j \in Jobs, Event(t, j)
  PROVE  PlaceInv' /\ JobInv'
<1>1. /\ task[t] = NoTask /\ task' = task /\ armed' = armed /\ status[j] = "waiting"
      /\ status' = [status EXCEPT ![j] = "queued"] /\ addTask(t, << Fiber(j) >>, "events")
  BY DEF Event, PlaceInv, Place, At, thread, timers
<1>2. /\ Kept /\ Queued(j, "fiber")'
      /\ \/ Goto(t, "notify") /\ then' = [then EXCEPT ![t] = "events"]
         \/ Goto(t, "events") /\ then' = then
  BY <1>1, AddFiber DEF Actors, Later
<1>3. /\ PlaceInv'
      /\ \A u \in Threads, i \in Jobs : /\ Holds(u, i, "fiber") <=> Holds(u, i, "fiber")'
                                        /\ Pending(u, i) => Pending(u, i)'
  BY <1>1, <1>2, QueueStep DEF Actors
<1> QED  BY <1>1, <1>2, <1>3, JobQueued

\* A job that is new is added, by Main or by another job.
LEMMA Added ==
  ASSUME TypeOK, NEW a \in Actors, NEW j \in Jobs, NEW l \in Later,
         addTask(a, << NewJob(j) >>, l)
  PROVE  /\ Kept /\ Queued(j, "fiber")'
         /\ \/ Goto(a, "notify") /\ then' = [then EXCEPT ![a] = l]
            \/ Goto(a, l) /\ then' = then
<1>1. NewJob(j) \in Task /\ NewJob(j).job = j /\ NewJob(j).kind = "fiber"
  BY Tasks
<1> HIDE DEF NewJob
<1>2. Kept /\ Queued(NewJob(j).job, NewJob(j).kind)'
  BY <1>1, AddTask
<1> QED  BY <1>1, <1>2 DEF addTask

LEMMA SubmitStep ==
  ASSUME TypeOK, PlaceInv, JobInv, NEW j \in Jobs, Submit(j)
  PROVE  PlaceInv' /\ JobInv'
<1>1. /\ task' = task /\ armed' = armed /\ status[j] = "new"
      /\ status' = [status EXCEPT ![j] = "queued"] /\ addTask(Main, << NewJob(j) >>, "main")
  BY DEF Submit, thread, timers
<1>2. Main \in Actors /\ Main \notin Threads
  BY WakeupsAssumption DEF Actors
<1>3. /\ Kept /\ Queued(j, "fiber")'
      /\ \/ Goto(Main, "notify") /\ then' = [then EXCEPT ![Main] = "main"]
         \/ Goto(Main, "main") /\ then' = then
  BY <1>1, <1>2, Added DEF Later
<1>4. /\ PlaceInv'
      /\ \A u \in Threads, i \in Jobs : /\ Holds(u, i, "fiber") <=> Holds(u, i, "fiber")'
                                        /\ Pending(u, i) => Pending(u, i)'
  BY <1>1, <1>2, <1>3, QueueStep
<1> QED  BY <1>1, <1>3, <1>4, JobQueued

LEMMA AddsJobStep ==
  ASSUME TypeOK, PlaceInv, JobInv, NEW t \in Threads, NEW j \in Jobs, NEW k \in Jobs,
         AddsJob(t, j, k)
  PROVE  PlaceInv' /\ JobInv'
<1>1. /\ task[t] # NoTask /\ task' = task /\ armed' = armed /\ status[k] = "new"
      /\ status' = [status EXCEPT ![k] = "queued"] /\ addTask(t, << NewJob(k) >>, "run")
  BY DEF AddsJob, Step, Runs, PlaceInv, Place, At, thread, timers
<1>2. /\ Kept /\ Queued(k, "fiber")'
      /\ \/ Goto(t, "notify") /\ then' = [then EXCEPT ![t] = "run"]
         \/ Goto(t, "run") /\ then' = then
  BY <1>1, Added DEF Actors, Later
<1>3. /\ PlaceInv'
      /\ \A u \in Threads, i \in Jobs : /\ Holds(u, i, "fiber") <=> Holds(u, i, "fiber")'
                                        /\ Pending(u, i) => Pending(u, i)'
  BY <1>1, <1>2, AddStep
<1> QED  BY <1>1, <1>2, <1>3, JobQueued

\* The callbacks of the timers that go off are queued.
LEMMA TickStep ==
  ASSUME TypeOK, TimersFinite, PlaceInv, JobInv, NEW t \in Threads, tick(t)
  PROVE  PlaceInv' /\ JobInv'
<1>1. /\ task' = task /\ status' = status /\ armed' = armed \ Due /\ addTasks(t, Due)
      /\ pc[t] \in {"events", "wait"}
  BY DEF tick, thread, Elapsed
<1>2. Kept /\ \A j \in Due : Queued(j, "callback")'
  BY <1>1, AddTasks
<1>3. /\ PlaceInv'
      /\ \A u \in Threads, i \in Jobs : /\ Holds(u, i, "fiber") <=> Holds(u, i, "fiber")'
                                        /\ Pending(u, i) => Pending(u, i)'
  <2>1. \/ Goto(t, "notify") /\ then' = [then EXCEPT ![t] = "stop"]
        \/ Goto(t, "stop") /\ then' = then
    BY <1>1 DEF addTasks
  <2>2. task[t] = NoTask
    BY <1>1 DEF PlaceInv, Place, At
  <2> QED  BY <1>1, <1>2, <2>1, <2>2, QueueStep DEF Actors
<1>4. ASSUME NEW j \in Jobs PROVE OneJob(j)'
  <2>1. CASE j \notin Due
    BY <1>1, <1>2, <1>3, <2>1, JobKept DEF Kept
  <2>2. CASE j \in Due
    BY <1>1, <1>2, <1>3, <2>2 DEF JobInv, OneJob, Kept, Kind
  <2> QED  BY <2>1, <2>2
<1> QED  BY <1>3, <1>4 DEF JobInv

\* A timer is deleted: its job runs, so that nobody waits for the timer.
LEMMA DelStep ==
  ASSUME TypeOK, PlaceInv, JobInv, NEW t \in Threads,
         DelFromWheel(t) \/ \E j \in Jobs : delTimer(t, j)
  PROVE  PlaceInv' /\ JobInv'
<1>1. /\ task' = task /\ status' = status /\ mTasks' = mTasks /\ then' = then /\ t \in Actors
  BY DEF DelFromWheel, delTimer, queue, thread, Actors
<1>2. Kept
  BY <1>1 DEF Kept, Queued
<1>3. CASE DelFromWheel(t)
  <2>1. PICK j \in Jobs : Holds(t, j, "fiber")
    BY <1>3 DEF DelFromWheel, PlaceInv, Place
  <2>2. Goto(t, "run") /\ armed' = armed \ {j} /\ task[t] # NoTask
    BY <1>3, <2>1 DEF DelFromWheel, Holds
  <2>3. status[j] = "running"
    BY <2>1 DEF JobInv, OneJob
  <2>4. \A i \in Jobs : status[i] = "asleep" /\ i \in armed => i \in armed'
    BY <2>2, <2>3
  <2>5. "run" \in Label \ {"notify"}
    BY DEF Label
  <2> QED  BY <1>1, <1>2, <2>2, <2>4, <2>5, CodeStep
<1>4. CASE \E j \in Jobs : delTimer(t, j)
  <2>1. PICK j \in Jobs : delTimer(t, j)
    BY <1>4
  <2>2. Goto(t, "del") /\ armed' = armed /\ Holds(t, j, "fiber")
    BY <2>1 DEF delTimer, Runs, Holds, PlaceInv, Place, At
  <2>3. "del" \in Label \ {"notify"}
    BY DEF Label
  <2> QED  BY <1>1, <1>2, <2>2, <2>3, CodeStep
<1> QED  BY <1>3, <1>4

\* Every step keeps the places of the threads and the jobs.
LEMMA PlacesStep ==
  ASSUME TypeOK, TimersFinite, PlaceInv, JobInv, Next
  PROVE  PlaceInv' /\ JobInv'
<1>1. ASSUME NEW a \in Actors, trickle(a) PROVE PlaceInv' /\ JobInv'
  <2>1. /\ pc[a] = "notify" /\ Goto(a, then[a]) /\ then' = [then EXCEPT ![a] = "look"]
        /\ task' = task /\ status' = status /\ armed' = armed /\ mTasks' = mTasks
    BY <1>1 DEF trickle, thread, timers
  <2>2. Kept /\ then[a] \in Later /\ then[a] \in Label \ {"notify"}
    BY <2>1 DEF Kept, Queued, TypeOK, Later, Label, StopLabel
  <2>3. a \in Threads => \/ task[a] = NoTask /\ then[a] \notin {"run", "yield", "del"}
                         \/ task[a] # NoTask /\ then[a] = "run"
                         \/ At(a, "yield") /\ then[a] = "yield"
    BY <2>1, <2>2 DEF PlaceInv, Place, At, Later
  <2> QED  BY <2>1, <2>2, <2>3, CodeStep
<1>2. ASSUME NEW t \in Threads,
             \/ CountActive(t) \/ FindNothing(t) \/ Test(t) \/ stopping(t)
             \/ EventFd(t) \/ AfterEvents(t)
      PROVE  PlaceInv' /\ JobInv'
  <2>1. /\ task' = task /\ status' = status /\ armed' = armed /\ mTasks' = mTasks /\ then' = then
        /\ \/ Goto(t, IF task[t] = NoTask THEN "wait" ELSE "run")
           \/ Goto(t, "test")
           \/ pc[t] \notin {"count", "test", "run", "del", "yield", "notify"}
              /\ \E l \in StopLabel \cup {"left", "look", "events"} : Goto(t, l)
    BY <1>2 DEF CountActive, FindNothing, Test, stopping, Read, EventFd, AfterEvents, StopLabel,
                queue, thread, timers
  <2>2. Kept
    BY <2>1 DEF Kept, Queued
  <2>3. PICK l \in Label \ {"notify"} :
          Goto(t, l) /\ \/ task[t] = NoTask /\ l \notin {"run", "yield", "del"}
                        \/ task[t] # NoTask /\ l \in {"run", "test"}
    BY <2>1 DEF PlaceInv, Place, At, Label, StopLabel
  <2> QED  BY <2>1, <2>2, <2>3, CodeStep DEF Actors
<1>3. CASE Pass \/ stop
  <2>1. /\ task' = task /\ status' = status /\ armed' = armed /\ mTasks' = mTasks
        /\ then' = then /\ pc' = pc
    BY <1>3 DEF Pass, stop, queue, thread, timers
  <2> QED  BY <2>1 DEF PlaceInv, Place, At, Holds, Pending, Queued, JobInv, OneJob
<1> QED
  BY <1>1, <1>2, <1>3, TakeStep, CallbackStep, TurnEnds, YieldStep, AgainStep, AddsJobStep,
     EventStep, SubmitStep, TickStep, DelStep
  DEF Next, Thread, Works, Run, Actors

-----------------------------------------------------------------------------
\* A queue that is not empty is noticed.

\* Only a step that leaves the queue as it is lets an actor become inattentive.
LEMMA NoticedStep ==
  ASSUME TypeOK, PlaceInv, QueueNoticed, Next
  PROVE  QueueNoticed'
<1> USE DEF QueueNoticed
<1>1. ASSUME NEW a \in Actors, NEW l, Goto(a, l),
             l \in {"notify", "look", "count", "test", "yield", "events", "stop", "stopTasks"}
      PROVE  QueueNoticed'
  <2>1. pc'[a] = l
    BY <1>1 DEF Goto, TypeOK
  <2> QED  BY <1>1, <2>1 DEF Attentive
\* An addTask to a queue that is not empty, by an actor that is at l already.
<1>2. ASSUME NEW a \in Actors, NEW s, NEW l, addTask(a, s, l), edge' = edge, pc[a] = l
      PROVE  QueueNoticed'
  <2>1. CASE mTasks = << >>
    BY <1>1, <1>2, <2>1 DEF addTask
  <2>2. CASE mTasks # << >>
    <3>1. pc' = pc
      BY <1>2, <2>2 DEF addTask, Goto, TypeOK
    <3> QED  BY <1>2, <2>2, <3>1 DEF Attentive
  <2> QED  BY <2>1, <2>2
<1>3. ASSUME NEW a \in Actors, trickle(a) PROVE QueueNoticed'
  BY <1>3 DEF trickle
<1>4. ASSUME NEW t \in Threads,
             \/ Take(t) \/ CountActive(t) \/ FindNothing(t) \/ Yield(t) \/ EventFd(t)
             \/ AfterEvents(t) \/ tick(t)
             \/ \E j \in Jobs : Return(t, j) \/ Wait(t, j) \/ WaitTimed(t, j) \/ sleep(t, j)
      PROVE  QueueNoticed'
  <2>1. \E l \in {"count", "test", "look", "events", "stop", "notify"} : Goto(t, l)
    BY <1>4 DEF Take, CountActive, FindNothing, Yield, EventFd, AfterEvents, tick, addTasks,
                Return, Wait, WaitTimed, sleep
  <2> QED  BY <1>1, <2>1 DEF Actors
<1>5. ASSUME NEW t \in Threads, Test(t) PROVE QueueNoticed'
  BY <1>5 DEF Test
\* Who goes on after the look at mTasks has found it empty.
<1>6. ASSUME NEW t \in Threads, stopping(t) PROVE QueueNoticed'
  <2>1. t \in Actors /\ mTasks' = mTasks /\ edge' = edge
    BY <1>6 DEF stopping, Read, queue, Actors
  <2>2. CASE Read(t, "stop", mTimerCnt = 0, "stopTasks")
    <3>1. Goto(t, "stopTasks") \/ Goto(t, "look")
      BY <2>2 DEF Read
    <3> QED  BY <1>1, <2>1, <3>1
  <2>3. CASE Read(t, "stopTasks", mStopping /\ mTasks = << >>, "stopActive")
    <3>1. mTasks = << >> \/ Goto(t, "look")
      BY <2>3 DEF Read
    <3> QED  BY <1>1, <2>1, <3>1
  <2>4. CASE \/ Read(t, "stopActive", Active = {}, "stopTimers")
             \/ Read(t, "stopTimers", mTimerCnt = 0, "left")
    <3>1. ~ Attentive(t)
      BY <2>4 DEF Read, Attentive
    <3>2. \A a \in Actors : a # t => pc'[a] = pc[a]
      BY <2>1, <2>4 DEF Read, Goto, TypeOK
    <3> QED  BY <2>1, <3>1, <3>2 DEF Attentive
  <2> QED  BY <1>6, <2>2, <2>3, <2>4 DEF stopping
<1>7. ASSUME NEW t \in Threads, RunCallback(t) PROVE QueueNoticed'
  <2>1. Goto(t, "notify") \/ Goto(t, "yield")
    BY <1>7 DEF RunCallback, addTask
  <2> QED  BY <1>1, <2>1 DEF Actors
<1>8. ASSUME NEW t \in Threads, NEW j \in Jobs, Again(t, j) \/ Event(t, j)
      PROVE  QueueNoticed'
  <2>1. addTask(t, << Fiber(j) >>, "yield") \/ addTask(t, << Fiber(j) >>, "events")
    BY <1>8 DEF Again, Event
  <2>2. Goto(t, "notify") \/ Goto(t, "yield") \/ Goto(t, "events")
    BY <2>1 DEF addTask
  <2> QED  BY <1>1, <2>2 DEF Actors
<1>9. ASSUME NEW t \in Threads, NEW j \in Jobs, NEW k \in Jobs, AddsJob(t, j, k)
      PROVE  QueueNoticed'
  BY <1>2, <1>9 DEF AddsJob, Step, Runs, Actors
<1>10. ASSUME NEW j \in Jobs, Submit(j) PROVE QueueNoticed'
  BY <1>2, <1>10 DEF Submit, Actors
<1>11. ASSUME NEW t \in Threads, DelFromWheel(t) \/ \E j \in Jobs : delTimer(t, j)
       PROVE  QueueNoticed'
  <2>1. /\ mTasks' = mTasks /\ edge' = edge /\ ~ Attentive(t)
        /\ \A a \in Actors : a # t => pc'[a] = pc[a]
    BY <1>11 DEF DelFromWheel, delTimer, Runs, Goto, TypeOK, queue, Attentive
  <2> QED  BY <2>1 DEF Attentive
<1>12. CASE Pass \/ stop
  BY <1>12 DEF Pass, stop, queue, Attentive
<1> QED
  BY <1>3, <1>4, <1>5, <1>6, <1>7, <1>8, <1>9, <1>10, <1>11, <1>12
  DEF Next, Thread, Works, Run, Actors

-----------------------------------------------------------------------------
\* If all threads stop.

\* The threads that stop, and what mActiveCnt is, depend on the threads only.
LEMMA MainStays ==
  ASSUME TypeOK, NEW l, Goto(Main, l) \/ pc' = pc, task' = task
  PROVE  Active' = Active /\ \A t \in Threads : pc'[t] = pc[t]
<1>1. \A t \in Threads : pc'[t] = pc[t]
  BY WakeupsAssumption DEF Goto, TypeOK, Actors
<1> QED  BY <1>1 DEF Active

LEMMA AgreesStep ==
  ASSUME TypeOK, LastAgrees, Next
  PROVE  LastAgrees'
<1> SUFFICES ASSUME \A t \in Threads : Stops(t)' PROVE \E t \in Threads : Agrees(t)'
  BY DEF LastAgrees
\* The step of a thread ends where it stops: it has read nothing yet, ...
<1>1. ASSUME NEW t \in Threads, NEW l, Goto(t, l) PROVE l \in StopLabel \cup {"left"}
  <2>1. pc'[t] = l
    BY <1>1 DEF Goto, TypeOK, Actors
  <2> QED  BY <2>1 DEF Stops
<1>2. ASSUME NEW t \in Threads, Goto(t, "stop") PROVE \E u \in Threads : Agrees(u)'
  <2>1. pc'[t] = "stop"
    BY <1>2 DEF Goto, TypeOK, Actors
  <2> QED  BY <2>1 DEF Agrees
<1>3. ASSUME NEW t \in Threads, NEW s, NEW l \in {"yield", "run", "events"}, addTask(t, s, l)
      PROVE  FALSE
  BY <1>1, <1>3 DEF addTask, StopLabel
<1>4. ASSUME NEW t \in Threads, trickle(t) PROVE \E u \in Threads : Agrees(u)'
  <2>1. then[t] \in Later /\ Goto(t, then[t])
    BY <1>4 DEF trickle, TypeOK, Later, Actors
  <2>2. then[t] = "stop"
    BY <1>1, <2>1 DEF StopLabel, Later
  <2> QED  BY <1>2, <2>1, <2>2
<1>5. ASSUME NEW t \in Threads, AfterEvents(t) \/ tick(t) PROVE \E u \in Threads : Agrees(u)'
  <2>1. Goto(t, "stop") \/ Goto(t, "notify")
    BY <1>5 DEF AfterEvents, tick, addTasks
  <2> QED  BY <1>1, <1>2, <2>1 DEF StopLabel
<1>6. ASSUME NEW t \in Threads,
             \/ Take(t) \/ CountActive(t) \/ FindNothing(t) \/ Test(t) \/ EventFd(t)
             \/ Yield(t) \/ DelFromWheel(t)
             \/ \E j \in Jobs : \/ delTimer(t, j) \/ Return(t, j) \/ Wait(t, j)
                               \/ WaitTimed(t, j) \/ sleep(t, j)
      PROVE  FALSE
  <2>1. \E l \in {"count", "test", "wait", "run", "events", "look", "del"} : Goto(t, l)
    BY <1>6 DEF Take, CountActive, FindNothing, Test, EventFd, Yield, DelFromWheel, delTimer,
                Return, Wait, WaitTimed, sleep
  <2> QED  BY <1>1, <2>1 DEF StopLabel
<1>7. ASSUME NEW t \in Threads,
             \/ RunCallback(t)
             \/ \E j \in Jobs : \/ Again(t, j) \/ Event(t, j)
                               \/ \E k \in Jobs : AddsJob(t, j, k)
      PROVE  FALSE
  <2>1. \/ Goto(t, "yield")
        \/ \E s, l : l \in {"yield", "run", "events"} /\ addTask(t, s, l)
    BY <1>7 DEF RunCallback, Again, Event, AddsJob
  <2> QED  BY <1>1, <1>3, <2>1 DEF StopLabel
\* ... or it goes on reading what nobody has changed.
<1>8. ASSUME NEW t \in Threads, stopping(t) PROVE \E u \in Threads : Agrees(u)'
  <2>1. /\ mTimerCnt' = mTimerCnt /\ mStopping' = mStopping /\ mTasks' = mTasks /\ task' = task
        /\ \A u \in Threads : u # t => pc'[u] = pc[u]
        /\ Stops(t) /\ pc[t] # "count"
    BY <1>8 DEF stopping, Read, queue, timers, thread, Goto, TypeOK, Stops, StopLabel, Actors
  <2>2. \A u \in Threads : Stops(u)
    BY <2>1 DEF Stops
  <2>3. PICK x \in Threads : Agrees(x)
    BY <2>2 DEF LastAgrees
  <2>4. Active' = Active
    <3>1. pc'[t] # "count"
      BY DEF Stops, StopLabel
    <3> QED  BY <2>1, <3>1 DEF Active
  <2>5. CASE x # t
    BY <2>1, <2>3, <2>4, <2>5 DEF Agrees
  <2>6. CASE x = t
    <3>1. \/ pc[t] = "stop" /\ mTimerCnt = 0 /\ pc'[t] = "stopTasks"
          \/ pc[t] = "stopTasks" /\ mStopping /\ mTasks = << >> /\ pc'[t] = "stopActive"
          \/ pc[t] = "stopActive" /\ Active = {} /\ pc'[t] = "stopTimers"
          \/ pc[t] = "stopTimers" /\ pc'[t] = "left"
      <4>1. ~ Goto(t, "look")
        BY <1>1 DEF StopLabel
      <4>2. \A l : Goto(t, l) => pc'[t] = l
        BY DEF Goto, TypeOK, Actors
      <4> QED  BY <1>8, <4>1, <4>2 DEF stopping, Read
    <3> QED  BY <2>1, <2>3, <2>4, <2>6, <3>1 DEF Agrees
  <2> QED  BY <2>5, <2>6
\* Main adds no job after stop(), and no timer.
<1>9. ASSUME trickle(Main) \/ stop \/ Pass \/ \E j \in Jobs : Submit(j)
      PROVE  \E u \in Threads : Agrees(u)'
  <2>1. task' = task /\ mTimerCnt' = mTimerCnt /\ (pc' = pc \/ \E l : Goto(Main, l))
    BY <1>9 DEF trickle, stop, Pass, Submit, addTask, timers, thread
  <2>2. Active' = Active /\ \A t \in Threads : pc'[t] = pc[t]
    BY <2>1, MainStays
  <2>3. mStopping => mStopping' /\ mTasks' = mTasks
    BY <1>9 DEF trickle, stop, Pass, Submit, queue
  <2>4. \A u \in Threads : Stops(u)
    BY <2>2 DEF Stops
  <2>5. PICK x \in Threads : Agrees(x)
    BY <2>4 DEF LastAgrees
  <2> QED  BY <2>1, <2>2, <2>3, <2>5 DEF Agrees
<1> QED
  BY <1>4, <1>5, <1>6, <1>7, <1>8, <1>9 DEF Next, Thread, Works, Run

-----------------------------------------------------------------------------
\* The inductive invariant.

LEMMA Initially == Init => IInv
<1> SUFFICES ASSUME Init PROVE IInv
  OBVIOUS
<1>1. Plain
  <2>1. pc \in [Actors -> Label] /\ then \in [Actors -> Later]
    BY DEF Init, Label, Later
  <2>2. mTasks \in Seq(Task)
    BY DEF Init
  <2> QED  BY <2>1, <2>2 DEF Init, Plain
<1>2. Clocks
  BY WakeupsAssumption DEF Init, Clocks
<1>3. Counted
  <2>1. Owed = {} /\ armed \cup must = {}
    BY DEF Init, Owed
  <2> QED  BY <2>1, FS_EmptySet DEF Init, Counted, TimersFinite
<1>4. \A t \in Threads : pc[t] = "look" /\ then[t] = "look" /\ task[t] = NoTask
  BY WakeupsAssumption DEF Init, Actors
<1>5. PlaceInv
  BY <1>4 DEF PlaceInv, Place, At
<1>6. JobInv
  BY DEF Init, JobInv, OneJob, Holds
<1>7. QueueNoticed
  BY DEF Init, QueueNoticed
<1>8. LastAgrees
  BY <1>4, WakeupsAssumption DEF LastAgrees, Stops, StopLabel
<1> QED  BY <1>1, <1>2, <1>3, <1>5, <1>6, <1>7, <1>8, TypeParts DEF IInv

LEMMA Stutter == IInv /\ UNCHANGED vars => IInv'
<1> SUFFICES ASSUME IInv, UNCHANGED vars PROVE IInv'
  OBVIOUS
<1>1. /\ mTasks' = mTasks /\ edge' = edge /\ mStopping' = mStopping /\ status' = status
      /\ mTimerCnt' = mTimerCnt /\ armed' = armed /\ must' = must
      /\ pc' = pc /\ then' = then /\ task' = task /\ isTrickle' = isTrickle
      /\ waitTime' = waitTime /\ slept' = slept /\ since' = since
  BY DEF vars, queue, timers, thread, clock
<1>2. TypeOK' /\ TimersFinite'
  BY <1>1 DEF IInv, TypeOK, TimersFinite, Deleting
<1>3. PlaceInv'
  BY <1>1 DEF IInv, PlaceInv, Place, At, Holds, Queued
<1>4. JobInv'
  BY <1>1 DEF IInv, JobInv, OneJob, Pending, At, Holds, Queued
<1>5. QueueNoticed'
  BY <1>1 DEF IInv, QueueNoticed, Attentive
<1>6. LastAgrees'
  BY <1>1 DEF IInv, LastAgrees, Stops, Agrees, Active
<1> QED  BY <1>2, <1>3, <1>4, <1>5, <1>6 DEF IInv

LEMMA Inductive == Spec => []IInv
<1>1. IInv /\ [Next]_vars => IInv'
  <2> SUFFICES ASSUME IInv, Next PROVE IInv'
    BY Stutter
  <2>1. TypeOK /\ TimersFinite /\ PlaceInv /\ JobInv /\ QueueNoticed /\ LastAgrees
    BY DEF IInv
  <2>2. Plain' /\ Clocks'
    BY <2>1, PlainStep
  <2>3. Counted'
    BY <2>1, CountStep
  <2>4. TypeOK' /\ TimersFinite'
    BY <2>2, <2>3 DEF TypeOK, TimersFinite, Plain, Clocks, Counted, Owed, Later
  <2>5. PlaceInv' /\ JobInv'
    BY <2>1, PlacesStep
  <2>6. QueueNoticed'
    BY <2>1, NoticedStep
  <2>7. LastAgrees'
    BY <2>1, AgreesStep
  <2> QED  BY <2>4, <2>5, <2>6, <2>7 DEF IInv
<1> QED  BY <1>1, Initially, PTL DEF Spec

-----------------------------------------------------------------------------
\* Every variable keeps its kind, and mTimerCnt never falls below the number of
\* timers that are armed or will be deleted (timer.cpp: addTimer, delTimer, tick).
THEOREM TypeCorrect == Spec => []TypeOK
<1>1. IInv => TypeOK
  BY DEF IInv
<1> QED  BY <1>1, Inductive, PTL

\* A thread that waits in epoll_wait while a task in the queue is for it can
\* rely on a notification, or on an actor that is going to look or notify
\* (scheduler.h:28-36, scheduler.cpp:75-93).
THEOREM Conserving == Spec => []WorkConserving
<1>1. IInv => WorkConserving
  <2> SUFFICES ASSUME IInv, NEW t \in Threads, First(t) # {}
               PROVE  edge \/ \E a \in Actors : Attentive(a)
    BY DEF WorkConserving
  <2>1. mTasks # << >>
    BY DEF First
  <2> QED  BY <2>1 DEF IInv, QueueNoticed
<1> QED  BY <1>1, Inductive, PTL

\* What the last thread that stopped has read says that nothing is left to do.
LEMMA LeftIsDone ==
  ASSUME IInv, AllLeft
  PROVE  armed = {} /\ must = {} /\ \A j \in Jobs : status[j] \in {"new", "waiting", "done"}
<1>1. mTimerCnt = 0 /\ mTasks = << >> /\ Active = {}
  <2>1. PICK t \in Threads : Agrees(t)
    BY DEF IInv, LastAgrees, AllLeft, Stops
  <2> QED  BY <2>1 DEF AllLeft, Agrees
<1>2. armed = {} /\ must = {}
  <2>1. Deleting = {}
    BY DEF AllLeft, Deleting
  <2>2. Owed = armed \cup must
    BY <2>1 DEF Owed
  <2>3. IsFiniteSet(Owed) /\ Cardinality(Owed) \in Nat /\ Cardinality(Owed) <= 0
    <3>1. IsFiniteSet(Owed)
      BY <2>2 DEF IInv, TimersFinite
    <3>2. Cardinality(Owed) \in Nat
      BY <3>1, FS_CardinalityType
    <3>3. 0 >= Cardinality(Owed)
      BY <1>1 DEF IInv, TypeOK, Owed
    <3> QED  BY <3>1, <3>2, <3>3
  <2>4. Cardinality(Owed) = 0
    BY <2>3
  <2>5. Owed = {}
    BY <2>3, <2>4, FS_EmptySet
  <2> QED  BY <2>2, <2>5
<1>3. \A t \in Threads : task[t] = NoTask
  BY <1>1 DEF AllLeft, Active
<1>4. ASSUME NEW j \in Jobs PROVE status[j] \in {"new", "waiting", "done"}
  <2>1. \A t \in Threads, k \in Kind : ~ Holds(t, j, k)
    BY <1>3 DEF Holds
  <2>2. \A k \in Kind : ~ Queued(j, k)
    BY <1>1 DEF Queued
  <2>3. status[j] \in {"new", "queued", "running", "waiting", "asleep", "done"}
    BY DEF IInv, TypeOK
  <2>4. OneJob(j)
    BY DEF IInv, JobInv
  <2> QED  BY <1>2, <2>1, <2>2, <2>3, <2>4 DEF OneJob, Pending, Kind
<1> QED  BY <1>2, <1>4

\* When all threads have left, no timer is armed and every job that was added is
\* done or waits for an event without a time-out, though stopping() reads one
\* thing after the other and a task is for a moment neither in mTasks nor in
\* mActiveCnt (IOManager.cpp: stopping; scheduler.cpp: stopping, threadFunc).
THEOREM NothingLeft == Spec => []LeavesNothing
<1>1. IInv => LeavesNothing
  BY LeftIsDone DEF LeavesNothing
<1> QED  BY <1>1, Inductive, PTL
=============================================================================
