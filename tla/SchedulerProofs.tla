--------------------------- MODULE SchedulerProofs ---------------------------
(***************************************************************************)
(* Theorems about Scheduler, for every number of threads, set of jobs and  *)
(* bound.  The argument: types, then who is responsible for each job       *)
(* (Custody), then how far the shutdown has come (ShutdownInv).            *)
(***************************************************************************)
EXTENDS Scheduler, SequenceTheorems, FiniteSetTheorems, TLAPS

(* RemoveAt takes one element out and keeps the order of the others. *)
LEMMA RemoveAtProperties ==
  ASSUME NEW S, NEW s \in Seq(S), NEW i \in 1 .. Len(s)
  PROVE  /\ RemoveAt(s, i) \in Seq(S)
         /\ Len(RemoveAt(s, i)) = Len(s) - 1
         /\ \A k \in 1 .. Len(s) - 1 :
              RemoveAt(s, i)[k] = IF k < i THEN s[k] ELSE s[k+1]
<1> DEFINE a == SubSeq(s, 1, i-1)
           b == SubSeq(s, i+1, Len(s))
<1>1. Len(s) \in Nat /\ \A k \in 1 .. Len(s) : s[k] \in S
  BY LenProperties, ElementOfSeq
<1>2. /\ a \in Seq(S) /\ Len(a) = i - 1
      /\ \A k \in 1 .. i - 1 : a[k] = s[k]
  <2>1. \A k \in 1 .. i - 1 : s[k] \in S
    BY <1>1
  <2> QED  BY <1>1, <2>1, SubSeqProperties
<1>3. /\ b \in Seq(S) /\ Len(b) = Len(s) - i
      /\ \A k \in 1 .. Len(s) - i : b[k] = s[k + i]
  <2>1. \A k \in i + 1 .. Len(s) : s[k] \in S
    BY <1>1
  <2>2. /\ b \in Seq(S)
        /\ Len(b) = IF i + 1 <= Len(s) THEN Len(s) - (i + 1) + 1 ELSE 0
        /\ \A k \in 1 .. Len(s) - (i + 1) + 1 : b[k] = s[(i + 1) + k - 1]
    BY <1>1, <2>1, SubSeqProperties
  <2> QED  BY <1>1, <2>2
<1>4. RemoveAt(s, i) = a \o b
  BY DEF RemoveAt
<1> HIDE DEF a, b
<1>5. /\ a \o b \in Seq(S)
      /\ Len(a \o b) = Len(a) + Len(b)
      /\ \A k \in 1 .. Len(a) + Len(b) :
           (a \o b)[k] = IF k <= Len(a) THEN a[k] ELSE b[k - Len(a)]
  BY <1>2, <1>3, ConcatProperties
<1>6. ASSUME NEW k \in 1 .. Len(s) - 1
      PROVE  (a \o b)[k] = IF k < i THEN s[k] ELSE s[k+1]
  <2>1. CASE k < i
    <3>1. k \in 1 .. i - 1 /\ k \in 1 .. Len(a) + Len(b) /\ k <= Len(a)
      BY <1>1, <1>2, <1>3, <2>1
    <3> QED  BY <1>2, <1>5, <2>1, <3>1
  <2>2. CASE ~(k < i)
    <3>1. /\ k - Len(a) \in 1 .. Len(s) - i /\ k \in 1 .. Len(a) + Len(b)
          /\ ~(k <= Len(a)) /\ (k - Len(a)) + i = k + 1
      BY <1>1, <1>2, <1>3, <2>2
    <3> QED  BY <1>3, <1>5, <2>2, <3>1
  <2> QED  BY <2>1, <2>2
<1> QED  BY <1>1, <1>2, <1>3, <1>4, <1>5, <1>6

-----------------------------------------------------------------------------
(* Type correctness.                                                       *)

LEMMA PinType == ASSUME NEW n \in Pins PROVE Pin(n) \in Int
BY SchedulerAssumption DEF Pin

(* addTask appends one well-typed record. *)
LEMMA AddTaskType ==
  ASSUME TypeOK, NEW t \in Threads, NEW j \in Jobs, NEW n \in Int,
         addTask(t, j, n)
  PROVE  /\ mTasks' \in Seq(TaskRecord)
         /\ isTrickle' \in [Threads -> BOOLEAN]
<1>1. Pin(n) \in Int
  BY DEF Pin
<1>2. [job |-> j, threadNum |-> Pin(n)] \in TaskRecord
  BY <1>1 DEF TaskRecord
<1> QED  BY <1>2, AppendProperties DEF addTask, TypeOK

(* What a Take step takes: a task that is eligible for the thread. *)
LEMMA TakeFacts ==
  ASSUME TypeOK, NEW t \in Threads, Take(t)
  PROVE  \E i \in 1 .. Len(mTasks) :
           /\ i \in Eligible(t)
           /\ mTasks[i] \in TaskRecord
           /\ task' = [task EXCEPT ![t] = mTasks[i].job]
           /\ mTasks' = RemoveAt(mTasks, i)
           /\ isTrickle' \in [Threads -> BOOLEAN]
<1>1. DOMAIN mTasks = 1 .. Len(mTasks)
  BY LenProperties DEF TypeOK
<1>2. PICK i \in Eligible(t) :
         /\ task' = [task EXCEPT ![t] = mTasks[i].job]
         /\ mTasks' = RemoveAt(mTasks, i)
         /\ isTrickle' = [isTrickle EXCEPT
              ![t] = \E k \in 1 .. i - 1 : ~Mine(t, mTasks[k])]
  BY DEF Take
<1>3. i \in 1 .. Len(mTasks)
  BY <1>1, <1>2 DEF Eligible
<1>4. mTasks[i] \in TaskRecord
  BY <1>3, ElementOfSeq DEF TypeOK
<1>5. isTrickle' \in [Threads -> BOOLEAN]
  BY <1>2 DEF TypeOK
<1> QED  BY <1>2, <1>3, <1>4, <1>5

(* The places of a thread: when it has a task, and whose stack it is on. *)
Places ==
  \A t \in Threads :
    /\ pc[t] \in {"taken", "run", "job", "resched", "hold", "back"}
         => task[t] # NoJob
    /\ pc[t] \in {"loop", "idle", "stop", "stop2", "exit", "body", "join", "end"}
         => task[t] = NoJob
    /\ stack[t] = IF pc[t] \in {"job", "resched", "hold"} THEN task[t] ELSE NoJob
    /\ pc[t] \in {"body", "join", "end"} => t = Main
    /\ pc[t] = "exit" => t \in Pool

TypeInv == TypeOK /\ Places

LEMMA ThreadsType == Main \in Threads /\ Pool \subseteq Threads /\ Main \notin Pool
BY SchedulerAssumption DEF Threads, Pool, mThreadCnt

-----------------------------------------------------------------------------
(* The counter of active threads.                                          *)

InFlight == {t \in Threads : task[t] # NoJob /\ pc[t] # "taken"}

LEMMA InFlightFinite == IsFiniteSet(InFlight) /\ IsFiniteSet(InFlight')
<1>1. IsFiniteSet(Pool)
  BY SchedulerAssumption, FS_Interval DEF Pool, mThreadCnt
<1>2. IsFiniteSet(Threads)
  BY <1>1, FS_AddElement DEF Threads
<1> QED  BY <1>2, FS_Subset DEF InFlight

LEMMA InitActive == Init => ActiveIsInFlight
<1> SUFFICES ASSUME Init PROVE ActiveIsInFlight
  OBVIOUS
<1>1. InFlight = {} /\ mActiveCnt = 0
  BY DEF Init, InFlight
<1> QED  BY <1>1, FS_EmptySet DEF ActiveIsInFlight, InFlight

(* A step that keeps the counter and the set of threads it counts. *)
LEMMA ActiveSame ==
  ASSUME ActiveIsInFlight, mActiveCnt' = mActiveCnt, InFlight' = InFlight
  PROVE  ActiveIsInFlight'
BY DEF ActiveIsInFlight, InFlight

LEMMA NextActive == TypeInv /\ ActiveIsInFlight /\ [Next]_vars => ActiveIsInFlight'
<1> SUFFICES ASSUME TypeInv, ActiveIsInFlight, [Next]_vars PROVE ActiveIsInFlight'
  OBVIOUS
<1> USE ThreadsType DEF TypeInv
<1>3. ASSUME NEW t \in Threads, Take(t) PROVE ActiveIsInFlight'
  <2>1. \E j : task' = [task EXCEPT ![t] = j]
    BY <1>3 DEF Take
  <2>2. InFlight' = InFlight
    BY <1>3, <2>1 DEF Take, Goto, InFlight, TypeOK, Places
  <2> QED  BY <1>3, <2>2, ActiveSame DEF Take
<1>4. ASSUME NEW t \in Threads, CountActive(t) PROVE ActiveIsInFlight'
  <2>1. InFlight' = InFlight \cup {t} /\ t \notin InFlight
    BY <1>4 DEF CountActive, Goto, InFlight, TypeOK, Places
  <2>2. Cardinality(InFlight') = Cardinality(InFlight) + 1
    BY <2>1, InFlightFinite, FS_AddElement
  <2> QED  BY <1>4, <2>2 DEF CountActive, ActiveIsInFlight, InFlight
<1>8. ASSUME NEW t \in Threads, Release(t) PROVE ActiveIsInFlight'
  <2>1. InFlight' = InFlight \ {t} /\ t \in InFlight
    BY <1>8 DEF Release, Goto, InFlight, TypeOK, Places
  <2>2. Cardinality(InFlight') = Cardinality(InFlight) - 1
    BY <2>1, InFlightFinite, FS_RemoveElement
  <2> QED  BY <1>8, <2>2 DEF Release, ActiveIsInFlight, InFlight
(* Every other step keeps the tasks, and no thread enters or leaves "taken". *)
<1>a. ASSUME mActiveCnt' = mActiveCnt, task' = task,
             pc' = pc \/ \E t \in Threads, l \in Location \ {"taken"} :
                           pc[t] # "taken" /\ Goto(t, l)
      PROVE  ActiveIsInFlight'
  <2>1. \A u \in Threads : pc'[u] = "taken" <=> pc[u] = "taken"
    BY <1>a DEF Goto, TypeOK
  <2>2. InFlight' = InFlight
    BY <1>a, <2>1 DEF InFlight
  <2> QED  BY <1>a, <2>2, ActiveSame
<1>1. ASSUME NEW t \in Threads, NEW j \in Jobs, NEW n \in Pins, Submit(t, j, n)
      PROVE  ActiveIsInFlight'
  BY <1>1, <1>a DEF Submit
<1>2. ASSUME NEW t \in Threads, Trickle(t) PROVE ActiveIsInFlight'
  BY <1>2, <1>a DEF Trickle
<1>5. ASSUME NEW t \in Threads, FindNothing(t) PROVE ActiveIsInFlight'
  BY <1>5, <1>a DEF FindNothing, Location
<1>6. ASSUME NEW t \in Threads, Peek(t) PROVE ActiveIsInFlight'
  BY <1>6, <1>a DEF Peek, Location
<1>7. ASSUME NEW t \in Threads, Resume(t) PROVE ActiveIsInFlight'
  BY <1>7, <1>a DEF Resume, Location
<1>9. ASSUME NEW t \in Threads, Requeue(t) PROVE ActiveIsInFlight'
  BY <1>9, <1>a DEF Requeue, Location
<1>10. ASSUME NEW t \in Threads, Park(t) PROVE ActiveIsInFlight'
  BY <1>10, <1>a DEF Park, Location
<1>11. ASSUME NEW t \in Threads, YieldHold(t) PROVE ActiveIsInFlight'
  BY <1>11, <1>a DEF YieldHold, Location
<1>12. ASSUME NEW t \in Threads, Finish(t) PROVE ActiveIsInFlight'
  BY <1>12, <1>a DEF Finish, Location
<1>13. ASSUME NEW t \in Threads, SwitchOut(t) PROVE ActiveIsInFlight'
  BY <1>13, <1>a DEF SwitchOut, Location
<1>14. ASSUME NEW t \in Threads, NEW j \in Jobs, Wake(t, j) PROVE ActiveIsInFlight'
  BY <1>14, <1>a DEF Wake
<1>15. ASSUME NEW t \in Threads, Idle(t) PROVE ActiveIsInFlight'
  BY <1>15, <1>a DEF Idle, Location
<1>16. ASSUME NEW t \in Threads, StopTest(t) PROVE ActiveIsInFlight'
  BY <1>16, <1>a DEF StopTest, Location
<1>17. ASSUME NEW t \in Threads, StopTestActive(t) PROVE ActiveIsInFlight'
  BY <1>17, <1>a DEF StopTestActive, Location
<1>18. CASE stop
  BY <1>18, <1>a DEF stop
<1>19. CASE Destroy
  BY <1>19, <1>a DEF Destroy, Location
<1>20. CASE join
  BY <1>20, <1>a DEF join, Location
<1>21. CASE UNCHANGED vars
  BY <1>21, <1>a DEF vars
<1> QED
  BY <1>1, <1>2, <1>3, <1>4, <1>5, <1>6, <1>7, <1>8, <1>9, <1>10, <1>11, <1>12,
     <1>13, <1>14, <1>15, <1>16, <1>17, <1>18, <1>19, <1>20, <1>21
  DEF Next, ThreadStep, MainStep

-----------------------------------------------------------------------------
(* Types, kept by every step as long as the counter is exact.               *)

LEMMA InitType == Init => TypeInv
<1> SUFFICES ASSUME Init PROVE TypeInv
  OBVIOUS
<1>1. TypeOK
  BY SchedulerAssumption, EmptySeq, SMTT(30)
  DEF Init, TypeOK, Threads, Location, FiberState, TaskRecord
<1>2. Places
  BY ThreadsType DEF Init, Places, Threads
<1> QED  BY <1>1, <1>2 DEF TypeInv

LEMMA NextType == TypeInv /\ ActiveIsInFlight /\ [Next]_vars => TypeInv'
<1> SUFFICES ASSUME TypeInv, ActiveIsInFlight, [Next]_vars PROVE TypeInv'
  OBVIOUS
<1> USE ThreadsType DEF TypeInv
<1>1. ASSUME NEW t \in Threads, NEW j \in Jobs, NEW n \in Pins, Submit(t, j, n)
      PROVE  TypeInv'
  <2>1. n \in Int
    BY SchedulerAssumption
  <2>2. mTasks' \in Seq(TaskRecord) /\ isTrickle' \in [Threads -> BOOLEAN]
    BY <1>1, <2>1, AddTaskType DEF Submit
  <2>3. TypeOK'
    BY <1>1, <2>2 DEF Submit, TypeOK, FiberState
  <2> QED  BY <1>1, <2>3 DEF Submit, Places
<1>2. ASSUME NEW t \in Threads, Trickle(t) PROVE TypeInv'
  BY <1>2 DEF Trickle, TypeOK, Places
<1>3. ASSUME NEW t \in Threads, Take(t) PROVE TypeInv'
  <2>1. PICK i \in 1 .. Len(mTasks) :
          /\ mTasks[i] \in TaskRecord
          /\ task' = [task EXCEPT ![t] = mTasks[i].job]
          /\ mTasks' = RemoveAt(mTasks, i)
          /\ isTrickle' \in [Threads -> BOOLEAN]
    BY <1>3, TakeFacts
  <2>2. mTasks[i].job \in Jobs
    BY <2>1 DEF TaskRecord
  <2>3. mTasks' \in Seq(TaskRecord)
    BY <2>1, RemoveAtProperties DEF TypeOK
  <2>4. TypeOK'
    BY <1>3, <2>1, <2>2, <2>3 DEF Take, Goto, TypeOK, Location
  <2>5. mTasks[i].job # NoJob
    BY <2>2, SchedulerAssumption
  <2> QED  BY <1>3, <2>1, <2>4, <2>5 DEF Take, Goto, Places, TypeOK
<1>4. ASSUME NEW t \in Threads, CountActive(t) PROVE TypeInv'
  BY <1>4 DEF CountActive, Goto, TypeOK, Places, Location
<1>5. ASSUME NEW t \in Threads, FindNothing(t) PROVE TypeInv'
  BY <1>5 DEF FindNothing, Goto, TypeOK, Places, Location
<1>6. ASSUME NEW t \in Threads, Peek(t) PROVE TypeInv'
  BY <1>6 DEF Peek, Goto, TypeOK, Places, Location
<1>7. ASSUME NEW t \in Threads, Resume(t) PROVE TypeInv'
  BY <1>7 DEF Resume, Goto, TypeOK, Places, Location, FiberState
<1>8. ASSUME NEW t \in Threads, Release(t) PROVE TypeInv'
  <2>1. ActiveIsInFlight'
    BY NextActive DEF TypeInv
  <2>2. Cardinality(InFlight') \in Nat
    BY InFlightFinite, FS_CardinalityType
  <2>3. mActiveCnt' \in Nat
    BY <2>1, <2>2 DEF ActiveIsInFlight, InFlight
  <2> QED  BY <1>8, <2>3 DEF Release, Goto, TypeOK, Places, Location
<1>9. ASSUME NEW t \in Threads, Requeue(t) PROVE TypeInv'
  <2>1. task[t] \in Jobs
    BY <1>9 DEF Requeue, TypeOK, Places
  <2>2. mTasks' \in Seq(TaskRecord) /\ isTrickle' \in [Threads -> BOOLEAN]
    BY <1>9, <2>1, AddTaskType DEF Requeue
  <2>3. yields' \in [Jobs -> 0 .. MaxYields]
    BY <1>9, <2>1, SchedulerAssumption DEF Requeue, TypeOK
  <2>4. TypeOK'
    BY <1>9, <2>2, <2>3 DEF Requeue, Goto, TypeOK, Location
  <2> QED  BY <1>9, <2>4 DEF Requeue, Goto, Places, TypeOK
<1>10. ASSUME NEW t \in Threads, Park(t) PROVE TypeInv'
  <2>1. task[t] \in Jobs
    BY <1>10 DEF Park, TypeOK, Places
  <2>2. yields' \in [Jobs -> 0 .. MaxYields]
    BY <1>10, <2>1, SchedulerAssumption DEF Park, TypeOK
  <2>3. TypeOK'
    BY <1>10, <2>1, <2>2 DEF Park, Goto, TypeOK, Location
  <2> QED  BY <1>10, <2>3 DEF Park, Goto, Places, TypeOK
<1>11. ASSUME NEW t \in Threads, YieldHold(t) PROVE TypeInv'
  BY <1>11 DEF YieldHold, Goto, TypeOK, Places, Location, FiberState
<1>12. ASSUME NEW t \in Threads, Finish(t) PROVE TypeInv'
  BY <1>12 DEF Finish, Goto, TypeOK, Places, Location, FiberState
<1>13. ASSUME NEW t \in Threads, SwitchOut(t) PROVE TypeInv'
  BY <1>13 DEF SwitchOut, Goto, TypeOK, Places, Location
<1>14. ASSUME NEW t \in Threads, NEW j \in Jobs, Wake(t, j) PROVE TypeInv'
  <2>1. mTasks' \in Seq(TaskRecord) /\ isTrickle' \in [Threads -> BOOLEAN]
    BY <1>14, AddTaskType DEF Wake
  <2> QED  BY <1>14, <2>1 DEF Wake, TypeOK, Places
<1>15. ASSUME NEW t \in Threads, Idle(t) PROVE TypeInv'
  BY <1>15 DEF Idle, Goto, TypeOK, Places, Location
<1>16. ASSUME NEW t \in Threads, StopTest(t) PROVE TypeInv'
  BY <1>16 DEF StopTest, Goto, TypeOK, Places, Location
<1>17. ASSUME NEW t \in Threads, StopTestActive(t) PROVE TypeInv'
  <2>1. t = Main \/ t \in Pool
    BY DEF Threads
  <2> QED  BY <1>17, <2>1 DEF StopTestActive, Goto, TypeOK, Places, Location
<1>18. CASE stop
  BY <1>18 DEF stop, TypeOK, Places
<1>19. CASE Destroy
  BY <1>19 DEF Destroy, Goto, TypeOK, Places, Location
<1>20. CASE join
  BY <1>20 DEF join, Goto, TypeOK, Places, Location
<1>21. CASE UNCHANGED vars
  BY <1>21 DEF vars, TypeOK, Places
<1> QED
  BY <1>1, <1>2, <1>3, <1>4, <1>5, <1>6, <1>7, <1>8, <1>9, <1>10, <1>11, <1>12,
     <1>13, <1>14, <1>15, <1>16, <1>17, <1>18, <1>19, <1>20, <1>21
  DEF Next, ThreadStep, MainStep

(* Type correctness: every variable keeps its type, whatever the number of *)
(* threads, jobs and yields.                                               *)
THEOREM TypeCorrect == Spec => []TypeOK
<1>1. TypeInv => TypeOK
  BY DEF TypeInv
<1> QED  BY <1>1, InitType, NextType, InitActive, NextActive, PTL DEF Spec

(* stopping() relies on mActiveCnt being the number of threads between the *)
(* taking of a task and the return of resume().                            *)
THEOREM ActiveCountExact == Spec => []ActiveIsInFlight
BY InitType, NextType, InitActive, NextActive, PTL DEF Spec

-----------------------------------------------------------------------------
(* Custody of the jobs: the queue, the waiting fibers and the threads.     *)

NoDup == \A j \in Jobs : \A i, k \in DOMAIN mTasks :
           mTasks[i].job = j /\ mTasks[k].job = j => i = k

(* A fiber is EXEC for exactly as long as one thread runs its function or  *)
(* is on its way to m_state := HOLD.                                       *)
ExecOwner ==
  \A t \in Threads :
    /\ pc[t] \in {"job", "resched"} => m_state[task[t]] = "EXEC"
    /\ pc[t] \in {"taken", "peek", "run"} /\ task[t] # NoJob
         => m_state[task[t]] # "EXEC"
    /\ \A u \in Threads :
         /\ pc[t] \in {"job", "resched"} /\ pc[u] \in {"job", "resched"}
         /\ task[t] = task[u]
         => t = u

Custody == NoLostJob /\ NoDoubleClaim /\ ExecOwner

(* addTask makes exactly one more job queued. *)
LEMMA QueueAppend ==
  ASSUME TypeOK, NEW t \in Threads, NEW j \in Jobs, NEW n \in Int,
         addTask(t, j, n)
  PROVE  /\ \A k \in Jobs : Queued(k)' <=> Queued(k) \/ k = j
         /\ NoDup /\ ~Queued(j) => NoDup'
<1> DEFINE r == [job |-> j, threadNum |-> Pin(n)]
           L == Len(mTasks)
<1>1. r \in TaskRecord /\ r.job = j
  BY DEF Pin, TaskRecord
<1>2. /\ mTasks' \in Seq(TaskRecord)
      /\ Len(mTasks') = L + 1
      /\ \A i \in 1 .. L : mTasks'[i] = mTasks[i]
      /\ mTasks'[L + 1] = r
  BY <1>1, AppendProperties DEF addTask, TypeOK
<1>3. L \in Nat /\ DOMAIN mTasks = 1 .. L /\ DOMAIN mTasks' = 1 .. L + 1
  BY <1>2, LenProperties DEF TypeOK
<1> HIDE DEF L, r
<1>4. ASSUME NEW k \in Jobs PROVE Queued(k)' <=> Queued(k) \/ k = j
  BY <1>1, <1>2, <1>3 DEF Queued
<1>5. ASSUME NoDup, ~Queued(j) PROVE NoDup'
  BY <1>1, <1>2, <1>3, <1>5 DEF NoDup, Queued
<1> QED  BY <1>4, <1>5

(* Taking the i-th task out makes exactly its job unqueued. *)
LEMMA QueueRemove ==
  ASSUME TypeOK, NoDup, NEW i \in 1 .. Len(mTasks),
         mTasks' = RemoveAt(mTasks, i)
  PROVE  /\ \A k \in Jobs : Queued(k)' <=> Queued(k) /\ k # mTasks[i].job
         /\ NoDup'
<1> DEFINE L == Len(mTasks)
<1>1. /\ mTasks' \in Seq(TaskRecord)
      /\ Len(mTasks') = L - 1
      /\ \A k \in 1 .. L - 1 :
           mTasks'[k] = IF k < i THEN mTasks[k] ELSE mTasks[k+1]
  BY RemoveAtProperties DEF TypeOK
<1>2. L \in Nat /\ DOMAIN mTasks = 1 .. L /\ DOMAIN mTasks' = 1 .. L - 1
  BY <1>1, LenProperties DEF TypeOK
<1> HIDE DEF L
<1>3. ASSUME NEW k \in Jobs, Queued(k)' PROVE Queued(k) /\ k # mTasks[i].job
  <2>1. PICK x \in 1 .. L - 1 : mTasks'[x].job = k
    BY <1>2, <1>3 DEF Queued
  <2>2. CASE x < i
    BY <1>1, <1>2, <2>1, <2>2 DEF Queued, NoDup
  <2>3. CASE ~(x < i)
    <3>1. x + 1 \in 1 .. L /\ x + 1 # i /\ mTasks[x + 1].job = k
      BY <1>1, <1>2, <2>1, <2>3
    <3> QED  BY <1>2, <3>1 DEF Queued, NoDup, L
  <2> QED  BY <2>2, <2>3
<1>4. ASSUME NEW k \in Jobs, Queued(k), k # mTasks[i].job PROVE Queued(k)'
  <2>1. PICK x \in 1 .. L : mTasks[x].job = k
    BY <1>2, <1>4 DEF Queued
  <2>2. CASE x < i
    BY <1>1, <1>2, <2>1, <2>2 DEF Queued, L
  <2>3. CASE x > i
    <3>1. x - 1 \in 1 .. L - 1 /\ ~(x - 1 < i) /\ (x - 1) + 1 = x
      BY <1>2, <2>1, <2>3
    <3> QED  BY <1>1, <1>2, <2>1, <3>1 DEF Queued
  <2> QED  BY <1>2, <1>4, <2>1, <2>2, <2>3
<1>5. NoDup'
  <2> SUFFICES ASSUME NEW j \in Jobs,
                      NEW x \in 1 .. L - 1, NEW y \in 1 .. L - 1,
                      mTasks'[x].job = j, mTasks'[y].job = j
               PROVE  x = y
    BY <1>2 DEF NoDup
  <2> DEFINE at(z) == IF z < i THEN z ELSE z + 1
  <2>1. /\ at(x) \in 1 .. L /\ mTasks[at(x)].job = j
        /\ at(y) \in 1 .. L /\ mTasks[at(y)].job = j
    BY <1>1, <1>2
  <2>2. at(x) = at(y)
    BY <1>2, <2>1 DEF NoDup
  <2> QED  BY <1>2, <2>2
<1> QED  BY <1>3, <1>4, <1>5

LEMMA NoDupFromClaim == NoDoubleClaim => NoDup
BY DEF NoDoubleClaim, NoDup

(* A step that leaves the queue alone leaves Queued alone. *)
LEMMA QueueSame ==
  ASSUME mTasks' = mTasks
  PROVE  (\A j \in Jobs : Queued(j)' <=> Queued(j)) /\ (NoDup => NoDup')
BY DEF Queued, NoDup

LEMMA InitCustody == Init => Custody
<1> SUFFICES ASSUME Init PROVE Custody
  OBVIOUS
<1>1. \A j \in Jobs : ~Queued(j) /\ j \notin parked /\ ~Held(j)
  BY SchedulerAssumption DEF Init, Queued, Held, Holds
<1>2. NoDup
  BY DEF Init, NoDup
<1>3. \A t \in Threads : pc[t] \in {"body", "loop"} /\ task[t] = NoJob
  BY DEF Init
<1>4. NoLostJob
  BY DEF Init, NoLostJob
<1>5. NoDoubleClaim
  BY <1>1, <1>2, <1>3 DEF NoDoubleClaim, NoDup, Holds
<1>6. ExecOwner
  BY <1>3 DEF ExecOwner
<1> QED  BY <1>4, <1>5, <1>6 DEF Custody

(* A step that moves no job between queue, waiting fibers and threads, and *)
(* neither submits nor finishes one, keeps the custody.                    *)
LEMMA CustodySame ==
  ASSUME NoLostJob, NoDoubleClaim, mTasks' = mTasks, parked' = parked,
         \A j \in Jobs : m_state'[j] \in {"new", "TERM"} <=> m_state[j] \in {"new", "TERM"},
         \A u \in Threads, k \in Jobs : Holds(u, k)' <=> Holds(u, k)
  PROVE  NoLostJob' /\ NoDoubleClaim'
<1>1. (\A j \in Jobs : Queued(j)' <=> Queued(j)) /\ NoDup'
  BY QueueSame, NoDupFromClaim
<1>2. \A j \in Jobs : Held(j)' <=> Held(j)
  BY DEF Held
<1> QED  BY <1>1, <1>2 DEF NoLostJob, NoDoubleClaim, NoDup

LEMMA NextCustody == TypeInv /\ Custody /\ [Next]_vars => Custody'
<1> SUFFICES ASSUME TypeInv, Custody, [Next]_vars PROVE Custody'
  OBVIOUS
<1> USE ThreadsType, SchedulerAssumption DEF TypeInv
<1>0. NoDup
  BY NoDupFromClaim DEF Custody
<1>1. ASSUME NEW t \in Threads, NEW j \in Jobs, NEW n \in Pins, Submit(t, j, n)
      PROVE  Custody'
  <2>1. (\A k \in Jobs : Queued(k)' <=> Queued(k) \/ k = j) /\ (NoDup /\ ~Queued(j) => NoDup')
    BY <1>1, QueueAppend DEF Submit
  <2>2. ~Queued(j) /\ j \notin parked /\ ~Held(j)
    BY <1>1 DEF Submit, Custody, NoDoubleClaim
  <2>3. /\ \A u \in Threads, k \in Jobs : Holds(u, k)' <=> Holds(u, k)
        /\ \A k \in Jobs : Held(k)' <=> Held(k)
    BY <1>1 DEF Submit, Holds, Held
  <2>4. NoLostJob'
    BY <1>1, <2>1, <2>3 DEF Submit, NoLostJob, Custody, TypeOK
  <2>5. NoDoubleClaim'
    BY <1>0, <1>1, <2>1, <2>2, <2>3 DEF Submit, NoDoubleClaim, NoDup, Custody, TypeOK
  <2>6. ExecOwner'
    BY <1>1, <2>2 DEF Submit, ExecOwner, Custody, TypeOK, Places
  <2> QED  BY <2>4, <2>5, <2>6 DEF Custody
<1>2. ASSUME NEW t \in Threads, Trickle(t) PROVE Custody'
  <2>1. \A u \in Threads, k \in Jobs : Holds(u, k)' <=> Holds(u, k)
    BY <1>2 DEF Trickle, Holds, TypeOK, Places
  <2>2. NoLostJob' /\ NoDoubleClaim'
    BY <1>2, <2>1, CustodySame DEF Trickle, Custody
  <2>3. ExecOwner'
    BY <1>2 DEF Trickle, ExecOwner, Custody, TypeOK, Places
  <2> QED  BY <2>2, <2>3 DEF Custody
<1>3. ASSUME NEW t \in Threads, Take(t) PROVE Custody'
  <2>1. PICK i \in 1 .. Len(mTasks) :
          /\ i \in Eligible(t)
          /\ mTasks[i] \in TaskRecord
          /\ task' = [task EXCEPT ![t] = mTasks[i].job]
          /\ mTasks' = RemoveAt(mTasks, i)
    BY <1>3, TakeFacts
  <2> DEFINE j == mTasks[i].job
  <2>2. /\ \A k \in Jobs : Queued(k)' <=> Queued(k) /\ k # j
        /\ NoDup'
    BY <1>0, <2>1, QueueRemove
  <2>3. j \in Jobs /\ Queued(j) /\ m_state[j] # "EXEC"
    BY <2>1 DEF TaskRecord, Queued, Eligible
  <2>4. m_state[j] \notin {"new", "TERM"} /\ j \notin parked /\ ~Held(j)
    BY <2>3 DEF Custody, NoDoubleClaim
  <2> HIDE DEF j
  <2>5. task' = [task EXCEPT ![t] = j]
    BY <2>1 DEF j
  <2>6. /\ \A u \in Threads, k \in Jobs :
             Holds(u, k)' <=> Holds(u, k) \/ (u = t /\ k = j)
        /\ \A k \in Jobs : Held(k)' <=> Held(k) \/ k = j
    BY <1>3, <2>5 DEF Take, Goto, Holds, Held, TypeOK
  <2>7. NoLostJob'
    BY <1>3, <2>2, <2>6 DEF Take, NoLostJob, Custody
  <2>8. NoDoubleClaim'
    BY <1>3, <2>2, <2>3, <2>4, <2>6 DEF Take, NoDoubleClaim, NoDup, Custody, Held
  <2>9. ExecOwner'
    BY <1>3, <2>3, <2>5 DEF Take, Goto, ExecOwner, Custody, TypeOK
  <2> QED  BY <2>7, <2>8, <2>9 DEF Custody
<1>4. ASSUME NEW t \in Threads, CountActive(t) PROVE Custody'
  <2>1. \A u \in Threads, k \in Jobs : Holds(u, k)' <=> Holds(u, k)
    BY <1>4 DEF CountActive, Goto, Holds, TypeOK, Places
  <2>2. NoLostJob' /\ NoDoubleClaim'
    BY <1>4, <2>1, CustodySame DEF CountActive, Custody
  <2>3. ExecOwner'
    BY <1>4 DEF CountActive, Goto, ExecOwner, Custody, TypeOK, Places
  <2> QED  BY <2>2, <2>3 DEF Custody
<1>5. ASSUME NEW t \in Threads, FindNothing(t) PROVE Custody'
  <2>1. \A u \in Threads, k \in Jobs : Holds(u, k)' <=> Holds(u, k)
    BY <1>5 DEF FindNothing, Goto, Holds, TypeOK, Places
  <2>2. NoLostJob' /\ NoDoubleClaim'
    BY <1>5, <2>1, CustodySame DEF FindNothing, Custody
  <2>3. ExecOwner'
    BY <1>5 DEF FindNothing, Goto, ExecOwner, Custody, TypeOK, Places
  <2> QED  BY <2>2, <2>3 DEF Custody
<1>6. ASSUME NEW t \in Threads, Peek(t) PROVE Custody'
  <2>1. \A u \in Threads, k \in Jobs : Holds(u, k)' <=> Holds(u, k)
    BY <1>6 DEF Peek, Goto, Holds, TypeOK, Places
  <2>2. NoLostJob' /\ NoDoubleClaim'
    BY <1>6, <2>1, CustodySame DEF Peek, Custody
  <2>3. ExecOwner'
    BY <1>6 DEF Peek, Goto, ExecOwner, Custody, TypeOK, Places
  <2> QED  BY <2>2, <2>3 DEF Custody
<1>7. ASSUME NEW t \in Threads, Resume(t) PROVE Custody'
  <2>1. \A u \in Threads, k \in Jobs : Holds(u, k)' <=> Holds(u, k)
    BY <1>7 DEF Resume, Goto, Holds, TypeOK, Places
  <2>2. \A j \in Jobs : m_state'[j] \in {"new", "TERM"} <=> m_state[j] \in {"new", "TERM"}
    BY <1>7 DEF Resume, Custody, NoDoubleClaim, ExecOwner, Held, Holds, TypeOK, Places
  <2>3. NoLostJob' /\ NoDoubleClaim'
    BY <1>7, <2>1, CustodySame, <2>2 DEF Resume, Custody
  <2>4. ExecOwner'
    BY <1>7 DEF Resume, Goto, ExecOwner, Custody, NoDoubleClaim, Holds, TypeOK, Places
  <2> QED  BY <2>3, <2>4 DEF Custody
<1>8. ASSUME NEW t \in Threads, Release(t) PROVE Custody'
  <2>1. \A u \in Threads, k \in Jobs : Holds(u, k)' <=> Holds(u, k)
    BY <1>8 DEF Release, Goto, Holds, TypeOK, Places
  <2>2. NoLostJob' /\ NoDoubleClaim'
    BY <1>8, <2>1, CustodySame DEF Release, Custody
  <2>3. ExecOwner'
    BY <1>8 DEF Release, Goto, ExecOwner, Custody, TypeOK, Places
  <2> QED  BY <2>2, <2>3 DEF Custody
<1>9. ASSUME NEW t \in Threads, Requeue(t) PROVE Custody'
  <2> DEFINE j == task[t]
  <2>1. j \in Jobs
    BY <1>9 DEF Requeue, TypeOK, Places
  <2>2. (\A k \in Jobs : Queued(k)' <=> Queued(k) \/ k = j) /\ (NoDup /\ ~Queued(j) => NoDup')
    BY <1>9, <2>1, QueueAppend DEF Requeue
  <2>3. Holds(t, j) /\ m_state[j] = "EXEC"
    BY <1>9 DEF Requeue, Holds, Custody, ExecOwner
  <2>4. ~Queued(j) /\ j \notin parked /\ \A u \in Threads : Holds(u, j) => u = t
    BY <2>1, <2>3 DEF Custody, NoDoubleClaim, Held
  <2> HIDE DEF j
  <2>5. \A u \in Threads, k \in Jobs : Holds(u, k)' <=> Holds(u, k) /\ ~(u = t /\ k = j)
    BY <1>9 DEF Requeue, Goto, Holds, TypeOK, j
  <2>6. \A k \in Jobs : Held(k)' <=> Held(k) /\ k # j
    BY <2>3, <2>4, <2>5 DEF Held
  <2>7. NoLostJob'
    BY <1>9, <2>2, <2>6 DEF Requeue, NoLostJob, Custody
  <2>8. NoDoubleClaim'
    BY <1>0, <1>9, <2>2, <2>3, <2>4, <2>5, <2>6 DEF Requeue, NoDoubleClaim, NoDup, Custody
  <2>9. ExecOwner'
    BY <1>9 DEF Requeue, Goto, ExecOwner, Custody, TypeOK, Places
  <2> QED  BY <2>7, <2>8, <2>9 DEF Custody
<1>10. ASSUME NEW t \in Threads, Park(t) PROVE Custody'
  <2> DEFINE j == task[t]
  <2>1. j \in Jobs /\ parked' = parked \cup {j}
    BY <1>10 DEF Park, TypeOK, Places
  <2>2. (\A k \in Jobs : Queued(k)' <=> Queued(k)) /\ (NoDup => NoDup')
    BY <1>10, QueueSame DEF Park
  <2>3. Holds(t, j) /\ m_state[j] = "EXEC"
    BY <1>10 DEF Park, Holds, Custody, ExecOwner
  <2>4. ~Queued(j) /\ \A u \in Threads : Holds(u, j) => u = t
    BY <2>1, <2>3 DEF Custody, NoDoubleClaim, Held
  <2> HIDE DEF j
  <2>5. \A u \in Threads, k \in Jobs : Holds(u, k)' <=> Holds(u, k) /\ ~(u = t /\ k = j)
    BY <1>10 DEF Park, Goto, Holds, TypeOK, j
  <2>6. \A k \in Jobs : Held(k)' <=> Held(k) /\ k # j
    BY <2>3, <2>4, <2>5 DEF Held
  <2>7. NoLostJob'
    BY <1>10, <2>1, <2>2, <2>6 DEF Park, NoLostJob, Custody
  <2>8. NoDoubleClaim'
    BY <1>0, <1>10, <2>1, <2>2, <2>3, <2>4, <2>5, <2>6 DEF Park, NoDoubleClaim, NoDup, Custody
  <2>9. ExecOwner'
    BY <1>10 DEF Park, Goto, ExecOwner, Custody, TypeOK, Places
  <2> QED  BY <2>7, <2>8, <2>9 DEF Custody
<1>11. ASSUME NEW t \in Threads, YieldHold(t) PROVE Custody'
  <2>1. \A u \in Threads, k \in Jobs : Holds(u, k)' <=> Holds(u, k)
    BY <1>11 DEF YieldHold, Goto, Holds, TypeOK, Places
  <2>2. \A j \in Jobs : m_state'[j] \in {"new", "TERM"} <=> m_state[j] \in {"new", "TERM"}
    BY <1>11 DEF YieldHold, Custody, NoDoubleClaim, ExecOwner, Held, Holds, TypeOK, Places
  <2>3. NoLostJob' /\ NoDoubleClaim'
    BY <1>11, <2>1, CustodySame, <2>2 DEF YieldHold, Custody
  <2>4. ExecOwner'
    BY <1>11 DEF YieldHold, Goto, ExecOwner, Custody, NoDoubleClaim, Holds, TypeOK, Places
  <2> QED  BY <2>3, <2>4 DEF Custody
<1>12. ASSUME NEW t \in Threads, Finish(t) PROVE Custody'
  <2> DEFINE j == task[t]
  <2>1. j \in Jobs /\ m_state' = [m_state EXCEPT ![j] = "TERM"]
    BY <1>12 DEF Finish, TypeOK, Places
  <2>2. (\A k \in Jobs : Queued(k)' <=> Queued(k)) /\ (NoDup => NoDup')
    BY <1>12, QueueSame DEF Finish
  <2>3. Holds(t, j) /\ m_state[j] = "EXEC"
    BY <1>12 DEF Finish, Holds, Custody, ExecOwner
  <2>4. ~Queued(j) /\ j \notin parked /\ \A u \in Threads : Holds(u, j) => u = t
    BY <2>1, <2>3 DEF Custody, NoDoubleClaim, Held
  <2> HIDE DEF j
  <2>5. \A u \in Threads, k \in Jobs : Holds(u, k)' <=> Holds(u, k) /\ ~(u = t /\ k = j)
    BY <1>12 DEF Finish, Goto, Holds, TypeOK, j
  <2>6. \A k \in Jobs : Held(k)' <=> Held(k) /\ k # j
    BY <2>3, <2>4, <2>5 DEF Held
  <2>7. \A k \in Jobs : m_state'[k] = IF k = j THEN "TERM" ELSE m_state[k]
    BY <2>1 DEF TypeOK
  <2>8. NoLostJob'
    BY <1>12, <2>2, <2>6, <2>7 DEF Finish, NoLostJob, Custody
  <2>9. NoDoubleClaim'
    BY <1>0, <1>12, <2>2, <2>4, <2>5, <2>6, <2>7 DEF Finish, NoDoubleClaim, NoDup, Custody
  <2>10. ExecOwner'
    BY <1>12, <2>3 DEF Finish, Goto, ExecOwner, Custody, TypeOK, Places
  <2> QED  BY <2>8, <2>9, <2>10 DEF Custody
<1>13. ASSUME NEW t \in Threads, SwitchOut(t) PROVE Custody'
  <2>1. \A u \in Threads, k \in Jobs : Holds(u, k)' <=> Holds(u, k)
    BY <1>13 DEF SwitchOut, Goto, Holds, TypeOK, Places
  <2>2. NoLostJob' /\ NoDoubleClaim'
    BY <1>13, <2>1, CustodySame DEF SwitchOut, Custody
  <2>3. ExecOwner'
    BY <1>13 DEF SwitchOut, Goto, ExecOwner, Custody, TypeOK, Places
  <2> QED  BY <2>2, <2>3 DEF Custody
<1>14. ASSUME NEW t \in Threads, NEW j \in Jobs, Wake(t, j) PROVE Custody'
  <2>1. (\A k \in Jobs : Queued(k)' <=> Queued(k) \/ k = j) /\ (NoDup /\ ~Queued(j) => NoDup')
    BY <1>14, QueueAppend DEF Wake
  <2>2. /\ m_state[j] \notin {"new", "TERM"} /\ ~Queued(j) /\ ~Held(j)
        /\ parked' = parked \ {j}
    BY <1>14 DEF Wake, Custody, NoDoubleClaim
  <2>3. /\ \A u \in Threads, k \in Jobs : Holds(u, k)' <=> Holds(u, k)
        /\ \A k \in Jobs : Held(k)' <=> Held(k)
    BY <1>14 DEF Wake, Holds, Held
  <2>4. NoLostJob'
    BY <1>14, <2>1, <2>2, <2>3 DEF Wake, NoLostJob, Custody
  <2>5. NoDoubleClaim'
    BY <1>0, <1>14, <2>1, <2>2, <2>3 DEF Wake, NoDoubleClaim, NoDup, Custody
  <2>6. ExecOwner'
    BY <1>14 DEF Wake, ExecOwner, Custody
  <2> QED  BY <2>4, <2>5, <2>6 DEF Custody
<1>15. ASSUME NEW t \in Threads, Idle(t) PROVE Custody'
  <2>1. \A u \in Threads, k \in Jobs : Holds(u, k)' <=> Holds(u, k)
    BY <1>15 DEF Idle, Goto, Holds, TypeOK, Places
  <2>2. NoLostJob' /\ NoDoubleClaim'
    BY <1>15, <2>1, CustodySame DEF Idle, Custody
  <2>3. ExecOwner'
    BY <1>15 DEF Idle, Goto, ExecOwner, Custody, TypeOK, Places
  <2> QED  BY <2>2, <2>3 DEF Custody
<1>16. ASSUME NEW t \in Threads, StopTest(t) PROVE Custody'
  <2>1. \A u \in Threads, k \in Jobs : Holds(u, k)' <=> Holds(u, k)
    BY <1>16 DEF StopTest, Goto, Holds, TypeOK, Places
  <2>2. NoLostJob' /\ NoDoubleClaim'
    BY <1>16, <2>1, CustodySame DEF StopTest, Custody
  <2>3. ExecOwner'
    BY <1>16 DEF StopTest, Goto, ExecOwner, Custody, TypeOK, Places
  <2> QED  BY <2>2, <2>3 DEF Custody
<1>17. ASSUME NEW t \in Threads, StopTestActive(t) PROVE Custody'
  <2>1. \A u \in Threads, k \in Jobs : Holds(u, k)' <=> Holds(u, k)
    BY <1>17 DEF StopTestActive, Goto, Holds, TypeOK, Places
  <2>2. NoLostJob' /\ NoDoubleClaim'
    BY <1>17, <2>1, CustodySame DEF StopTestActive, Custody
  <2>3. ExecOwner'
    BY <1>17 DEF StopTestActive, Goto, ExecOwner, Custody, TypeOK, Places
  <2> QED  BY <2>2, <2>3 DEF Custody
<1>18. CASE stop
  <2>1. \A u \in Threads, k \in Jobs : Holds(u, k)' <=> Holds(u, k)
    BY <1>18 DEF stop, Holds, TypeOK, Places
  <2>2. NoLostJob' /\ NoDoubleClaim'
    BY <1>18, <2>1, CustodySame DEF stop, Custody
  <2>3. ExecOwner'
    BY <1>18 DEF stop, ExecOwner, Custody, TypeOK
  <2> QED  BY <2>2, <2>3 DEF Custody
<1>19. CASE Destroy
  <2>1. \A u \in Threads, k \in Jobs : Holds(u, k)' <=> Holds(u, k)
    BY <1>19 DEF Destroy, Goto, Holds, TypeOK, Places
  <2>2. NoLostJob' /\ NoDoubleClaim'
    BY <1>19, <2>1, CustodySame DEF Destroy, Custody
  <2>3. ExecOwner'
    BY <1>19 DEF Destroy, Goto, ExecOwner, Custody, TypeOK
  <2> QED  BY <2>2, <2>3 DEF Custody
<1>20. CASE join
  <2>1. \A u \in Threads, k \in Jobs : Holds(u, k)' <=> Holds(u, k)
    BY <1>20 DEF join, Goto, Holds, TypeOK, Places
  <2>2. NoLostJob' /\ NoDoubleClaim'
    BY <1>20, <2>1, CustodySame DEF join, Custody
  <2>3. ExecOwner'
    BY <1>20 DEF join, Goto, ExecOwner, Custody, TypeOK
  <2> QED  BY <2>2, <2>3 DEF Custody
<1>21. CASE UNCHANGED vars
  <2>1. \A u \in Threads, k \in Jobs : Holds(u, k)' <=> Holds(u, k)
    BY <1>21 DEF vars, Holds, TypeOK, Places
  <2>2. NoLostJob' /\ NoDoubleClaim'
    BY <1>21, <2>1, CustodySame DEF vars, Custody
  <2>3. ExecOwner'
    BY <1>21 DEF vars, ExecOwner, Custody, TypeOK
  <2> QED  BY <2>2, <2>3 DEF Custody
<1> QED
  BY <1>1, <1>2, <1>3, <1>4, <1>5, <1>6, <1>7, <1>8, <1>9, <1>10, <1>11, <1>12,
     <1>13, <1>14, <1>15, <1>16, <1>17, <1>18, <1>19, <1>20, <1>21
  DEF Next, ThreadStep, MainStep

(* Custody of every job, whatever the interleaving of addTask, the scan of *)
(* the queue, yield and shutdown: nothing submitted is dropped, and nothing *)
(* is ever claimed twice.                                                  *)
THEOREM JobsInOnePlace == Spec => []InOnePlace
<1>1. Custody => InOnePlace
  BY DEF Custody, InOnePlace
<1> QED
  BY <1>1, InitType, NextType, InitActive, NextActive, InitCustody,
     NextCustody, PTL DEF Spec

(* Two threads share a fiber's stack only while one of them is inside      *)
(* Fiber::yield, between m_state := HOLD and swapcontext.                  *)
THEOREM CrashIsInYield == Spec => []CrashOnlyInYield
<1>1. TypeInv /\ Custody => CrashOnlyInYield
  BY DEF TypeInv, Places, Custody, ExecOwner, CrashOnlyInYield
<1> QED
  BY <1>1, InitType, NextType, InitActive, NextActive, InitCustody,
     NextCustody, PTL DEF Spec

-----------------------------------------------------------------------------
(* Shutdown: as long as the queue is not empty somebody is left to scan it. *)

Gone(t) == pc[t] \in {"stop2", "exit", "join", "end", "body"}

ShutdownInv ==
  /\ mStopping /\ mTasks # <<>> => \E t \in Threads : ~Gone(t)
  /\ ~mStopping => \A t \in Pool : ~Gone(t)
  /\ pc[Main] = "end" => \A t \in Pool : pc[t] = "exit"

LEMMA PoolNotEmpty == 0 \in Pool
BY SchedulerAssumption DEF Pool, mThreadCnt

LEMMA InitShutdown == Init => ShutdownInv
BY PoolNotEmpty, ThreadsType DEF Init, ShutdownInv, Gone

LEMMA NextShutdown == TypeInv /\ ShutdownInv /\ [Next]_vars => ShutdownInv'
<1> SUFFICES ASSUME TypeInv, ShutdownInv, [Next]_vars PROVE ShutdownInv'
  OBVIOUS
<1> USE ThreadsType, PoolNotEmpty, SchedulerAssumption DEF TypeInv
(* A step of a thread that stays in the loop, in a job or in yield. *)
<1>a. ASSUME NEW t \in Threads, NEW l \in Location,
             ~Gone(t), l \notin {"stop2", "exit", "join", "end", "body"},
             mStopping' = mStopping, Goto(t, l) \/ pc' = pc
      PROVE  ShutdownInv'
  <2>1. /\ \A u \in Threads : ~Gone(u) => ~Gone(u)'
        /\ pc[Main]' = "end" => pc[Main] = "end"
        /\ \A u \in Threads : pc[u] = "exit" => pc[u]' = "exit"
    BY <1>a DEF Goto, Gone, TypeOK
  <2> QED  BY <1>a, <2>1 DEF ShutdownInv
<1>1. ASSUME NEW t \in Threads, NEW j \in Jobs, NEW n \in Pins, Submit(t, j, n)
      PROVE  ShutdownInv'
  <2>1. CASE pc[t] = "job"
    BY <1>1, <1>a, <2>1 DEF Submit, Gone, Location
  <2>2. CASE pc[t] = "body" /\ ~mStopping
    BY <1>1, <2>2 DEF Submit, ShutdownInv, Gone
  <2> QED  BY <1>1, <2>1, <2>2 DEF Submit
<1>2. ASSUME NEW t \in Threads, Trickle(t) PROVE ShutdownInv'
  BY <1>2 DEF Trickle, ShutdownInv, Gone
<1>3. ASSUME NEW t \in Threads, Take(t) PROVE ShutdownInv'
  BY <1>3, <1>a DEF Take, Gone, Location
<1>4. ASSUME NEW t \in Threads, CountActive(t) PROVE ShutdownInv'
  BY <1>4, <1>a DEF CountActive, Gone, Location
<1>5. ASSUME NEW t \in Threads, FindNothing(t) PROVE ShutdownInv'
  BY <1>5, <1>a DEF FindNothing, Gone, Location
<1>6. ASSUME NEW t \in Threads, Peek(t) PROVE ShutdownInv'
  BY <1>6, <1>a DEF Peek, Gone, Location
<1>7. ASSUME NEW t \in Threads, Resume(t) PROVE ShutdownInv'
  BY <1>7, <1>a DEF Resume, Gone, Location
<1>8. ASSUME NEW t \in Threads, Release(t) PROVE ShutdownInv'
  BY <1>8, <1>a DEF Release, Gone, Location
<1>9. ASSUME NEW t \in Threads, Requeue(t) PROVE ShutdownInv'
  BY <1>9, <1>a DEF Requeue, Gone, Location
<1>10. ASSUME NEW t \in Threads, Park(t) PROVE ShutdownInv'
  BY <1>10, <1>a DEF Park, Gone, Location
<1>11. ASSUME NEW t \in Threads, YieldHold(t) PROVE ShutdownInv'
  BY <1>11, <1>a DEF YieldHold, Gone, Location
<1>12. ASSUME NEW t \in Threads, Finish(t) PROVE ShutdownInv'
  BY <1>12, <1>a DEF Finish, Gone, Location
<1>13. ASSUME NEW t \in Threads, SwitchOut(t) PROVE ShutdownInv'
  BY <1>13, <1>a DEF SwitchOut, Gone, Location
<1>14. ASSUME NEW t \in Threads, NEW j \in Jobs, Wake(t, j) PROVE ShutdownInv'
  BY <1>14, <1>a DEF Wake, Gone, Location
<1>15. ASSUME NEW t \in Threads, Idle(t) PROVE ShutdownInv'
  BY <1>15, <1>a DEF Idle, Gone, Location
<1>16. ASSUME NEW t \in Threads, StopTest(t) PROVE ShutdownInv'
  <2>1. CASE mStopping /\ mTasks = <<>>
    BY <1>16, <2>1 DEF StopTest, Goto, ShutdownInv, TypeOK
  <2>2. CASE ~(mStopping /\ mTasks = <<>>)
    BY <1>16, <1>a, <2>2 DEF StopTest, Gone, Location
  <2> QED  BY <2>1, <2>2
<1>17. ASSUME NEW t \in Threads, StopTestActive(t) PROVE ShutdownInv'
  <2>1. pc[t] = "stop2" /\ mStopping' = mStopping /\ mTasks' = mTasks
    BY <1>17 DEF StopTestActive
  <2>2. /\ \A u \in Threads : ~Gone(u) => ~Gone(u)'
        /\ \A u \in Threads : pc[u] = "exit" => pc[u]' = "exit"
        /\ pc[Main]' = "end" => pc[Main] = "end"
        /\ \A u \in Pool : Gone(u)' => Gone(u)
    BY <1>17 DEF StopTestActive, Goto, Gone, TypeOK
  <2> QED  BY <2>1, <2>2 DEF ShutdownInv
<1>18. CASE stop
  BY <1>18 DEF stop, ShutdownInv, Gone, Places
<1>19. CASE Destroy
  BY <1>19 DEF Destroy, Goto, ShutdownInv, Gone, TypeOK
<1>20. CASE join
  BY <1>20 DEF join, Goto, ShutdownInv, Gone, TypeOK
<1>21. CASE UNCHANGED vars
  BY <1>21 DEF vars, ShutdownInv, Gone
<1> QED
  BY <1>1, <1>2, <1>3, <1>4, <1>5, <1>6, <1>7, <1>8, <1>9, <1>10, <1>11, <1>12,
     <1>13, <1>14, <1>15, <1>16, <1>17, <1>18, <1>19, <1>20, <1>21
  DEF Next, ThreadStep, MainStep

(* The destructor returns only when the queue is empty and every submitted *)
(* job has returned or waits for an event.                                 *)
THEOREM NothingLeftAtEnd == Spec => []DrainedAtEnd
<1>1. TypeInv /\ Custody /\ ShutdownInv => DrainedAtEnd
  <2> SUFFICES ASSUME TypeInv, Custody, ShutdownInv, pc[Main] = "end"
               PROVE  /\ mTasks = <<>>
                      /\ \A j \in Jobs : m_state[j] \in {"new", "TERM"} \/ j \in parked
    BY DEF DrainedAtEnd
  <2>1. \A t \in Threads : pc[t] \in {"exit", "end"}
    BY DEF ShutdownInv, Threads
  <2>2. mTasks = <<>>
    BY <2>1, PoolNotEmpty, ThreadsType DEF ShutdownInv, Gone
  <2>3. \A j \in Jobs : ~Queued(j) /\ ~Held(j)
    BY <2>1, <2>2 DEF Queued, Held, Holds
  <2> QED  BY <2>2, <2>3 DEF Custody, NoLostJob
<1> QED
  BY <1>1, InitType, NextType, InitActive, NextActive, InitCustody,
     NextCustody, InitShutdown, NextShutdown, PTL DEF Spec

-----------------------------------------------------------------------------
(* The scheduler implements the abstract pool of jobs.                     *)

LEMMA InitRefines == Init => Pooled!Init
BY DEF Init, Pooled!Init, Status

(* A step that keeps the place of every job is a stutter of the pool. *)
LEMMA StatusSame ==
  ASSUME \A j \in Jobs : Queued(j)' <=> Queued(j),
         parked' = parked,
         \A j \in Jobs : /\ m_state'[j] = "new" <=> m_state[j] = "new"
                         /\ m_state'[j] = "TERM" <=> m_state[j] = "TERM"
  PROVE  [j \in Jobs |-> Status(j)]' = [j \in Jobs |-> Status(j)]
<1>1. \A j \in Jobs : Status(j)' = Status(j)
  BY DEF Status
<1> QED  BY <1>1

(* A step that moves one job is the pool's step of that job. *)
LEMMA StatusMoves ==
  ASSUME NEW j \in Jobs, NEW from, NEW to,
         Status(j) = from, Status(j)' = to,
         \A k \in Jobs \ {j} : Status(k)' = Status(k)
  PROVE  Pooled!Becomes(j, from, to)
<1> DEFINE f == [k \in Jobs |-> Status(k)]
<1>1. f' = [f EXCEPT ![j] = to]
  BY DEF f
<1> QED  BY <1>1 DEF Pooled!Becomes

LEMMA NextRefines ==
  TypeInv /\ Custody /\ [Next]_vars => [Pooled!Next]_([j \in Jobs |-> Status(j)])
<1> DEFINE at == [j \in Jobs |-> Status(j)]
<1> SUFFICES ASSUME TypeInv, Custody, [Next]_vars
             PROVE  Pooled!Next \/ UNCHANGED at
  OBVIOUS
<1> HIDE DEF at
<1> USE ThreadsType, SchedulerAssumption DEF TypeInv
<1>s. ASSUME UNCHANGED <<mTasks, parked, m_state>> PROVE UNCHANGED at
  BY <1>s, QueueSame, StatusSame DEF at
<1>1. ASSUME NEW t \in Threads, NEW j \in Jobs, NEW n \in Pins, Submit(t, j, n)
      PROVE  Pooled!Submit(j)
  <2>1. \A k \in Jobs : Queued(k)' <=> Queued(k) \/ k = j
    BY <1>1, QueueAppend DEF Submit
  <2>2. Status(j) = "new" /\ Status(j)' = "ready"
    BY <1>1, <2>1 DEF Submit, Status, TypeOK
  <2>3. \A k \in Jobs \ {j} : Status(k)' = Status(k)
    BY <1>1, <2>1 DEF Submit, Status, TypeOK
  <2> QED  BY <2>2, <2>3, StatusMoves DEF Pooled!Submit
<1>3. ASSUME NEW t \in Threads, Take(t)
      PROVE  \E j \in Jobs : Pooled!Start(j)
  <2>1. PICK i \in 1 .. Len(mTasks) :
          /\ i \in Eligible(t)
          /\ mTasks[i] \in TaskRecord
          /\ mTasks' = RemoveAt(mTasks, i)
    BY <1>3, TakeFacts
  <2>2. PICK j \in Jobs : j = mTasks[i].job
    BY <2>1 DEF TaskRecord
  <2>3. \A k \in Jobs : Queued(k)' <=> Queued(k) /\ k # j
    BY <2>1, <2>2, QueueRemove, NoDupFromClaim DEF Custody
  <2>4. Queued(j) /\ m_state[j] \notin {"new", "TERM"} /\ j \notin parked
    BY <2>1, <2>2 DEF Queued, Eligible, Custody, NoDoubleClaim
  <2>5. Status(j) = "ready" /\ Status(j)' = "running"
    BY <1>3, <2>2, <2>3, <2>4 DEF Take, Status
  <2>6. \A k \in Jobs \ {j} : Status(k)' = Status(k)
    BY <1>3, <2>3 DEF Take, Status
  <2> QED  BY <2>2, <2>5, <2>6, StatusMoves DEF Pooled!Start
(* The job of a thread that runs it is "running" in the pool. *)
<1>r. ASSUME NEW t \in Threads, pc[t] = "job"
      PROVE  /\ task[t] \in Jobs
             /\ Status(task[t]) = "running"
             /\ m_state[task[t]] = "EXEC"
             /\ ~Queued(task[t]) /\ task[t] \notin parked
  <2>1. task[t] \in Jobs /\ m_state[task[t]] = "EXEC" /\ Holds(t, task[t])
    BY <1>r DEF TypeOK, Places, Custody, ExecOwner, Holds
  <2>2. ~Queued(task[t]) /\ task[t] \notin parked
    BY <2>1 DEF Custody, NoDoubleClaim, Held
  <2> QED  BY <2>1, <2>2 DEF Status
<1>9. ASSUME NEW t \in Threads, Requeue(t)
      PROVE  \E j \in Jobs : Pooled!Yield(j)
  <2>0. PICK j \in Jobs : j = task[t]
    BY <1>9, <1>r DEF Requeue
  <2>1. j \in Jobs /\ Status(j) = "running" /\ m_state[j] = "EXEC"
    BY <1>9, <1>r, <2>0 DEF Requeue
  <2>2. \A k \in Jobs : Queued(k)' <=> Queued(k) \/ k = j
    BY <1>9, <2>0, <2>1, QueueAppend DEF Requeue
  <2>3. Status(j)' = "ready" /\ \A k \in Jobs \ {j} : Status(k)' = Status(k)
    BY <1>9, <2>1, <2>2 DEF Requeue, Status
  <2> QED  BY <2>1, <2>3, StatusMoves DEF Pooled!Yield
<1>10. ASSUME NEW t \in Threads, Park(t)
       PROVE  \E j \in Jobs : Pooled!Wait(j)
  <2>0. PICK j \in Jobs : j = task[t]
    BY <1>10, <1>r DEF Park
  <2>1. /\ j \in Jobs /\ Status(j) = "running" /\ m_state[j] = "EXEC"
        /\ ~Queued(j) /\ parked' = parked \cup {j}
    BY <1>10, <1>r, <2>0 DEF Park
  <2>2. \A k \in Jobs : Queued(k)' <=> Queued(k)
    BY <1>10, QueueSame DEF Park
  <2>3. Status(j)' = "waiting" /\ \A k \in Jobs \ {j} : Status(k)' = Status(k)
    BY <1>10, <2>1, <2>2 DEF Park, Status
  <2> QED  BY <2>1, <2>3, StatusMoves DEF Pooled!Wait
<1>12. ASSUME NEW t \in Threads, Finish(t)
       PROVE  \E j \in Jobs : Pooled!Finish(j)
  <2>0. PICK j \in Jobs : j = task[t]
    BY <1>12, <1>r DEF Finish
  <2>1. /\ j \in Jobs /\ Status(j) = "running"
        /\ m_state' = [m_state EXCEPT ![j] = "TERM"]
    BY <1>12, <1>r, <2>0 DEF Finish
  <2>2. \A k \in Jobs : Queued(k)' <=> Queued(k)
    BY <1>12, QueueSame DEF Finish
  <2>3. Status(j)' = "done" /\ \A k \in Jobs \ {j} : Status(k)' = Status(k)
    BY <1>12, <2>1, <2>2 DEF Finish, Status, TypeOK
  <2> QED  BY <2>1, <2>3, StatusMoves DEF Pooled!Finish
<1>14. ASSUME NEW t \in Threads, NEW j \in Jobs, Wake(t, j)
       PROVE  Pooled!Wake(j)
  <2>1. \A k \in Jobs : Queued(k)' <=> Queued(k) \/ k = j
    BY <1>14, QueueAppend DEF Wake
  <2>2. m_state[j] \notin {"new", "TERM"} /\ ~Queued(j) /\ j \in parked
    BY <1>14 DEF Wake, Custody, NoDoubleClaim
  <2>3. Status(j) = "waiting" /\ Status(j)' = "ready"
    BY <1>14, <2>1, <2>2 DEF Wake, Status
  <2>4. \A k \in Jobs \ {j} : Status(k)' = Status(k)
    BY <1>14, <2>1 DEF Wake, Status
  <2> QED  BY <2>3, <2>4, StatusMoves DEF Pooled!Wake
<1>7. ASSUME NEW t \in Threads, Resume(t) PROVE UNCHANGED at
  <2>1. \A k \in Jobs : Queued(k)' <=> Queued(k)
    BY <1>7, QueueSame DEF Resume
  <2>2. m_state[task[t]] \notin {"new", "TERM"}
    BY <1>7 DEF Resume, Custody, NoDoubleClaim, ExecOwner, Held, Holds, TypeOK, Places
  <2> QED  BY <1>7, <2>1, <2>2, StatusSame DEF Resume, at, TypeOK
<1>11. ASSUME NEW t \in Threads, YieldHold(t) PROVE UNCHANGED at
  <2>1. \A k \in Jobs : Queued(k)' <=> Queued(k)
    BY <1>11, QueueSame DEF YieldHold
  <2>2. m_state[task[t]] \notin {"new", "TERM"}
    BY <1>11 DEF YieldHold, Custody, NoDoubleClaim, ExecOwner, Held, Holds, TypeOK, Places
  <2> QED  BY <1>11, <2>1, <2>2, StatusSame DEF YieldHold, at, TypeOK
<1>2. ASSUME NEW t \in Threads, Trickle(t) PROVE UNCHANGED at
  BY <1>2, <1>s DEF Trickle
<1>4. ASSUME NEW t \in Threads, CountActive(t) PROVE UNCHANGED at
  BY <1>4, <1>s DEF CountActive
<1>5. ASSUME NEW t \in Threads, FindNothing(t) PROVE UNCHANGED at
  BY <1>5, <1>s DEF FindNothing
<1>6. ASSUME NEW t \in Threads, Peek(t) PROVE UNCHANGED at
  BY <1>6, <1>s DEF Peek
<1>8. ASSUME NEW t \in Threads, Release(t) PROVE UNCHANGED at
  BY <1>8, <1>s DEF Release
<1>13. ASSUME NEW t \in Threads, SwitchOut(t) PROVE UNCHANGED at
  BY <1>13, <1>s DEF SwitchOut
<1>15. ASSUME NEW t \in Threads, Idle(t) PROVE UNCHANGED at
  BY <1>15, <1>s DEF Idle
<1>16. ASSUME NEW t \in Threads, StopTest(t) PROVE UNCHANGED at
  BY <1>16, <1>s DEF StopTest
<1>17. ASSUME NEW t \in Threads, StopTestActive(t) PROVE UNCHANGED at
  BY <1>17, <1>s DEF StopTestActive
<1>18. ASSUME stop PROVE UNCHANGED at
  BY <1>18, <1>s DEF stop
<1>19. ASSUME Destroy PROVE UNCHANGED at
  BY <1>19, <1>s DEF Destroy
<1>20. ASSUME join PROVE UNCHANGED at
  BY <1>20, <1>s DEF join
<1>21. ASSUME UNCHANGED vars PROVE UNCHANGED at
  BY <1>21, <1>s DEF vars
<1> QED
  BY <1>1, <1>2, <1>3, <1>4, <1>5, <1>6, <1>7, <1>8, <1>9, <1>10, <1>11, <1>12,
     <1>13, <1>14, <1>15, <1>16, <1>17, <1>18, <1>19, <1>20, <1>21
  DEF Next, ThreadStep, MainStep, Pooled!Next

(* Every behaviour of the scheduler is one of the pool of jobs: each job is *)
(* started only out of the queue, finished once and never resumed after.   *)
THEOREM Refinement == Spec => ImplementsJobPool
BY InitRefines, NextRefines, InitType, NextType, InitActive, NextActive,
   InitCustody, NextCustody, PTL
DEF Spec, ImplementsJobPool, Pooled!Spec
=============================================================================
