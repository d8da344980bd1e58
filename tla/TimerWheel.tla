----------------------------- MODULE TimerWheel -----------------------------
(***************************************************************************)
(* TimerManager: a wheel of mSlotNum lists of timers whose cursor moves by *)
(* one slot at a tick, and ticks are at least mTickTime apart.             *)
(*                                                                         *)
(* Any number of threads call the three operations.  They exclude each     *)
(* other through mLock, but addTimer reads mCurSlot before it takes the    *)
(* lock, so it is two steps.  Of time only what the code and the           *)
(* properties compare is kept: the time since the last tick, by a clock    *)
(* that may be set back, and the time that has really passed since a timer *)
(* was set, neither beyond the value from which it stays "enough".         *)
(***************************************************************************)
EXTENDS Integers

CONSTANTS
  mSlotNum,
  mTickTime,   \* in units of the clock
  Timers,      \* the Timer objects addTimer will create
  Interval,    \* [Timers -> Nat]: the argument timing
  Recurring,   \* the timers added with recurr = true
  Deletable,   \* the timers whose handle the caller gives to delTimer
  MaxBack      \* bound: by how much the clock is set back, all in all

ASSUME WheelAssumption ==
  /\ mSlotNum \in Nat \ {0}
  /\ mTickTime \in Nat \ {0}
  /\ Interval \in [Timers -> Nat]
  /\ Recurring \subseteq Timers
  /\ Deletable \subseteq Timers
  /\ MaxBack \in Nat

VARIABLES
  mWheel,     \* [Slots -> SUBSET Timers]
  mCurSlot,
  since,      \* (int)(getCurTimeMS() - mLastExpireTime), up to mTickTime
  back,       \* by how much the clock has been set back so far
  slot,       \* [Timers -> Slots]: Timer::slot
  round,      \* [Timers -> Nat]: Timer::round
  cbs,        \* the timers whose callbacks the last tick handed out
  phase,      \* [Timers -> Phase]
  age,        \* [Timers -> Nat]: time since addTimer or since the last firing
  waited      \* [Timers -> Nat]: ticks since the timer entered its list

vars == <<mWheel, mCurSlot, since, back, slot, round, cbs, phase, age, waited>>

Slots == 0 .. mSlotNum - 1
Phase == {"new", "adding", "armed", "fired", "deleted"}

ticks(t) == Interval[t] \div mTickTime

\* Mutants: the sum not reduced, the cursor forgotten.
SlotFor_NoWrap(t)   == mCurSlot + (ticks(t) % mSlotNum)
SlotFor_NoCursor(t) == ticks(t) % mSlotNum

\* Where a timer goes that is set now.
SlotFor(t) == (mCurSlot + (ticks(t) % mSlotNum)) % mSlotNum

Init ==
  /\ mWheel = [s \in Slots |-> {}]
  /\ mCurSlot = 0
  /\ since = 0 /\ back = 0
  /\ slot = [t \in Timers |-> 0]
  /\ round = [t \in Timers |-> 0]
  /\ cbs = {}
  /\ phase = [t \in Timers |-> "new"]
  /\ age = [t \in Timers |-> 0]
  /\ waited = [t \in Timers |-> 0]

\* addTimer up to the lock: ticks, round and slot of the new Timer.
Compute(t) ==
  /\ phase[t] = "new"
  /\ phase' = [phase EXCEPT ![t] = "adding"]
  /\ slot' = [slot EXCEPT ![t] = SlotFor(t)]
  /\ round' = [round EXCEPT ![t] = ticks(t) \div mSlotNum]
  /\ UNCHANGED <<mWheel, mCurSlot, since, back, cbs, age, waited>>

\* addTimer from the lock on.
Insert(t) ==
  /\ phase[t] = "adding"
  /\ phase' = [phase EXCEPT ![t] = "armed"]
  /\ mWheel' = [mWheel EXCEPT ![slot[t]] = @ \cup {t}]
  /\ UNCHANGED <<mCurSlot, since, back, slot, round, cbs, age, waited>>

\* Mutants: nothing removed, or looked for where the timer would go now.
delTimer_NoRemove(t) ==
  /\ t \in Deletable
  /\ phase[t] \in {"armed", "fired"}
  /\ phase' = [phase EXCEPT ![t] = "deleted"]
  /\ UNCHANGED <<mWheel, mCurSlot, since, back, slot, round, cbs, age, waited>>
delTimer_NewSlot(t) ==
  /\ t \in Deletable
  /\ phase[t] \in {"armed", "fired"}
  /\ phase' = [phase EXCEPT ![t] = "deleted"]
  /\ mWheel' = [mWheel EXCEPT ![SlotFor(t)] = @ \ {t}]
  /\ UNCHANGED <<mCurSlot, since, back, slot, round, cbs, age, waited>>

\* delTimer looks for the timer in the list Timer::slot names.
delTimer(t) ==
  /\ t \in Deletable
  /\ phase[t] \in {"armed", "fired"}
  /\ phase' = [phase EXCEPT ![t] = "deleted"]
  /\ mWheel' = [mWheel EXCEPT ![slot[t]] = @ \ {t}]
  /\ UNCHANGED <<mCurSlot, since, back, slot, round, cbs, age, waited>>

\* Mutants: only one timer of the list, or the test of round inverted.
Due_First   == {t \in mWheel[mCurSlot] : t = CHOOSE u \in mWheel[mCurSlot] : TRUE}
Due_InRound == {t \in mWheel[mCurSlot] : round[t] # 0}

\* The timers a tick fires: the loop over the list stays at a timer until
\* its round is 0 ("continue" without ++it), so it fires the whole list.
Due == mWheel[mCurSlot]

\* tick() once mTickTime has passed; before that it does nothing.  A
\* recurring timer enters a list again, but Timer::slot keeps its old value.
tick ==
  /\ since >= mTickTime
  /\ cbs' = Due
  /\ mWheel' = [s \in Slots |->
       (mWheel[s] \ (IF s = mCurSlot THEN Due ELSE {}))
         \cup {t \in Due \cap Recurring : SlotFor(t) = s}]
  /\ round' = [t \in Timers |->
       IF t \notin Due THEN round[t]
       ELSE IF t \in Recurring THEN ticks(t) \div mSlotNum ELSE 0]
  /\ mCurSlot' = (mCurSlot + 1) % mSlotNum
  /\ since' = 0
  /\ phase' = [t \in Timers |->
       IF t \in Due \ Recurring THEN "fired" ELSE phase[t]]
  /\ age' = [t \in Timers |-> IF t \in Due THEN 0 ELSE age[t]]
  /\ waited' = [t \in Timers |->
       IF t \in Due THEN 0
       ELSE IF phase[t] = "armed" /\ waited[t] < mSlotNum THEN waited[t] + 1
       ELSE waited[t]]
  /\ UNCHANGED <<slot, back>>

\* A unit of time passes.
Pass ==
  /\ since' = IF since < mTickTime THEN since + 1 ELSE since
  /\ age' = [t \in Timers |->
       IF phase[t] \in {"adding", "armed"} /\ age[t] < Interval[t]
       THEN age[t] + 1 ELSE age[t]]
  /\ UNCHANGED <<mWheel, mCurSlot, back, slot, round, cbs, phase, waited>>

\* The clock is set back, less than the 2^31 ms that the cast to int takes
\* for the future.  The difference of unsigned numbers becomes negative.
SetBack ==
  \E d \in 1 .. MaxBack - back :
    /\ since' = since - d /\ back' = back + d
    /\ UNCHANGED <<mWheel, mCurSlot, slot, round, cbs, phase, age, waited>>

Next ==
  \/ \E t \in Timers : Compute(t) \/ Insert(t) \/ delTimer(t)
  \/ tick \/ Pass \/ SetBack

Spec == Init /\ [][Next]_vars

\* The clock runs (nobody sets it back for ever: MaxBack), a caller of addTimer goes on, and the idle fiber of some
\* thread returns from epoll_wait within a tick and calls tick().
FairSpec ==
  /\ Spec
  /\ \A t \in Timers : WF_vars(Insert(t))
  /\ WF_vars(tick) /\ WF_vars(Pass)

-----------------------------------------------------------------------------
TypeOK ==
  /\ mWheel \in [Slots -> SUBSET Timers]
  /\ mCurSlot \in Slots
  /\ back \in 0 .. MaxBack /\ since \in -back .. mTickTime
  /\ slot \in [Timers -> Slots]
  /\ round \in [Timers -> Nat]
  /\ cbs \subseteq Timers
  /\ phase \in [Timers -> Phase]
  /\ age \in [Timers -> Nat]
  /\ waited \in [Timers -> 0 .. mSlotNum]

\* The lists hold the armed timers, each once: neither addTimer, tick nor
\* delTimer leaves a timer in two lists or an armed one in none.
InOneList ==
  \A t \in Timers :
    /\ phase[t] = "armed" <=> \E s \in Slots : t \in mWheel[s]
    /\ \A r, s \in Slots : t \in mWheel[r] \cap mWheel[s] => r = s

\* tick() hands out a callback only while its timer is armed: a one-shot
\* timer fires once, and not after delTimer returned.
OnlyArmedFires == [][tick => \A t \in cbs' : phase[t] = "armed"]_vars

\* A timer fires, and fires again, no earlier than its interval rounded down
\* to whole ticks, at whatever point between two ticks it was set, and
\* wherever the clock has been set back to since.
NeverEarly == [][tick => \A t \in cbs' : age[t] >= ticks(t) * mTickTime]_vars

\* A timer fires when the cursor first visits its list, at the latest one
\* revolution after it entered it.
WithinARevolution ==
  \A t \in Timers : phase[t] = "armed" => waited[t] < mSlotNum

\* The wheel comes round to every timer, once the clock has caught up.
EveryTimerFires ==
  \A t \in Timers : phase[t] = "armed" ~> t \in cbs \/ phase[t] = "deleted"
=============================================================================
