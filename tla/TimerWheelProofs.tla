-------------------------- MODULE TimerWheelProofs --------------------------
(***************************************************************************)
(* Theorems about TimerWheel for every size of the wheel, tick time and    *)
(* set of timers: lists and phases agree, and a timer whose interval fits  *)
(* into one revolution is never early.                                     *)
(***************************************************************************)
EXTENDS TimerWheel, TLAPS

(* What the theorems need of the callers: no second round, and nobody      *)
(* deletes a recurring timer.  io_func, the one caller of delTimer, keeps  *)
(* to the second.                                                          *)
ShortIntervals  == \A t \in Timers : ticks(t) < mSlotNum
OneShotsDeleted == Recurring \cap Deletable = {}

LEMMA ModSmall ==
  ASSUME NEW n \in Nat \ {0}, NEW a \in Nat, a < n
  PROVE  a % n = a
OBVIOUS

LEMMA ModOnce ==
  ASSUME NEW n \in Nat \ {0}, NEW a \in Nat, n <= a, a < 2 * n
  PROVE  a % n = a - n
OBVIOUS

LEMMA ModRange ==
  ASSUME NEW n \in Nat \ {0}, NEW a \in Nat
  PROVE  a % n \in 0 .. n - 1
OBVIOUS

LEMMA DivType ==
  ASSUME NEW n \in Nat \ {0}, NEW a \in Nat
  PROVE  a \div n \in Nat /\ (a \div n) * n <= a
OBVIOUS

LEMMA MulMonotonic ==
  ASSUME NEW a \in Int, NEW b \in Int, a <= b, NEW n \in Nat
  PROVE  a * n <= b * n
OBVIOUS

-----------------------------------------------------------------------------
(* Types.                                                                  *)

LEMMA TicksType == \A t \in Timers : ticks(t) \in Nat /\ ticks(t) * mTickTime <= Interval[t]
BY WheelAssumption, DivType DEF ticks

LEMMA SlotForType == TypeOK => \A t \in Timers : SlotFor(t) \in Slots
<1> SUFFICES ASSUME TypeOK, NEW t \in Timers PROVE SlotFor(t) \in Slots
  OBVIOUS
<1>1. ticks(t) % mSlotNum \in 0 .. mSlotNum - 1
  BY WheelAssumption, TicksType, ModRange
<1>2. mCurSlot + (ticks(t) % mSlotNum) \in Nat
  BY <1>1, WheelAssumption DEF TypeOK, Slots
<1> QED  BY <1>2, WheelAssumption, ModRange DEF SlotFor, Slots

LEMMA InitType == Init => TypeOK
BY WheelAssumption DEF Init, TypeOK, Slots, Phase

LEMMA NextType == TypeOK /\ [Next]_vars => TypeOK'
<1> SUFFICES ASSUME TypeOK, [Next]_vars PROVE TypeOK'
  OBVIOUS
<1> USE WheelAssumption DEF TypeOK, Phase
<1>1. ASSUME NEW t \in Timers, Compute(t) PROVE TypeOK'
  <2>1. ticks(t) \div mSlotNum \in Nat
    BY TicksType, DivType
  <2> QED  BY <1>1, <2>1, SlotForType DEF Compute
<1>2. ASSUME NEW t \in Timers, Insert(t) PROVE TypeOK'
  BY <1>2 DEF Insert
<1>3. ASSUME NEW t \in Timers, delTimer(t) PROVE TypeOK'
  BY <1>3 DEF delTimer
<1>4. CASE tick
  <2>1. mCurSlot + 1 \in Nat
    BY DEF Slots
  <2>2. mCurSlot' \in Slots
    BY <1>4, <2>1, ModRange DEF tick, Slots
  <2>3. \A t \in Timers : ticks(t) \div mSlotNum \in Nat
    BY TicksType, DivType
  <2>4. round' \in [Timers -> Nat]
    BY <1>4, <2>3 DEF tick
  <2>5. cbs' \subseteq Timers /\ mWheel' \in [Slots -> SUBSET Timers]
    BY <1>4 DEF tick, Due
  <2>6. /\ phase' \in [Timers -> Phase] /\ age' \in [Timers -> Nat]
        /\ waited' \in [Timers -> 0 .. mSlotNum]
    BY <1>4 DEF tick
  <2> QED  BY <1>4, <2>2, <2>4, <2>5, <2>6 DEF tick
<1>5. CASE Pass
  BY <1>5 DEF Pass
<1>6. CASE UNCHANGED vars
  BY <1>6 DEF vars
<1>7. CASE SetBack
  BY <1>7 DEF SetBack
<1> QED  BY <1>1, <1>2, <1>3, <1>4, <1>5, <1>6, <1>7 DEF Next

(* Every variable keeps its type; in particular the cursor and the slots   *)
(* of the timers stay inside the wheel.                                    *)
THEOREM TypeCorrect == Spec => []TypeOK
BY InitType, NextType, PTL DEF Spec

-----------------------------------------------------------------------------
(* Lists and phases.                                                       *)

(* A one-shot timer is in the list Timer::slot names. *)
SlotIsList ==
  \A t \in Timers \ Recurring : \A s \in Slots : t \in mWheel[s] => slot[t] = s

ListsInv == InOneList /\ SlotIsList

LEMMA InitLists == Init => ListsInv
BY DEF Init, ListsInv, InOneList, SlotIsList

LEMMA NextLists ==
  ASSUME OneShotsDeleted
  PROVE  TypeOK /\ ListsInv /\ [Next]_vars => ListsInv'
<1> SUFFICES ASSUME TypeOK, ListsInv, [Next]_vars PROVE ListsInv'
  OBVIOUS
<1> USE WheelAssumption DEF TypeOK, ListsInv
<1>1. ASSUME NEW t \in Timers, Compute(t) PROVE ListsInv'
  BY <1>1 DEF Compute, InOneList, SlotIsList
<1>2. ASSUME NEW t \in Timers, Insert(t) PROVE ListsInv'
  <2>1. \A u \in Timers, s \in Slots :
          u \in mWheel'[s] <=> u \in mWheel[s] \/ (u = t /\ s = slot[t])
    BY <1>2 DEF Insert
  <2>2. phase[t] = "adding" /\ \A u \in Timers : phase'[u] = IF u = t THEN "armed" ELSE phase[u]
    BY <1>2 DEF Insert
  <2>3. InOneList'
    BY <1>2, <2>1, <2>2 DEF InOneList
  <2>4. SlotIsList'
    BY <1>2, <2>1 DEF Insert, SlotIsList
  <2> QED  BY <2>3, <2>4
<1>3. ASSUME NEW t \in Timers, delTimer(t) PROVE ListsInv'
  <2>1. t \notin Recurring
    BY <1>3 DEF delTimer, OneShotsDeleted
  <2>2. \A u \in Timers, s \in Slots :
          u \in mWheel'[s] <=> u \in mWheel[s] /\ ~(u = t /\ s = slot[t])
    BY <1>3 DEF delTimer
  <2>3. \A u \in Timers, s \in Slots : u \in mWheel'[s] <=> u \in mWheel[s] /\ u # t
    BY <2>1, <2>2 DEF SlotIsList
  <2>4. \A u \in Timers : phase'[u] = IF u = t THEN "deleted" ELSE phase[u]
    BY <1>3 DEF delTimer
  <2>5. InOneList'
    BY <2>3, <2>4 DEF InOneList
  <2>6. SlotIsList'
    BY <1>3, <2>3 DEF delTimer, SlotIsList
  <2> QED  BY <2>5, <2>6
<1>4. CASE tick
  <2>1. \A u \in Timers, s \in Slots :
          u \in mWheel'[s] <=> \/ u \in mWheel[s] /\ u \notin Due
                               \/ u \in Due /\ u \in Recurring /\ s = SlotFor(u)
    BY <1>4 DEF tick, Due, InOneList
  <2>2. \A u \in Timers : phase'[u] = IF u \in Due \ Recurring THEN "fired" ELSE phase[u]
    BY <1>4 DEF tick
  <2>3. \A u \in Timers : u \in Due => phase[u] = "armed"
    BY DEF Due, InOneList
  <2>4. InOneList'
    BY <2>1, <2>2, <2>3, SlotForType DEF InOneList
  <2>5. SlotIsList'
    BY <1>4, <2>1 DEF tick, SlotIsList
  <2> QED  BY <2>4, <2>5
<1>5. CASE Pass
  BY <1>5 DEF Pass, InOneList, SlotIsList
<1>6. CASE UNCHANGED vars
  BY <1>6 DEF vars, InOneList, SlotIsList
<1>7. CASE SetBack
  BY <1>7 DEF SetBack, InOneList, SlotIsList
<1> QED  BY <1>1, <1>2, <1>3, <1>4, <1>5, <1>6, <1>7 DEF Next

(* The lists hold the armed timers, each once.                             *)
THEOREM ListsHoldArmed ==
  ASSUME OneShotsDeleted
  PROVE  Spec => []InOneList
<1>1. ListsInv => InOneList
  BY DEF ListsInv
<1> QED  BY <1>1, InitType, NextType, InitLists, NextLists, OneShotsDeleted, PTL DEF Spec

(* A callback is handed out only while its timer is armed: a one-shot      *)
(* timer fires once, and not after delTimer.                               *)
THEOREM FiresOnlyArmed ==
  ASSUME OneShotsDeleted
  PROVE  Spec => OnlyArmedFires
<1>1. TypeOK /\ ListsInv /\ [Next]_vars => [tick => \A t \in cbs' : phase[t] = "armed"]_vars
  BY DEF tick, Due, ListsInv, InOneList, TypeOK
<1> QED
  BY <1>1, InitType, NextType, InitLists, NextLists, OneShotsDeleted, PTL
  DEF Spec, OnlyArmedFires

-----------------------------------------------------------------------------
(* No timer is early.                                                      *)

(* How far the cursor is from slot s. *)
Ahead(s) == IF s >= mCurSlot THEN s - mCurSlot ELSE s - mCurSlot + mSlotNum

(* Timer t, bound for slot s: either no tick has come since it was set, or *)
(* its age makes up for all whole ticks that the cursor has gone towards s. *)
Ripens(t, s) ==
  \/ Ahead(s) = ticks(t)
  \/ age[t] >= since + (ticks(t) - 1 - Ahead(s)) * mTickTime

AgeInv ==
  \A t \in Timers :
    /\ phase[t] = "new" => age[t] = 0
    /\ phase[t] = "adding" => Ripens(t, slot[t])
    /\ \A s \in Slots : t \in mWheel[s] => Ripens(t, s)

LEMMA AheadOfNew ==
  ASSUME TypeOK, ShortIntervals, NEW t \in Timers
  PROVE  Ahead(SlotFor(t)) = ticks(t)
<1>1. ticks(t) \in Nat /\ ticks(t) < mSlotNum
  BY TicksType DEF ShortIntervals
<1>2. ticks(t) % mSlotNum = ticks(t)
  BY <1>1, WheelAssumption, ModSmall
<1>3. mCurSlot \in Nat /\ mCurSlot < mSlotNum
  BY WheelAssumption DEF TypeOK, Slots
<1>4. CASE mCurSlot + ticks(t) < mSlotNum
  <2>1. SlotFor(t) = mCurSlot + ticks(t)
    BY <1>1, <1>2, <1>3, <1>4, WheelAssumption, ModSmall DEF SlotFor
  <2> QED  BY <1>1, <1>3, <2>1 DEF Ahead
<1>5. CASE mCurSlot + ticks(t) >= mSlotNum
  <2>1. SlotFor(t) = mCurSlot + ticks(t) - mSlotNum
    BY <1>1, <1>2, <1>3, <1>5, WheelAssumption, ModOnce DEF SlotFor
  <2> QED  BY <1>1, <1>3, <2>1, WheelAssumption DEF Ahead
<1> QED  BY <1>1, <1>3, <1>4, <1>5, WheelAssumption

(* A tick brings the cursor one slot closer, or past the slot. *)
LEMMA AheadAfterTick ==
  ASSUME TypeOK, mCurSlot' = (mCurSlot + 1) % mSlotNum, NEW s \in Slots
  PROVE  /\ Ahead(s) \in 0 .. mSlotNum - 1
         /\ Ahead(s)' = IF s = mCurSlot THEN mSlotNum - 1 ELSE Ahead(s) - 1
         /\ s = mCurSlot <=> Ahead(s) = 0
<1>1. mCurSlot \in 0 .. mSlotNum - 1 /\ s \in 0 .. mSlotNum - 1 /\ mSlotNum \in Nat \ {0}
  BY WheelAssumption DEF TypeOK, Slots
<1>2. mCurSlot' = IF mCurSlot = mSlotNum - 1 THEN 0 ELSE mCurSlot + 1
  <2>1. CASE mCurSlot = mSlotNum - 1
    BY <1>1, <2>1, ModOnce
  <2>2. CASE mCurSlot # mSlotNum - 1
    BY <1>1, <2>2, ModSmall
  <2> QED  BY <2>1, <2>2
<1> QED  BY <1>1, <1>2 DEF Ahead

LEMMA InitAge == Init => AgeInv
BY DEF Init, AgeInv

LEMMA NextAge ==
  ASSUME ShortIntervals
  PROVE  TypeOK /\ ListsInv /\ AgeInv /\ [Next]_vars => AgeInv'
<1> SUFFICES ASSUME TypeOK, ListsInv, AgeInv, [Next]_vars PROVE AgeInv'
  OBVIOUS
<1> USE WheelAssumption DEF TypeOK
<1>0. \A t \in Timers : ticks(t) \in Nat /\ ticks(t) < mSlotNum
  BY TicksType DEF ShortIntervals
<1>1. ASSUME NEW t \in Timers, Compute(t) PROVE AgeInv'
  <2>1. Ahead(SlotFor(t)) = ticks(t)
    BY AheadOfNew
  <2> QED  BY <1>1, <2>1 DEF Compute, AgeInv, Ripens, Ahead, ticks
<1>2. ASSUME NEW t \in Timers, Insert(t) PROVE AgeInv'
  BY <1>2 DEF Insert, AgeInv, Ripens, Ahead, ticks
<1>3. ASSUME NEW t \in Timers, delTimer(t) PROVE AgeInv'
  BY <1>3 DEF delTimer, AgeInv, Ripens, Ahead, ticks
<1>4. CASE tick
  <2> SUFFICES ASSUME NEW t \in Timers
               PROVE  /\ phase'[t] = "new" => age'[t] = 0
                      /\ phase'[t] = "adding" => Ripens(t, slot[t])'
                      /\ \A s \in Slots : t \in mWheel'[s] => Ripens(t, s)'
    BY DEF AgeInv
  <2>0. /\ mCurSlot' = (mCurSlot + 1) % mSlotNum /\ since' = 0 /\ since = mTickTime
        /\ slot' = slot
    BY <1>4 DEF tick
  <2>1. ASSUME NEW s \in Slots, Ripens(t, s), age'[t] = age[t]
        PROVE  Ripens(t, s)'
    <3>1. CASE s = mCurSlot
      <4>1. Ahead(s)' = mSlotNum - 1
        BY <2>0, <3>1, AheadAfterTick
      <4>2. (ticks(t) - 1 - (mSlotNum - 1)) * mTickTime <= 0 * mTickTime
        BY <1>0, MulMonotonic
      <4> QED  BY <2>0, <2>1, <4>1, <4>2 DEF Ripens, ticks
    <3>2. CASE s # mCurSlot
      <4>1. Ahead(s)' = Ahead(s) - 1 /\ Ahead(s) \in Nat
        BY <2>0, <3>2, AheadAfterTick
      <4>2. CASE Ahead(s) = ticks(t)
        <5>1. (ticks(t) - 1 - (ticks(t) - 1)) * mTickTime = 0
          BY <1>0
        <5> QED  BY <1>0, <2>0, <2>1, <4>1, <4>2, <5>1 DEF Ripens, ticks
      <4>3. CASE age[t] >= since + (ticks(t) - 1 - Ahead(s)) * mTickTime
        <5>1. (ticks(t) - 1 - (Ahead(s) - 1)) * mTickTime
                = (ticks(t) - 1 - Ahead(s)) * mTickTime + mTickTime
          BY <1>0, <4>1
        <5> QED  BY <1>0, <2>0, <2>1, <4>1, <4>3, <5>1 DEF Ripens, ticks
      <4> QED  BY <2>1, <4>2, <4>3 DEF Ripens
    <3> QED  BY <3>1, <3>2
  <2>2. /\ t \in Due => phase[t] \notin {"new", "adding"}
        /\ t \notin Due => age'[t] = age[t] /\ phase'[t] = phase[t]
        /\ t \in Due => age'[t] = 0 /\ phase'[t] \in {phase[t], "fired"}
        /\ \A s \in Slots : t \in mWheel'[s] =>
             \/ t \in mWheel[s] /\ t \notin Due
             \/ t \in Due /\ s = SlotFor(t)
    BY <1>4 DEF tick, Due, ListsInv, InOneList
  <2>3. phase'[t] = "new" => age'[t] = 0
    BY <2>2 DEF AgeInv
  <2>4. ASSUME phase'[t] = "adding" PROVE Ripens(t, slot[t])'
    <3>1. phase[t] = "adding" /\ Ripens(t, slot[t]) /\ age'[t] = age[t]
      BY <2>2, <2>4 DEF AgeInv
    <3>2. PICK s \in Slots : s = slot[t]
      OBVIOUS
    <3>3. Ripens(t, s)'
      BY <2>1, <3>1, <3>2
    <3> QED  BY <2>0, <3>2, <3>3 DEF Ripens
  <2>5. ASSUME NEW s \in Slots, t \in mWheel'[s] PROVE Ripens(t, s)'
    <3>1. CASE t \in mWheel[s] /\ t \notin Due
      BY <2>1, <2>2, <3>1 DEF AgeInv
    <3>2. CASE t \in Due /\ s = SlotFor(t)
      <4>1. Ahead(s) = ticks(t) /\ age'[t] = 0
        BY <2>2, <3>2, AheadOfNew
      <4>2. CASE s = mCurSlot
        <5>1. Ahead(s)' = mSlotNum - 1 /\ ticks(t) = 0
          BY <2>0, <4>1, <4>2, AheadAfterTick
        <5>2. (0 - 1 - (mSlotNum - 1)) * mTickTime <= 0 * mTickTime
          BY MulMonotonic
        <5> QED  BY <2>0, <4>1, <5>1, <5>2 DEF Ripens, ticks
      <4>3. CASE s # mCurSlot
        <5>1. Ahead(s)' = ticks(t) - 1
          BY <2>0, <4>1, <4>3, AheadAfterTick
        <5>2. (ticks(t) - 1 - (ticks(t) - 1)) * mTickTime = 0
          BY <1>0
        <5> QED  BY <2>0, <4>1, <5>1, <5>2 DEF Ripens, ticks
      <4> QED  BY <4>2, <4>3
    <3> QED  BY <2>2, <2>5, <3>1, <3>2
  <2> QED  BY <2>3, <2>4, <2>5
<1>5. CASE Pass
  <2>1. ASSUME NEW t \in Timers, NEW s \in Slots, Ripens(t, s),
               phase[t] \in {"adding", "armed"}
        PROVE  Ripens(t, s)'
    <3>1. Ahead(s)' = Ahead(s) /\ Ahead(s) \in Nat
      BY <1>5 DEF Pass, Ahead, Slots
    <3>2. CASE age[t] < Interval[t]
      BY <1>0, <1>5, <2>1, <3>1, <3>2 DEF Pass, Ripens, ticks
    <3>3. CASE age[t] >= Interval[t]
      <4>1. /\ (ticks(t) - 1 - Ahead(s)) * mTickTime <= (ticks(t) - 1) * mTickTime
            /\ (ticks(t) - 1) * mTickTime + mTickTime = ticks(t) * mTickTime
        BY <1>0, <3>1, MulMonotonic
      <4>2. ticks(t) * mTickTime <= Interval[t] /\ since' <= mTickTime /\ age'[t] = age[t]
        BY <1>5, <3>3, TicksType DEF Pass
      <4>3. /\ (ticks(t) - 1 - Ahead(s)) * mTickTime \in Int
            /\ (ticks(t) - 1) * mTickTime \in Int
            /\ ticks(t) * mTickTime \in Int /\ since' \in Int
        BY <1>0, <1>5, <3>1 DEF Pass
      <4>4. age'[t] >= since' + (ticks(t) - 1 - Ahead(s)) * mTickTime
        BY <3>3, <4>1, <4>2, <4>3
      <4> QED  BY <3>1, <4>4 DEF Ripens, ticks
    <3> QED  BY <3>2, <3>3
  <2>2. ASSUME NEW t \in Timers
        PROVE  /\ phase'[t] = "new" => age'[t] = 0
               /\ phase'[t] = "adding" => Ripens(t, slot[t])'
               /\ \A s \in Slots : t \in mWheel'[s] => Ripens(t, s)'
    <3>1. phase' = phase /\ slot' = slot /\ mWheel' = mWheel
      BY <1>5 DEF Pass
    <3>2. phase'[t] = "new" => age'[t] = 0
      BY <1>5 DEF Pass, AgeInv
    <3>3. PICK s \in Slots : s = slot[t]
      OBVIOUS
    <3>4. phase[t] = "adding" => Ripens(t, s)'
      BY <2>1, <3>3 DEF AgeInv
    <3>5. phase[t] = "adding" => Ripens(t, slot[t])'
      BY <3>1, <3>3, <3>4 DEF Ripens
    <3>6. \A r \in Slots : t \in mWheel[r] => Ripens(t, r)'
      BY <2>1 DEF AgeInv, ListsInv, InOneList
    <3> QED  BY <3>1, <3>2, <3>5, <3>6
  <2> QED  BY <2>2 DEF AgeInv
<1>6. CASE UNCHANGED vars
  BY <1>6 DEF vars, AgeInv, Ripens, Ahead, ticks
<1>7. CASE SetBack
  <2>1. /\ UNCHANGED <<mWheel, mCurSlot, slot, phase, age>> /\ since' \in Int
        /\ since' <= since
    BY <1>7 DEF SetBack
  <2>2. \A t \in Timers : \A s \in Slots :
          /\ age[t] \in Int /\ (ticks(t) - 1 - Ahead(s)) * mTickTime \in Int
          /\ Ahead(s)' = Ahead(s)
    BY <1>0, <2>1 DEF Ahead, Slots
  <2>3. \A t \in Timers : \A s \in Slots : Ripens(t, s) => Ripens(t, s)'
    BY <2>1, <2>2 DEF Ripens, ticks
  <2> QED  BY <2>1, <2>3 DEF AgeInv
<1> QED  BY <1>1, <1>2, <1>3, <1>4, <1>5, <1>6, <1>7 DEF Next

(* A timer whose interval fits into one revolution fires no earlier than   *)
(* its interval rounded down to whole ticks.                               *)
THEOREM NoTimerIsEarly ==
  ASSUME ShortIntervals, OneShotsDeleted
  PROVE  Spec => NeverEarly
<1>1. ASSUME TypeOK, AgeInv, tick, NEW t \in cbs'
      PROVE  age[t] >= ticks(t) * mTickTime
  <2>1. t \in Timers /\ mCurSlot \in Slots /\ t \in mWheel[mCurSlot] /\ since = mTickTime
    <3>1. mCurSlot \in Slots /\ mWheel[mCurSlot] \subseteq Timers
      BY <1>1 DEF TypeOK
    <3>2. t \in mWheel[mCurSlot]
      BY <1>1 DEF tick, Due
    <3>3. since = mTickTime
      BY <1>1, WheelAssumption DEF tick, TypeOK
    <3> QED  BY <3>1, <3>2, <3>3
  <2>2. Ahead(mCurSlot) = 0 /\ Ripens(t, mCurSlot)
    BY <1>1, <2>1, WheelAssumption DEF Ahead, AgeInv, Slots
  <2>3. ticks(t) \in Nat /\ mTickTime \in Nat /\ age[t] \in Nat
    BY <1>1, <2>1, TicksType, WheelAssumption DEF TypeOK
  <2>4. CASE ticks(t) = 0
    BY <2>3, <2>4
  <2>5. CASE age[t] >= since + (ticks(t) - 1 - 0) * mTickTime
    <3>1. (ticks(t) - 1 - 0) * mTickTime + mTickTime = ticks(t) * mTickTime
      BY <2>3
    <3> QED  BY <2>1, <2>3, <2>5, <3>1
  <2> QED  BY <2>2, <2>4, <2>5 DEF Ripens
<1>2. TypeOK /\ AgeInv /\ [Next]_vars
        => [tick => \A t \in cbs' : age[t] >= ticks(t) * mTickTime]_vars
  BY <1>1
<1> QED
  BY <1>2, InitType, NextType, InitLists, NextLists, InitAge, NextAge,
     OneShotsDeleted, ShortIntervals, PTL
  DEF Spec, NeverEarly

-----------------------------------------------------------------------------
(* No timer is passed over.                                                *)

(* The ticks that a timer has waited and those until the cursor is at its  *)
(* list are together less than a revolution, and armed timers have a list. *)
(* This needs nothing of the callers.                                      *)
VisitInv ==
  \A t \in Timers :
    /\ phase[t] \in {"new", "adding"} => waited[t] = 0
    /\ phase[t] = "armed" => \E s \in Slots : t \in mWheel[s]
    /\ \A s \in Slots : t \in mWheel[s] => waited[t] + Ahead(s) < mSlotNum

LEMMA InitVisit == Init => VisitInv
BY DEF Init, VisitInv

LEMMA AheadRange == TypeOK => \A s \in Slots : Ahead(s) \in 0 .. mSlotNum - 1
BY WheelAssumption DEF TypeOK, Ahead, Slots

LEMMA NextVisit == TypeOK /\ VisitInv /\ [Next]_vars => VisitInv'
<1> SUFFICES ASSUME TypeOK, VisitInv, [Next]_vars,
                    NEW t \in Timers
             PROVE  /\ phase'[t] \in {"new", "adding"} => waited'[t] = 0
                    /\ phase'[t] = "armed" => \E s \in Slots : t \in mWheel'[s]
                    /\ \A s \in Slots : t \in mWheel'[s] => waited'[t] + Ahead(s)' < mSlotNum
  BY DEF VisitInv
<1> USE WheelAssumption DEF TypeOK
<1>0. /\ phase[t] \in {"new", "adding"} => waited[t] = 0
      /\ phase[t] = "armed" => \E s \in Slots : t \in mWheel[s]
      /\ \A s \in Slots : t \in mWheel[s] => waited[t] + Ahead(s) < mSlotNum
  BY DEF VisitInv
<1>1. ASSUME NEW u \in Timers, Compute(u) \/ delTimer(u)
      PROVE  /\ phase'[t] \in {"new", "adding"} => waited'[t] = 0
             /\ phase'[t] = "armed" => \E s \in Slots : t \in mWheel'[s]
             /\ \A s \in Slots : t \in mWheel'[s] => waited'[t] + Ahead(s)' < mSlotNum
  <2>1. /\ UNCHANGED <<mCurSlot, waited>>
        /\ phase'[t] = phase[t] \/ (phase[t] = "new" /\ phase'[t] = "adding") \/ phase'[t] = "deleted"
        /\ \A s \in Slots : mWheel'[s] \subseteq mWheel[s]
        /\ phase'[t] = "armed" => phase[t] = "armed"
    BY <1>1 DEF Compute, delTimer
  <2>2. phase'[t] = "armed" => \A s \in Slots : t \in mWheel[s] => t \in mWheel'[s]
    BY <1>1 DEF Compute, delTimer
  <2> QED  BY <1>0, <2>1, <2>2 DEF Ahead
<1>2. ASSUME NEW u \in Timers, Insert(u)
      PROVE  /\ phase'[t] \in {"new", "adding"} => waited'[t] = 0
             /\ phase'[t] = "armed" => \E s \in Slots : t \in mWheel'[s]
             /\ \A s \in Slots : t \in mWheel'[s] => waited'[t] + Ahead(s)' < mSlotNum
  <2>1. /\ UNCHANGED <<mCurSlot, waited, slot>> /\ phase[u] = "adding" /\ slot[u] \in Slots
        /\ phase' = [phase EXCEPT ![u] = "armed"]
        /\ \A s \in Slots : mWheel'[s] = IF s = slot[u] THEN mWheel[s] \cup {u} ELSE mWheel[s]
    BY <1>2 DEF Insert
  <2>2. CASE t = u
    <3>1. waited[t] = 0 /\ t \in mWheel'[slot[u]] /\ phase'[t] = "armed"
      BY <1>0, <2>1, <2>2
    <3> QED  BY <2>1, <3>1, AheadRange DEF Ahead
  <2>3. CASE t # u
    BY <1>0, <2>1, <2>3 DEF Ahead
  <2> QED  BY <2>2, <2>3
<1>3. CASE tick
  <2>1. /\ mCurSlot' = (mCurSlot + 1) % mSlotNum
        /\ t \in Due => waited'[t] = 0
        /\ t \notin Due => waited'[t] \in {waited[t], waited[t] + 1}
        /\ t \notin Due /\ phase[t] # "armed" => waited'[t] = waited[t]
        /\ phase'[t] = IF t \in Due \ Recurring THEN "fired" ELSE phase[t]
        /\ \A s \in Slots : t \in mWheel'[s] <=>
             \/ t \in mWheel[s] /\ ~ (s = mCurSlot /\ t \in Due)
             \/ t \in Due \cap Recurring /\ SlotFor(t) = s
    BY <1>3 DEF tick
  <2>2. \A s \in Slots : /\ Ahead(s) \in 0 .. mSlotNum - 1
                         /\ Ahead(s)' = IF s = mCurSlot THEN mSlotNum - 1 ELSE Ahead(s) - 1
    BY <2>1, AheadAfterTick
  <2>3. phase'[t] \in {"new", "adding"} => waited'[t] = 0
    BY <1>0, <2>1
  <2>4. phase'[t] = "armed" => \E s \in Slots : t \in mWheel'[s]
    <3> SUFFICES ASSUME phase'[t] = "armed" PROVE \E s \in Slots : t \in mWheel'[s]
      OBVIOUS
    <3>1. phase[t] = "armed" /\ (t \in Due => t \in Recurring)
      BY <2>1
    <3>2. CASE t \in Due
      BY <2>1, <3>1, <3>2, SlotForType
    <3>3. CASE t \notin Due
      BY <1>0, <2>1, <3>1, <3>3
    <3> QED  BY <3>2, <3>3
  <2>5. ASSUME NEW s \in Slots, t \in mWheel'[s] PROVE waited'[t] + Ahead(s)' < mSlotNum
    <3>1. CASE t \in Due
      <4>1. waited'[t] = 0 /\ Ahead(s)' \in Int /\ Ahead(s)' < mSlotNum
        BY <2>1, <2>2, <3>1
      <4> QED  BY <4>1
    <3>2. CASE t \notin Due
      <4>1. t \in mWheel[s] /\ s # mCurSlot
        BY <2>1, <2>5, <3>2 DEF Due
      <4>2. waited[t] + Ahead(s) < mSlotNum /\ Ahead(s)' = Ahead(s) - 1 /\ Ahead(s) \in Int
        BY <1>0, <2>2, <4>1
      <4>3. waited[t] \in Int /\ waited'[t] \in {waited[t], waited[t] + 1}
        BY <2>1, <3>2
      <4> QED  BY <4>2, <4>3
    <3> QED  BY <3>1, <3>2
  <2> QED  BY <2>3, <2>4, <2>5
<1>4. CASE Pass \/ SetBack \/ UNCHANGED vars
  <2>1. UNCHANGED <<mWheel, mCurSlot, phase, waited>>
    BY <1>4 DEF Pass, SetBack, vars
  <2> QED  BY <1>0, <2>1 DEF Ahead
<1> QED  BY <1>1, <1>2, <1>3, <1>4 DEF Next

(* An armed timer has waited less than one revolution: the cursor does not *)
(* go past a list without firing what is in it, also when the timer was    *)
(* set between two ticks or entered the list of the slot just visited.     *)
THEOREM FiredAtFirstVisit == Spec => []WithinARevolution
<1>1. TypeOK /\ VisitInv => WithinARevolution
  <2> SUFFICES ASSUME TypeOK, VisitInv, NEW t \in Timers, phase[t] = "armed"
               PROVE  waited[t] < mSlotNum
    BY DEF WithinARevolution
  <2>1. PICK s \in Slots : waited[t] + Ahead(s) < mSlotNum
    BY DEF VisitInv
  <2>2. Ahead(s) \in 0 .. mSlotNum - 1 /\ waited[t] \in 0 .. mSlotNum /\ mSlotNum \in Nat
    BY AheadRange, WheelAssumption DEF TypeOK
  <2> QED  BY <2>1, <2>2
<1> QED  BY <1>1, InitType, NextType, InitVisit, NextVisit, PTL DEF Spec
=============================================================================
