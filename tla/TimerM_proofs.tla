---------------------------- MODULE TimerM_proofs ----------------------------
(***************************************************************************)
(* The timers keep their account of ticks, for every number of timers,     *)
(* every set of intervals, every width of the clock and every task queue.  *)
(***************************************************************************)
EXTENDS TimerM, TaskFifo_proofs, FiniteSetTheorems

(* Ticks that are outstanding when HandleFire comes, and one HandleFire.    *)
HandlePending == running = Handle /\ at = "start"

Pending ==
  /\ Once(Handle)
  /\ Queued(Handle) => interval_outstanding > 0 /\ ~HandlePending
  /\ HandlePending => interval_outstanding > 0

(* Where the tasks are.                                                     *)
Positions ==
  /\ at \in {"charge", "check", "adjust", "return"} => running = Handle
  /\ at = "fired" => running = One
  /\ at = "charge" => next \in Timers

(* The counter has not passed the compare register, and is not beyond the   *)
(* ticks that the interrupt waits.                                          *)
CounterBelow ==
  /\ TCNT0 <= OCR0
  /\ Unhandled => TCNT0 <= late

RingCounted == queue_size = Len(expired)

IInv == TypeOK /\ Pending /\ Positions /\ CounterBelow /\ RingCounted
-----------------------------------------------------------------------------
(* A timer is set, or taken out of the list.                                *)
LEMMA SetTimer ==
  ASSUME TypeOK, NEW i \in Timers, NEW v \in Running, NEW n \in Int,
         mTimerList' = With(mTimerList, i, v), left' = With(left, i, n)
  PROVE  /\ mState' = mState \cup {i} /\ mState' \subseteq Timers
         /\ mTimerList' \in [mState' -> Running] /\ left' \in [mState' -> Int]
         /\ mTimerList'[i] = v /\ left'[i] = n
         /\ \A j \in mState \ {i} :
              mTimerList'[j] = mTimerList[j] /\ left'[j] = left[j]
<1>1. /\ mState \subseteq Timers /\ DOMAIN mTimerList = mState /\ DOMAIN left = mState
      /\ \A j \in mState : mTimerList[j] \in Running /\ left[j] \in Int
  BY DEF TypeOK, mState
<1>2. /\ mTimerList' = [j \in mState \cup {i} |-> IF j = i THEN v ELSE mTimerList[j]]
      /\ left' = [j \in mState \cup {i} |-> IF j = i THEN n ELSE left[j]]
  BY <1>1 DEF With
<1>3. mState' = mState \cup {i}
  BY <1>2 DEF mState
<1>. QED  BY <1>1, <1>2, <1>3

LEMMA ClearTimer ==
  ASSUME TypeOK, NEW i,
         mTimerList' = Without(mTimerList, i), left' = Without(left, i)
  PROVE  /\ mState' = mState \ {i} /\ mState' \subseteq Timers
         /\ mTimerList' \in [mState' -> Running] /\ left' \in [mState' -> Int]
         /\ \A j \in mState' : mTimerList'[j] = mTimerList[j] /\ left'[j] = left[j]
<1>1. /\ mState \subseteq Timers /\ DOMAIN mTimerList = mState /\ DOMAIN left = mState
      /\ \A j \in mState : mTimerList[j] \in Running /\ left[j] \in Int
  BY DEF TypeOK, mState
<1>2. /\ mTimerList' = [j \in mState \ {i} |-> mTimerList[j]]
      /\ left' = [j \in mState \ {i} |-> left[j]]
  BY <1>1 DEF Without
<1>3. mState' = mState \ {i}
  BY <1>2 DEF mState
<1>. QED  BY <1>1, <1>2, <1>3

(* The numbers of the type invariant, for the provers.                      *)
LEMMA Numbers ==
  ASSUME TypeOK
  PROVE  /\ NUM_TIMERS \in Nat \ {0} /\ Turn \in Nat /\ MaxLate \in Nat
         /\ maxTimerInterval \in Nat
         /\ OCR0 \in Int /\ 0 <= OCR0 /\ OCR0 <= Turn - 1
         /\ TCNT0 \in Int /\ 0 <= TCNT0 /\ TCNT0 <= Turn - 1
         /\ mInterval \in Int /\ 0 <= mInterval /\ mInterval <= Turn - 1
         /\ late \in Int /\ 0 <= late /\ late <= MaxLate
         /\ interval_outstanding \in Nat /\ int_out \in Nat
         /\ \A i \in mState : /\ mTimerList[i].ticksLeft \in Int
                              /\ mTimerList[i].ticks \in Nat
                              /\ left[i] \in Int
<1>1. \A i \in mState : mTimerList[i] \in Running /\ left[i] \in Int
  BY DEF TypeOK
<1>2. \A r \in Running : r.ticksLeft \in Int /\ r.ticks \in Nat
  BY TimerAssumption DEF Running
<1>3. /\ NUM_TIMERS \in Nat \ {0} /\ Turn \in Nat /\ MaxLate \in Nat
      /\ maxTimerInterval \in Nat
  BY TimerAssumption
<1>. QED  BY <1>1, <1>2, <1>3 DEF TypeOK

LEMMA InitInv == Init => IInv /\ TicksLeftIsTrue
<1>. SUFFICES ASSUME Init PROVE IInv /\ TicksLeftIsTrue
  OBVIOUS
<1>1. tasks = <<>> /\ ~Queued(Handle) /\ Once(Handle) /\ FifoTypeOK
  BY FifoAssumption DEF Init, FifoInit, Queued, Once, FifoTypeOK
<1>2. /\ mState = {} /\ mTimerList \in [mState -> Running] /\ left \in [mState -> Int]
  BY DEF Init, mState
<1>3. TypeOK
  BY <1>1, <1>2, TimerAssumption DEF Init, TypeOK, Timers
<1>4. running = NoTask /\ NoTask # Handle
  BY FifoAssumption, TimerAssumption DEF Init, FifoInit, Handle
<1>5. Pending /\ Positions
  BY <1>1, <1>4 DEF Init, Pending, HandlePending, Positions
<1>6. CounterBelow
  BY <1>4, TimerAssumption DEF Init, CounterBelow, Unhandled
<1>7. RingCounted
  BY DEF Init, RingCounted
<1>8. TicksLeftIsTrue
  BY <1>2 DEF TicksLeftIsTrue
<1>. QED  BY <1>3, <1>5, <1>6, <1>7, <1>8 DEF IInv
-----------------------------------------------------------------------------
(* Steps that leave the task queue, the position and the ring alone.        *)
LEMMA StartInv ==
  ASSUME IInv, NEW i \in Timers, Started(i)
  PROVE  IInv'
<1>1. PICK repeat \in BOOLEAN, interval \in Delays \cup Periods :
        Timer_start(i, repeat, interval)
  BY DEF Started
<1>. DEFINE entry == [repeat |-> repeat, ticks |-> interval, ticksLeft |-> DueAt(interval)]
<1>2. TypeOK /\ interval \in Nat \ {0}
  BY TimerAssumption DEF IInv
<1>3. DueAt(interval) = interval + TCNT0
  BY DEF DueAt
<1>4. entry \in Running
  BY <1>2, <1>3, Numbers DEF Running
<1>5. mTimerList' = With(mTimerList, i, entry) /\ left' = With(left, i, interval)
  BY <1>1 DEF Timer_start
<1>6. /\ mState' \subseteq Timers /\ mTimerList' \in [mState' -> Running]
      /\ left' \in [mState' -> Int]
  BY <1>2, <1>4, <1>5, SetTimer
<1>7. /\ mInterval' \in 0 .. Turn - 1 /\ OCR0' \in 0 .. Turn - 1
      /\ TCNT0' = TCNT0 /\ (OCR0' = OCR0 \/ OCR0' = interval + TCNT0)
  <2>1. /\ TCNT0' = TCNT0
        /\ \/ /\ DueAt(interval) < mInterval
              /\ mInterval' = DueAt(interval)
              /\ OCR0' = DueAt(interval)
           \/ mInterval' = mInterval /\ OCR0' = OCR0
    BY <1>1 DEF Timer_start
  <2>2. mInterval \in 0 .. Turn - 1 /\ OCR0 \in 0 .. Turn - 1
    BY <1>2 DEF TypeOK
  <2>3. CASE mInterval' = mInterval /\ OCR0' = OCR0
    BY <2>1, <2>2, <2>3
  <2>4. CASE DueAt(interval) < mInterval /\ mInterval' = DueAt(interval) /\ OCR0' = DueAt(interval)
    <3>1. DueAt(interval) \in 0 .. Turn - 1
      BY <1>2, <1>3, <2>4, Numbers
    <3>. QED  BY <1>3, <2>1, <2>4, <3>1
  <2>. QED  BY <2>1, <2>3, <2>4
<1>8. UNCHANGED <<tasks, running, at, fired, ringVars, handleVars,
                  interval_outstanding, TCNT0, late>>
  BY <1>1 DEF Timer_start
<1>9. TypeOK'
  BY <1>2, <1>6, <1>7, <1>8 DEF TypeOK, FifoTypeOK, ringVars, handleVars
<1>10. Pending' /\ Positions' /\ RingCounted'
  BY <1>8, SameQueue
  DEF IInv, Pending, HandlePending, Positions, RingCounted, ringVars, handleVars
<1>11. CounterBelow'
  BY <1>2, <1>7, <1>8, Numbers DEF IInv, CounterBelow, Unhandled
<1>. QED  BY <1>9, <1>10, <1>11 DEF IInv

LEMMA StopInv ==
  ASSUME IInv, StdControl_stop \/ \E i \in Timers : Timer_stop(i)
  PROVE  IInv'
<1>1. TypeOK
  BY DEF IInv
<1>2. UNCHANGED <<tasks, running, at, fired, ringVars, handleVars, clockVars>>
  BY DEF StdControl_stop, Timer_stop
<1>3. /\ mState' \subseteq Timers /\ mTimerList' \in [mState' -> Running]
      /\ left' \in [mState' -> Int] /\ mInterval' \in 0 .. Turn - 1
  <2>1. CASE StdControl_stop
    <3>1. mState' = {} /\ mTimerList' \in [mState' -> Running] /\ left' \in [mState' -> Int]
      BY <2>1 DEF StdControl_stop, mState
    <3>. QED  BY <2>1, <3>1, TimerAssumption DEF StdControl_stop
  <2>2. ASSUME NEW i \in Timers, Timer_stop(i)
        PROVE  /\ mState' \subseteq Timers /\ mTimerList' \in [mState' -> Running]
               /\ left' \in [mState' -> Int] /\ mInterval' \in 0 .. Turn - 1
    BY <1>1, <2>2, ClearTimer DEF Timer_stop, TypeOK
  <2>. QED  BY <2>1, <2>2
<1>4. TypeOK'
  BY <1>1, <1>2, <1>3 DEF TypeOK, FifoTypeOK, ringVars, handleVars, clockVars
<1>5. Pending' /\ Positions' /\ RingCounted' /\ CounterBelow'
  BY <1>2, SameQueue DEF IInv, Pending, HandlePending, Positions, RingCounted,
     CounterBelow, Unhandled, ringVars, handleVars, clockVars
<1>. QED  BY <1>4, <1>5 DEF IInv

LEMMA PassingTime ==
  ASSUME TypeOK, TimePasses, UNCHANGED mTimerList
  PROVE  /\ left' \in [mState' -> Int] /\ mState' = mState
         /\ late' \in 0 .. MaxLate
         /\ Unhandled => late' = late + 1
         /\ \A i \in mState : left'[i] = left[i] - 1
<1>1. mState' = mState
  BY DEF mState
<1>2. left' \in [mState -> Int] /\ \A i \in mState : left'[i] = left[i] - 1
  BY Numbers DEF TimePasses
<1>3. late' \in 0 .. MaxLate /\ (Unhandled => late' = late + 1)
  BY Numbers DEF TimePasses
<1>. QED  BY <1>1, <1>2, <1>3

LEMMA ClockCountsInv ==
  ASSUME IInv, ClockCounts
  PROVE  IInv' /\ TCNT0' = TCNT0 + 1
<1>1. TypeOK /\ TCNT0 <= OCR0 /\ TCNT0 # OCR0
  BY DEF IInv, CounterBelow, ClockCounts
<1>2. TCNT0 + 1 \in 0 .. Turn - 1 /\ Turn \in Nat \ {0}
  BY <1>1, Numbers
<1>3. TCNT0' = TCNT0 + 1
  BY <1>2 DEF ClockCounts
<1>4. UNCHANGED <<tasks, running, at, fired, mTimerList, mInterval,
                  ringVars, handleVars, interval_outstanding, OCR0>>
  BY DEF ClockCounts
<1>5. /\ left' \in [mState' -> Int] /\ mState' = mState
      /\ late' \in 0 .. MaxLate /\ (Unhandled => late' = late + 1)
  BY <1>1, PassingTime DEF ClockCounts
<1>6. TypeOK'
  BY <1>1, <1>2, <1>3, <1>4, <1>5 DEF TypeOK, FifoTypeOK, ringVars, handleVars
<1>7. Pending' /\ Positions' /\ RingCounted'
  BY <1>4, SameQueue
  DEF IInv, Pending, HandlePending, Positions, RingCounted, ringVars, handleVars
<1>8. CounterBelow'
  BY <1>1, <1>3, <1>4, <1>5, Numbers DEF IInv, CounterBelow, Unhandled
<1>. QED  BY <1>3, <1>6, <1>7, <1>8 DEF IInv

LEMMA PostHandleFacts ==
  ASSUME IInv, PostHandle, interval_outstanding' > 0, UNCHANGED at
  PROVE  FifoTypeOK' /\ Pending' /\ running' = running
<1>. TypeOK /\ FifoTypeOK /\ Pending
  BY DEF IInv, TypeOK
<1>1. CASE interval_outstanding = 0 /\ HasRoom
  <2>1. Post(Handle) /\ Handle \in Tasks
    BY <1>1, TimerAssumption DEF PostHandle
  <2>2. ~Queued(Handle) /\ ~HandlePending
    BY <1>1, Numbers DEF Pending
  <2>3. FifoTypeOK' /\ Once(Handle)' /\ running' = running
    BY <2>1, <2>2, PostQueue DEF Pending, Post
  <2>. QED  BY <2>2, <2>3 DEF Pending, HandlePending
<1>2. CASE ~(interval_outstanding = 0 /\ HasRoom)
  <2>1. UNCHANGED <<tasks, running>>
    BY <1>2 DEF PostHandle
  <2>. QED  BY <2>1, SameQueue DEF Pending, HandlePending, FifoTypeOK
<1>. QED  BY <1>1, <1>2

LEMMA ClockFireInv == ASSUME IInv, Clock_fire PROVE IInv'
<1>1. TypeOK /\ interval_outstanding' = interval_outstanding + OCR0 + 1 /\ TCNT0' = 0
  BY Numbers DEF IInv, Clock_fire, Period
<1>2. interval_outstanding' \in Nat /\ interval_outstanding' > 0
  BY <1>1, Numbers
<1>3. UNCHANGED <<at, fired, mTimerList, mInterval, ringVars, handleVars, OCR0>>
  BY DEF Clock_fire
<1>4. FifoTypeOK' /\ Pending' /\ running' = running
  BY <1>2, <1>3, PostHandleFacts DEF Clock_fire
<1>5. left' \in [mState' -> Int] /\ mState' = mState /\ late' \in 0 .. MaxLate
  BY <1>1, <1>3, PassingTime DEF Clock_fire
<1>6. TypeOK'
  BY <1>1, <1>2, <1>3, <1>4, <1>5, Numbers, SMTT(30) DEF TypeOK, ringVars, handleVars
<1>7. Positions' /\ RingCounted'
  BY <1>3, <1>4 DEF IInv, Positions, RingCounted, ringVars, handleVars
<1>8. CounterBelow'
  BY <1>1, <1>3, <1>5, Numbers DEF CounterBelow
<1>. QED  BY <1>4, <1>6, <1>7, <1>8 DEF IInv
-----------------------------------------------------------------------------
LEMMA RunTaskInv == ASSUME IInv, RunTask PROVE IInv'
<1>1. TypeOK /\ FifoTypeOK /\ RunNext /\ at' = "start"
  BY DEF IInv, TypeOK, RunTask
<1>2. /\ FifoTypeOK' /\ running' \in Tasks
      /\ Queued(Handle) <=> Queued(Handle)' \/ Handle = running'
      /\ Once(Handle)' /\ (Handle = running' => ~Queued(Handle)')
  BY <1>1, RunQueue DEF IInv, Pending
<1>3. UNCHANGED <<fired, timerVars, ringVars, handleVars, clockVars>>
  BY DEF RunTask
<1>4. TypeOK'
  BY <1>1, <1>2, <1>3 DEF TypeOK, mState, timerVars, listVars, ringVars, handleVars, clockVars
<1>5. Pending'
  BY <1>2, <1>3 DEF IInv, Pending, HandlePending, clockVars
<1>6. Positions' /\ RingCounted'
  BY <1>1, <1>3 DEF IInv, Positions, RingCounted, ringVars
<1>7. CounterBelow'
  BY <1>2, <1>3 DEF IInv, CounterBelow, Unhandled, Pending, clockVars
<1>. QED  BY <1>4, <1>5, <1>6, <1>7 DEF IInv

LEMMA TaskEndsInv == ASSUME IInv, TaskEnds PROVE IInv'
<1>1. /\ TypeOK /\ running' = NoTask /\ NoTask # Handle /\ at' = "none"
      /\ fired' = NUM_TIMERS /\ int_out' = 0 /\ next' = 0
      /\ late' = IF interval_outstanding = 0 THEN 0 ELSE late
      /\ UNCHANGED <<tasks, timerVars, ringVars, interval_outstanding, OCR0, TCNT0>>
  BY FifoAssumption, TimerAssumption DEF IInv, TaskEnds, TaskReturns, Handle
<1>2. late' \in 0 .. MaxLate /\ (interval_outstanding > 0 => late' = late)
  BY <1>1, Numbers
<1>3. FifoTypeOK' /\ NUM_TIMERS \in 0 .. NUM_TIMERS /\ 0 \in 0 .. NUM_TIMERS
  BY <1>1, Numbers DEF TypeOK, FifoTypeOK
<1>4. TypeOK'
  BY <1>1, <1>2, <1>3 DEF TypeOK, mState, timerVars, listVars, ringVars
<1>5. Pending'
  BY <1>1, SameQueue DEF IInv, Pending, HandlePending
<1>6. Positions' /\ RingCounted'
  BY <1>1 DEF IInv, Positions, RingCounted, ringVars
<1>7. CounterBelow'
  BY <1>1, <1>2 DEF IInv, CounterBelow, Unhandled
<1>. QED  BY <1>4, <1>5, <1>6, <1>7 DEF IInv

(* Posts of other tasks than HandleFire.                                    *)
LEMMA PostFacts ==
  ASSUME TypeOK, Pending, NEW t \in Tasks \ {Handle}, Post(t)
  PROVE  /\ FifoTypeOK' /\ running' = running
         /\ Queued(Handle)' <=> Queued(Handle)
         /\ Once(Handle)'
BY PostQueue DEF TypeOK, Pending, Post

LEMMA PostOtherInv == ASSUME IInv, NEW t \in Tasks, PostOther(t) PROVE IInv'
<1>1. TypeOK /\ Pending /\ t \in Tasks \ {Handle} /\ Post(t)
  BY DEF IInv, PostOther
<1>2. UNCHANGED <<at, fired, timerVars, ringVars, handleVars, clockVars>>
  BY DEF PostOther
<1>3. /\ FifoTypeOK' /\ running' = running
      /\ Queued(Handle)' <=> Queued(Handle)
      /\ Once(Handle)'
  BY <1>1, PostFacts
<1>4. TypeOK'
  BY <1>1, <1>2, <1>3 DEF TypeOK, mState, timerVars, listVars, ringVars, handleVars, clockVars
<1>5. Pending' /\ Positions' /\ RingCounted' /\ CounterBelow'
  BY <1>2, <1>3 DEF IInv, Pending, HandlePending, Positions, RingCounted,
     CounterBelow, Unhandled, ringVars, handleVars, clockVars
<1>. QED  BY <1>4, <1>5 DEF IInv

LEMMA HandleReadsInv == ASSUME IInv, HandleReads PROVE IInv'
<1>1. /\ TypeOK /\ HandlePending /\ ~Queued(Handle)
      /\ int_out' = interval_outstanding /\ interval_outstanding' = 0 /\ next' = 0
      /\ at' \in {"charge", "check"}
      /\ UNCHANGED <<tasks, running, fired, timerVars, ringVars, OCR0, TCNT0, late>>
  BY DEF IInv, Pending, HandleReads, HandlePending
<1>2. 0 \in Timers /\ 0 \in 0 .. NUM_TIMERS
  BY <1>1, Numbers DEF Timers
<1>3. TypeOK'
  BY <1>1, <1>2 DEF TypeOK, FifoTypeOK, mState, timerVars, listVars, ringVars
<1>4. Pending'
  BY <1>1, SameQueue DEF IInv, Pending, HandlePending
<1>5. Positions' /\ RingCounted' /\ CounterBelow'
  BY <1>1, <1>2 DEF IInv, Positions, RingCounted, CounterBelow, Unhandled, HandlePending,
     ringVars
<1>. QED  BY <1>3, <1>4, <1>5 DEF IInv

(* The steps of the loop of HandleFire have this in common.                 *)
LEMMA HandleNextFacts ==
  ASSUME IInv, HandleNext, tasks' = tasks \/ Post(One), UNCHANGED running
  PROVE  /\ next \in Timers /\ next' = next + 1 /\ next' \in 0 .. NUM_TIMERS
         /\ at' \in {"charge", "check"} /\ (at' = "charge" => next' \in Timers)
         /\ at' = "check" => next' = NUM_TIMERS
         /\ running = Handle /\ at = "charge"
         /\ FifoTypeOK' /\ Pending' /\ Positions' /\ CounterBelow'
<1>1. /\ TypeOK /\ Pending /\ next \in Timers /\ next' = next + 1 /\ running = Handle
      /\ at = "charge" /\ at' = IF next + 1 = NUM_TIMERS THEN "check" ELSE at
      /\ UNCHANGED <<fired, mInterval, int_out, clockVars>>
  BY DEF IInv, HandleNext, Positions
<1>2. /\ next' \in 0 .. NUM_TIMERS /\ at' \in {"charge", "check"}
      /\ at' = "charge" => next' \in Timers
      /\ at' = "check" => next' = NUM_TIMERS
  BY <1>1, Numbers DEF Timers
<1>3. FifoTypeOK' /\ (Queued(Handle)' <=> Queued(Handle)) /\ Once(Handle)'
  <2>1. CASE tasks' = tasks
    BY <1>1, <2>1, SameQueue DEF TypeOK, FifoTypeOK, Pending
  <2>2. CASE Post(One)
    <3>1. One \in Tasks \ {Handle}
      BY TimerAssumption DEF One, Handle
    <3>. QED  BY <1>1, <2>2, <3>1, PostFacts
  <2>. QED  BY <2>1, <2>2
<1>4. Pending' /\ Positions' /\ CounterBelow'
  BY <1>1, <1>2, <1>3 DEF IInv, Pending, HandlePending, Positions, CounterBelow, Unhandled,
     clockVars
<1>. QED  BY <1>1, <1>2, <1>3, <1>4

LEMMA HandleSkipsInv == ASSUME IInv, HandleSkips PROVE IInv'
<1>1. /\ TypeOK /\ HandleNext /\ UNCHANGED <<tasks, running, listVars, ringVars>>
      /\ UNCHANGED <<fired, mInterval, int_out, clockVars>>
  BY DEF IInv, HandleSkips, HandleNext
<1>2. /\ next' \in 0 .. NUM_TIMERS /\ at' \in {"charge", "check"}
      /\ FifoTypeOK' /\ Pending' /\ Positions' /\ CounterBelow'
  BY <1>1, HandleNextFacts
<1>3. TypeOK'
  BY <1>1, <1>2 DEF TypeOK, mState, listVars, ringVars, clockVars
<1>4. RingCounted'
  BY <1>1 DEF IInv, RingCounted, ringVars
<1>. QED  BY <1>2, <1>3, <1>4 DEF IInv

(* A running timer is given other ticks to go.                              *)
LEMMA Recount ==
  ASSUME TypeOK, NEW i \in mState, NEW n \in Int,
         mTimerList' = [mTimerList EXCEPT ![i].ticksLeft = n]
  PROVE  /\ mState' = mState /\ mTimerList' \in [mState' -> Running]
         /\ mTimerList'[i].ticksLeft = n
         /\ \A j \in mState \ {i} : mTimerList'[j] = mTimerList[j]
<1>1. DOMAIN mTimerList = mState /\ \A j \in mState : mTimerList[j] \in Running
  BY DEF TypeOK, mState
<1>2. mTimerList' = [j \in mState |-> IF j = i THEN [mTimerList[i] EXCEPT !.ticksLeft = n]
                                      ELSE mTimerList[j]]
  BY <1>1
<1>3. [mTimerList[i] EXCEPT !.ticksLeft = n] \in Running
      /\ [mTimerList[i] EXCEPT !.ticksLeft = n].ticksLeft = n
  BY <1>1 DEF Running
<1>4. mState' = mState
  BY <1>2 DEF mState
<1>. QED  BY <1>1, <1>2, <1>3, <1>4

LEMMA HandleChargesInv == ASSUME IInv, HandleCharges PROVE IInv'
<1>1. /\ TypeOK /\ HandleNext /\ UNCHANGED <<tasks, running, left, ringVars>>
      /\ UNCHANGED <<fired, mInterval, int_out, clockVars>> /\ next \in mState
  BY DEF IInv, HandleCharges, HandleNext
<1>2. /\ next' \in 0 .. NUM_TIMERS /\ at' \in {"charge", "check"}
      /\ FifoTypeOK' /\ Pending' /\ Positions' /\ CounterBelow'
  BY <1>1, HandleNextFacts
<1>3. Charged \in Int
  BY <1>1, Numbers DEF Charged, Entry
<1>4. mState' = mState /\ mTimerList' \in [mState' -> Running]
  BY <1>1, <1>3, Recount DEF HandleCharges
<1>5. TypeOK'
  BY <1>1, <1>2, <1>4 DEF TypeOK, ringVars, clockVars
<1>6. RingCounted'
  BY <1>1 DEF IInv, RingCounted, ringVars
<1>. QED  BY <1>2, <1>5, <1>6 DEF IInv

LEMMA HandleWaitsInv == ASSUME IInv, HandleWaits PROVE IInv'
<1>1. /\ TypeOK /\ HandleNext /\ UNCHANGED <<tasks, running, ringVars>>
      /\ UNCHANGED <<fired, mInterval, int_out, clockVars>> /\ next \in mState
  BY DEF IInv, HandleWaits, HandleNext
<1>2. /\ next' \in 0 .. NUM_TIMERS /\ at' \in {"charge", "check"}
      /\ FifoTypeOK' /\ Pending' /\ Positions' /\ CounterBelow'
  BY <1>1, HandleNextFacts
<1>3. mInterval \in Int /\ mInterval - TCNT0 - interval_outstanding \in Int
  BY <1>1, Numbers
<1>4. mState' = mState /\ mTimerList' \in [mState' -> Running]
  BY <1>1, <1>3, Recount DEF HandleWaits
<1>5. left' \in [mState' -> Int]
  BY <1>1, <1>3, <1>4 DEF HandleWaits, TypeOK
<1>6. TypeOK'
  BY <1>1, <1>2, <1>4, <1>5 DEF TypeOK, ringVars, clockVars
<1>7. RingCounted'
  BY <1>1 DEF IInv, RingCounted, ringVars
<1>. QED  BY <1>2, <1>6, <1>7 DEF IInv

LEMMA AfterIs == ASSUME TypeOK, NEW k \in -1 .. NUM_TIMERS - 1 PROVE After(k) \in Timers
BY Numbers DEF After, Timers

(* Of a timer that is due, a repeating one starts again, the other ends.    *)
LEMMA DueTimer ==
  ASSUME IInv, HandleExpires
  PROVE  /\ mState' \subseteq Timers /\ mTimerList' \in [mState' -> Running]
         /\ left' \in [mState' -> Int]
         /\ mState' = IF Entry.repeat THEN mState ELSE mState \ {next}
         /\ \A j \in mState' \ {next} : mTimerList'[j] = mTimerList[j] /\ left'[j] = left[j]
         /\ next \in mState' =>
              /\ mTimerList'[next].ticksLeft = Charged + Entry.ticks
              /\ left'[next] = left[next] + Entry.ticks
<1>1. TypeOK /\ next \in mState /\ mState \subseteq Timers /\ DOMAIN left = mState
  BY DEF IInv, HandleExpires, TypeOK
<1>2. Charged + Entry.ticks \in Int /\ left[next] + Entry.ticks \in Int
  BY <1>1, Numbers DEF Charged, Entry
<1>3. CASE Entry.repeat
  <2>1. /\ mTimerList' = [mTimerList EXCEPT ![next].ticksLeft = Charged + Entry.ticks]
        /\ left' = [left EXCEPT ![next] = left[next] + Entry.ticks]
    BY <1>3 DEF HandleExpires
  <2>2. /\ mState' = mState /\ mTimerList' \in [mState' -> Running]
        /\ mTimerList'[next].ticksLeft = Charged + Entry.ticks
        /\ \A j \in mState \ {next} : mTimerList'[j] = mTimerList[j]
    BY <1>1, <1>2, <2>1, Recount
  <2>3. /\ left' \in [mState' -> Int] /\ left'[next] = left[next] + Entry.ticks
        /\ \A j \in mState \ {next} : left'[j] = left[j]
    BY <1>1, <1>2, <2>1, <2>2 DEF TypeOK
  <2>. QED  BY <1>1, <1>3, <2>2, <2>3
<1>4. CASE ~Entry.repeat
  <2>1. mTimerList' = Without(mTimerList, next) /\ left' = Without(left, next)
    BY <1>4 DEF HandleExpires
  <2>. QED  BY <1>1, <1>4, <2>1, ClearTimer
<1>. QED  BY <1>3, <1>4

LEMMA HandleExpiresInv == ASSUME IInv, HandleExpires PROVE IInv'
<1>1. /\ TypeOK /\ HandleNext /\ Post(One) /\ running' = running /\ next \in mState
      /\ UNCHANGED <<fired, mInterval, int_out, clockVars, queue_head>>
  BY DEF IInv, HandleExpires, HandleNext, Post
<1>2. /\ next' \in 0 .. NUM_TIMERS /\ at' \in {"charge", "check"} /\ next \in Timers
      /\ FifoTypeOK' /\ Pending' /\ Positions' /\ CounterBelow'
  BY <1>1, HandleNextFacts
<1>3. /\ mState' \subseteq Timers /\ mTimerList' \in [mState' -> Running]
      /\ left' \in [mState' -> Int]
  BY DueTimer
<1>4. After(queue_tail) \in Timers
  BY <1>1, AfterIs DEF TypeOK
<1>5. queue' \in [Timers -> Timers] /\ queue_tail' \in -1 .. NUM_TIMERS - 1
  <2>1. queue' = [queue EXCEPT ![After(queue_tail)] = next] /\ queue_tail' = After(queue_tail)
    BY DEF HandleExpires, Enqueued
  <2>2. queue \in [Timers -> Timers]
    BY <1>1 DEF TypeOK
  <2>3. queue' \in [Timers -> Timers]
    BY <1>2, <2>1, <2>2
  <2>4. queue_tail' \in -1 .. NUM_TIMERS - 1
    BY <1>1, <1>4, <2>1, Numbers DEF Timers
  <2>. QED  BY <2>3, <2>4
<1>6. [timer |-> next, repeat |-> Entry.repeat] \in [timer : Timers, repeat : BOOLEAN]
  <2>1. Entry \in Running
    BY <1>1 DEF Entry, TypeOK
  <2>. QED  BY <1>2, <2>1 DEF Running
<1>7. /\ expired' \in Seq([timer : Timers, repeat : BOOLEAN])
      /\ Len(expired') = Len(expired) + 1
      /\ queue_size' = queue_size + 1 /\ queue_size' \in Nat
  BY <1>1, <1>6, SMTT(30) DEF HandleExpires, TypeOK
<1>8. TypeOK'
  BY <1>1, <1>2, <1>3, <1>5, <1>7 DEF TypeOK, clockVars
<1>9. RingCounted'
  BY <1>7 DEF IInv, RingCounted
<1>. QED  BY <1>2, <1>8, <1>9 DEF IInv

LEMMA HandleChecksInv == ASSUME IInv, HandleChecks PROVE IInv'
<1>1. /\ TypeOK /\ running = Handle /\ at' \in {"adjust", "return"} /\ at = "check"
      /\ UNCHANGED <<tasks, running, fired, handleVars, timerVars, ringVars, clockVars>>
  BY DEF IInv, HandleChecks
<1>2. TypeOK'
  BY <1>1 DEF TypeOK, FifoTypeOK, mState, timerVars, listVars, ringVars, handleVars, clockVars
<1>3. Pending' /\ Positions' /\ RingCounted' /\ CounterBelow'
  BY <1>1, SameQueue DEF IInv, Pending, HandlePending, Positions, RingCounted,
     CounterBelow, Unhandled, ringVars, handleVars, clockVars
<1>. QED  BY <1>2, <1>3 DEF IInv

LEMMA AdjustIntervalInv == ASSUME IInv, adjustInterval PROVE IInv'
<1>1. /\ TypeOK /\ running = Handle /\ at' = "return" /\ at = "adjust" /\ TCNT0 <= late
      /\ UNCHANGED <<tasks, running, fired, listVars, ringVars, handleVars,
                     interval_outstanding, TCNT0, late>>
  BY DEF IInv, adjustInterval, CounterBelow, Unhandled
<1>2. PICK val \in 0 .. Turn - 1 :
        Earliest(val) /\ mInterval' = Adjusted(val) /\ OCR0' = Adjusted(val)
  BY DEF adjustInterval
<1>3. TCNT0 + 3 <= maxTimerInterval /\ maxTimerInterval < Turn
  BY <1>1, Numbers, TimerAssumption
<1>4. mState = {} => val = maxTimerInterval
  <2>. SUFFICES ASSUME mState = {} PROVE val = maxTimerInterval
    OBVIOUS
  <2>1. Negative = {} /\ Compared = {}
    BY DEF Negative, Compared
  <2>2. Candidates = {maxTimerInterval}
    BY <2>1 DEF Candidates
  <2>. QED  BY <1>2, <2>2 DEF Earliest
<1>5. Adjusted(val) \in 0 .. Turn - 1 /\ TCNT0 <= Adjusted(val)
  BY <1>1, <1>3, <1>4, Numbers DEF Adjusted
<1>6. TypeOK'
  BY <1>1, <1>2, <1>5 DEF TypeOK, FifoTypeOK, mState, listVars, ringVars, handleVars
<1>7. Pending' /\ Positions' /\ RingCounted'
  BY <1>1, SameQueue DEF IInv, Pending, HandlePending, Positions, RingCounted,
     ringVars, handleVars
<1>8. CounterBelow'
  BY <1>1, <1>2, <1>5 DEF CounterBelow
<1>. QED  BY <1>6, <1>7, <1>8 DEF IInv

LEMMA SignalOneTimerInv == ASSUME IInv, signalOneTimer PROVE IInv'
<1>1. /\ TypeOK /\ running = One /\ One # Handle /\ at' = "fired" /\ at = "start"
      /\ queue_size > 0 /\ queue_size' = queue_size - 1 /\ queue_head' = After(queue_head)
      /\ fired' = queue[After(queue_head)] /\ expired' = Tail(expired)
      /\ queue_size = Len(expired)
      /\ UNCHANGED <<tasks, running, timerVars, queue, queue_tail, handleVars, clockVars>>
  BY DEF IInv, signalOneTimer, RingCounted, One, Handle
<1>2. After(queue_head) \in Timers
  BY <1>1, AfterIs DEF TypeOK
<1>3. fired' \in 0 .. NUM_TIMERS /\ queue_head' \in -1 .. NUM_TIMERS - 1
  <2>1. queue[After(queue_head)] \in Timers
    BY <1>1, <1>2 DEF TypeOK
  <2>2. \A i \in Timers : i \in 0 .. NUM_TIMERS /\ i \in -1 .. NUM_TIMERS - 1
    BY <1>1, Numbers, SMTT(30) DEF Timers
  <2>. QED  BY <1>1, <1>2, <2>1, <2>2
<1>4. /\ expired' \in Seq([timer : Timers, repeat : BOOLEAN])
      /\ Len(expired') = Len(expired) - 1 /\ queue_size' \in Nat
  BY <1>1, HeadTailProperties DEF TypeOK
<1>5. TypeOK'
  BY <1>1, <1>3, <1>4 DEF TypeOK, FifoTypeOK, mState, timerVars, listVars, handleVars, clockVars
<1>6. Pending' /\ Positions' /\ CounterBelow'
  BY <1>1, SameQueue DEF IInv, Pending, HandlePending, Positions, CounterBelow, Unhandled,
     handleVars, clockVars
<1>7. RingCounted'
  BY <1>1, <1>4 DEF RingCounted
<1>. QED  BY <1>5, <1>6, <1>7 DEF IInv

LEMMA StutterInv == ASSUME IInv, UNCHANGED vars PROVE IInv'
<1>1. TypeOK'
  BY DEF IInv, TypeOK, FifoTypeOK, mState, vars, timerVars, listVars, ringVars, handleVars, clockVars
<1>2. Pending' /\ Positions' /\ RingCounted' /\ CounterBelow'
  BY SameQueue DEF IInv, Pending, HandlePending, Positions, RingCounted, CounterBelow,
     Unhandled, vars, ringVars, handleVars, clockVars
<1>. QED  BY <1>1, <1>2 DEF IInv

LEMMA StepInv == ASSUME IInv, [Next]_vars PROVE IInv'
BY StartInv, StopInv, ClockCountsInv, ClockFireInv, RunTaskInv, TaskEndsInv, PostOtherInv,
   HandleReadsInv, HandleSkipsInv, HandleChargesInv, HandleWaitsInv, HandleExpiresInv,
   HandleChecksInv, AdjustIntervalInv, SignalOneTimerInv, StutterInv
DEF Next, Tick, TaskStep, ClientStep

(* The state of the timers keeps its types: in particular the counter never *)
(* passes the compare register, though HandleFire moves it (TimerM.nc:115). *)
THEOREM TypeCorrect == Safety => []TypeOK
<1>1. Init => IInv
  BY InitInv
<1>2. IInv /\ [Next]_vars => IInv'
  BY StepInv
<1>3. IInv => TypeOK
  BY DEF IInv
<1>. QED  BY <1>1, <1>2, <1>3, PTL DEF Safety
-----------------------------------------------------------------------------
(* The account of the timers is right.                                      *)
Account == IInv /\ TicksLeftIsTrue

(* What is owing when HandleFire does not charge, and when it does.         *)
LEMMA OwingIs ==
  ASSUME TypeOK, NEW i \in Timers
  PROVE  /\ ~(running = Handle /\ at = "charge") => Owing(i) = interval_outstanding + TCNT0
         /\ running = Handle /\ at = "charge" /\ i >= next =>
              Owing(i) = interval_outstanding + TCNT0 + int_out
         /\ ~(i >= next) => Owing(i) = interval_outstanding + TCNT0
         /\ Owing(i) \in Int
<1>1. /\ interval_outstanding \in Int /\ TCNT0 \in Int /\ int_out \in Int
  BY Numbers
<1>. QED  BY <1>1 DEF Owing

(* Steps that leave what is owing and the timers alone.                     *)
LEMMA SameAccount ==
  ASSUME Account, IInv', mState' \subseteq mState,
         interval_outstanding' + TCNT0' = interval_outstanding + TCNT0,
         ~(running = Handle /\ at = "charge"), ~(running = Handle /\ at = "charge")',
         \A i \in mState' : mTimerList'[i] = mTimerList[i] /\ left'[i] = left[i]
  PROVE  TicksLeftIsTrue'
<1>. SUFFICES ASSUME NEW i \in mState'
              PROVE  mTimerList'[i].ticksLeft - Owing(i)' = left'[i]
  BY DEF TicksLeftIsTrue
<1>1. TypeOK /\ TypeOK' /\ i \in Timers /\ i \in mState
  BY DEF Account, IInv, TypeOK
<1>2. Owing(i)' = interval_outstanding' + TCNT0'
  BY <1>1, OwingIs DEF Owing
<1>3. Owing(i) = interval_outstanding + TCNT0
  BY <1>1, OwingIs
<1>4. mTimerList[i].ticksLeft - Owing(i) = left[i]
  BY <1>1 DEF Account, TicksLeftIsTrue
<1>. QED  BY <1>1, <1>2, <1>3, <1>4

LEMMA StartAccount ==
  ASSUME Account, IInv', StartsLate = FALSE, NEW i \in Timers, Started(i)
  PROVE  TicksLeftIsTrue'
<1>1. PICK repeat \in BOOLEAN, interval \in Delays \cup Periods :
        Timer_start(i, repeat, interval)
  BY DEF Started
<1>. DEFINE entry == [repeat |-> repeat, ticks |-> interval, ticksLeft |-> DueAt(interval)]
<1>2. TypeOK /\ interval \in Nat /\ interval_outstanding = 0 /\ DueAt(interval) = interval + TCNT0
  BY <1>1, TimerAssumption DEF Account, IInv, Timer_start, DueAt
<1>3. running # Handle /\ One # Handle
  BY <1>1 DEF Account, IInv, Positions, Timer_start, ClientRuns, ClientTask, One, Handle
<1>4. entry \in Running /\ entry.ticksLeft = interval + TCNT0
  BY <1>2, Numbers DEF Running
<1>5. /\ mState' = mState \cup {i} /\ mState' \subseteq Timers
      /\ mTimerList'[i] = entry /\ left'[i] = interval
      /\ \A j \in mState \ {i} : mTimerList'[j] = mTimerList[j] /\ left'[j] = left[j]
  BY <1>1, <1>2, <1>4, SetTimer DEF Timer_start
<1>6. running' = running /\ interval_outstanding' = 0 /\ TCNT0' = TCNT0
  BY <1>1, <1>2 DEF Timer_start
<1>. SUFFICES ASSUME NEW j \in mState'
              PROVE  mTimerList'[j].ticksLeft - Owing(j)' = left'[j]
  BY DEF TicksLeftIsTrue
<1>7. Owing(j)' = TCNT0 /\ TCNT0 \in Int
  BY <1>2, <1>3, <1>6, Numbers DEF Owing
<1>8. CASE j = i
  BY <1>2, <1>4, <1>5, <1>7, <1>8
<1>9. CASE j # i
  <2>1. j \in mState /\ j \in Timers
    BY <1>5, <1>9
  <2>2. Owing(j) = TCNT0 /\ mTimerList[j].ticksLeft - Owing(j) = left[j]
    BY <1>2, <1>3, <1>7, <2>1, OwingIs DEF Account, TicksLeftIsTrue
  <2>. QED  BY <1>5, <1>7, <1>9, <2>1, <2>2
<1>. QED  BY <1>8, <1>9

LEMMA TickAccount == ASSUME Account, Tick PROVE TicksLeftIsTrue'
<1>1. TypeOK /\ TimePasses /\ UNCHANGED <<mTimerList, running, at, next, int_out>>
  <2>1. CASE ClockCounts
    BY <2>1 DEF Account, IInv, ClockCounts, handleVars
  <2>2. CASE Clock_fire
    <3>1. running' = running
      BY <2>2 DEF Clock_fire, PostHandle, Post
    <3>. QED  BY <2>2, <3>1 DEF Account, IInv, Clock_fire, handleVars
  <2>. QED  BY <2>1, <2>2 DEF Tick
<1>2. interval_outstanding' + TCNT0' = interval_outstanding + TCNT0 + 1
  <2>1. CASE ClockCounts
    <3>1. TCNT0' = TCNT0 + 1
      BY <2>1, ClockCountsInv DEF Account
    <3>. QED  BY <1>1, <2>1, <3>1, Numbers DEF ClockCounts
  <2>2. CASE Clock_fire
    BY <1>1, <2>2, Numbers DEF Clock_fire, Period
  <2>. QED  BY <2>1, <2>2 DEF Tick
<1>3. interval_outstanding' \in Int /\ TCNT0' \in Int
  <2>1. CASE ClockCounts
    BY <1>1, <2>1, Numbers, ClockCountsInv DEF Account, ClockCounts
  <2>2. CASE Clock_fire
    BY <1>1, <2>2, Numbers DEF Clock_fire, Period
  <2>. QED  BY <2>1, <2>2 DEF Tick
<1>4. mState' = mState /\ \A i \in mState : left'[i] = left[i] - 1
  BY <1>1, PassingTime
<1>. SUFFICES ASSUME NEW i \in mState
              PROVE  mTimerList'[i].ticksLeft - Owing(i)' = left'[i]
  BY <1>4 DEF TicksLeftIsTrue
<1>5. Owing(i)' = Owing(i) + 1
  BY <1>1, <1>2, <1>3, Numbers DEF Owing
<1>6. mTimerList[i].ticksLeft - Owing(i) = left[i] /\ Owing(i) \in Int
  BY <1>1, OwingIs DEF Account, TicksLeftIsTrue, TypeOK
<1>. QED  BY <1>1, <1>4, <1>5, <1>6, Numbers

LEMMA HandleReadsAccount == ASSUME Account, IInv', HandleReads PROVE TicksLeftIsTrue'
<1>1. /\ TypeOK /\ running = Handle /\ at = "start" /\ running' = Handle
      /\ int_out' = interval_outstanding /\ interval_outstanding' = 0 /\ next' = 0
      /\ mState # {} => at' = "charge"
      /\ TCNT0' = TCNT0 /\ mTimerList' = mTimerList /\ left' = left
  BY DEF Account, IInv, HandleReads, timerVars, listVars
<1>2. mState' = mState
  BY <1>1 DEF mState
<1>. SUFFICES ASSUME NEW i \in mState
              PROVE  mTimerList[i].ticksLeft - Owing(i)' = left[i]
  BY <1>1, <1>2 DEF TicksLeftIsTrue
<1>3. i \in Timers /\ i >= 0
  BY <1>1, Numbers DEF TypeOK, Timers
<1>4. Owing(i)' = interval_outstanding + TCNT0
  BY <1>1, <1>3, Numbers DEF Owing
<1>5. Owing(i) = interval_outstanding + TCNT0
  BY <1>1, <1>3, OwingIs
<1>. QED  BY <1>4, <1>5 DEF Account, TicksLeftIsTrue

(* HandleFire has charged the timer next and owes the others as before.     *)
LEMMA ChargesOne ==
  ASSUME Account, HandleNext, tasks' = tasks \/ Post(One), UNCHANGED running
  PROVE  /\ next \in Timers
         /\ Owing(next) = interval_outstanding + TCNT0 + int_out
         /\ \A i \in Timers : i = next => Owing(i)' = interval_outstanding + TCNT0
         /\ \A i \in Timers \ {next} : Owing(i)' = Owing(i)
<1>1. /\ TypeOK /\ next \in Timers /\ next' = next + 1 /\ at' \in {"charge", "check"}
      /\ at' = "check" => next' = NUM_TIMERS
      /\ running = Handle /\ at = "charge" /\ running' = running
  BY HandleNextFacts DEF Account, IInv
<1>2. UNCHANGED <<int_out, interval_outstanding, TCNT0>>
  BY DEF HandleNext, clockVars
<1>3. next \in Int /\ next >= next /\ ~(next >= next + 1)
  BY <1>1, Numbers DEF Timers
<1>4. Owing(next) = interval_outstanding + TCNT0 + int_out
  BY <1>1, <1>3, OwingIs
<1>5. ASSUME NEW i \in Timers, i = next
      PROVE  Owing(i)' = interval_outstanding + TCNT0
  <2>1. ~(i >= next') /\ interval_outstanding \in Int /\ TCNT0 \in Int
    BY <1>1, <1>3, <1>5, Numbers
  <2>. QED  BY <1>2, <2>1 DEF Owing
<1>6. ASSUME NEW i \in Timers \ {next}
      PROVE  Owing(i)' = Owing(i)
  <2>1. i \in Int /\ i <= NUM_TIMERS - 1 /\ (i >= next <=> i >= next + 1)
    BY <1>1, <1>3, Numbers DEF Timers
  <2>2. CASE i >= next
    <3>1. at' = "charge" /\ i >= next'
      BY <1>1, <2>1, <2>2, Numbers
    <3>2. Owing(i) = interval_outstanding + TCNT0 + int_out
      BY <1>1, <2>2, OwingIs
    <3>3. Owing(i)' = interval_outstanding + TCNT0 + int_out
      BY <1>1, <1>2, <3>1 DEF Owing
    <3>. QED  BY <3>2, <3>3
  <2>3. CASE ~(i >= next)
    <3>1. ~(i >= next')
      BY <1>1, <2>1, <2>3
    <3>2. Owing(i) = interval_outstanding + TCNT0 + 0
      BY <1>1, <2>3 DEF Owing
    <3>3. Owing(i)' = interval_outstanding + TCNT0 + 0
      BY <1>2, <3>1 DEF Owing
    <3>. QED  BY <3>2, <3>3
  <2>. QED  BY <2>2, <2>3
<1>. QED  BY <1>1, <1>4, <1>5, <1>6

(* So the account is right after a timer has been looked at.                *)
LEMMA LookedAt ==
  ASSUME Account, HandleNext, tasks' = tasks \/ Post(One), UNCHANGED running,
         mState' \subseteq mState,
         \A i \in mState' \ {next} : mTimerList'[i] = mTimerList[i] /\ left'[i] = left[i],
         next \in mState' =>
           mTimerList'[next].ticksLeft - (interval_outstanding + TCNT0) = left'[next]
  PROVE  TicksLeftIsTrue'
<1>. SUFFICES ASSUME NEW i \in mState'
              PROVE  mTimerList'[i].ticksLeft - Owing(i)' = left'[i]
  BY DEF TicksLeftIsTrue
<1>1. i \in Timers /\ i \in mState /\ mTimerList[i].ticksLeft - Owing(i) = left[i]
  BY DEF Account, IInv, TypeOK, TicksLeftIsTrue
<1>2. CASE i = next
  BY <1>2, ChargesOne
<1>3. CASE i # next
  <2>1. Owing(i)' = Owing(i)
    BY <1>1, <1>3, ChargesOne
  <2>. QED  BY <1>1, <1>3, <2>1
<1>. QED  BY <1>2, <1>3

(* The ticks that the timer next has left once it is charged.               *)
LEMMA ChargedIs ==
  ASSUME Account, HandleNext, tasks' = tasks \/ Post(One), UNCHANGED running,
         next \in mState
  PROVE  /\ Charged \in Int /\ Entry.ticks \in Int /\ left[next] \in Int
         /\ interval_outstanding + TCNT0 \in Int
         /\ Charged - (interval_outstanding + TCNT0) = left[next]
<1>1. /\ mTimerList[next].ticksLeft - Owing(next) = left[next]
      /\ Owing(next) = interval_outstanding + TCNT0 + int_out
  BY ChargesOne DEF Account, TicksLeftIsTrue
<1>2. /\ mTimerList[next].ticksLeft \in Int /\ mTimerList[next].ticks \in Int
      /\ interval_outstanding \in Int /\ TCNT0 \in Int /\ int_out \in Int
      /\ left[next] \in Int
  BY Numbers DEF Account, IInv
<1>. QED  BY <1>1, <1>2 DEF Charged, Entry

LEMMA HandleSkipsAccount == ASSUME Account, HandleSkips PROVE TicksLeftIsTrue'
<1>1. /\ HandleNext /\ next \notin mState
      /\ UNCHANGED <<tasks, running, mTimerList, left>>
  BY DEF HandleSkips, listVars
<1>2. mState' = mState
  BY <1>1 DEF mState
<1>. QED  BY <1>1, <1>2, LookedAt

LEMMA HandleChargesAccount == ASSUME Account, HandleCharges PROVE TicksLeftIsTrue'
<1>1. /\ TypeOK /\ HandleNext /\ next \in mState /\ UNCHANGED <<tasks, running, left>>
      /\ mTimerList' = [mTimerList EXCEPT ![next].ticksLeft = Charged]
  BY DEF Account, IInv, HandleCharges
<1>2. Charged \in Int /\ Charged - (interval_outstanding + TCNT0) = left[next]
  BY <1>1, ChargedIs
<1>3. /\ mState' = mState /\ mTimerList'[next].ticksLeft = Charged
      /\ \A j \in mState \ {next} : mTimerList'[j] = mTimerList[j]
  BY <1>1, <1>2, Recount
<1>. QED  BY <1>1, <1>2, <1>3, LookedAt

LEMMA ChargeLater ==
  ASSUME NEW charged \in Int, NEW ticks \in Int, NEW owing \in Int
  PROVE  (charged + ticks) - owing = (charged - owing) + ticks
OBVIOUS

LEMMA HandleExpiresAccount == ASSUME Account, HandleExpires PROVE TicksLeftIsTrue'
<1>1. HandleNext /\ next \in mState /\ Post(One) /\ running' = running
  BY DEF HandleExpires, Post
<1>2. /\ Charged \in Int /\ Entry.ticks \in Int /\ left[next] \in Int
      /\ interval_outstanding + TCNT0 \in Int
      /\ Charged - (interval_outstanding + TCNT0) = left[next]
  BY <1>1, ChargedIs
<1>3. /\ mState' \subseteq mState
      /\ \A j \in mState' \ {next} : mTimerList'[j] = mTimerList[j] /\ left'[j] = left[j]
      /\ next \in mState' =>
           /\ mTimerList'[next].ticksLeft = Charged + Entry.ticks
           /\ left'[next] = left[next] + Entry.ticks
  BY DueTimer DEF Account
<1>. DEFINE owing == interval_outstanding + TCNT0
<1>4. (Charged + Entry.ticks) - owing = left[next] + Entry.ticks
  <2>. HIDE DEF owing
  <2>1. owing \in Int /\ Charged - owing = left[next]
    BY <1>2 DEF owing
  <2>. QED  BY <1>2, <2>1, ChargeLater
<1>5. next \in mState' => mTimerList'[next].ticksLeft - owing = left'[next]
  <2>. HIDE DEF owing
  <2>. QED  BY <1>3, <1>4
<1>. QED  BY <1>1, <1>3, <1>5, LookedAt

LEMMA HandleWaitsAccount == ASSUME Account, HandleWaits PROVE TicksLeftIsTrue'
<1>1. /\ TypeOK /\ HandleNext /\ next \in mState /\ UNCHANGED <<tasks, running>>
      /\ mTimerList' = [mTimerList EXCEPT ![next].ticksLeft = mInterval]
      /\ left' = [left EXCEPT ![next] = mInterval - TCNT0 - interval_outstanding]
  BY DEF Account, IInv, HandleWaits
<1>2. /\ mInterval \in Int /\ TCNT0 \in Int /\ interval_outstanding \in Int
  BY <1>1, Numbers
<1>3. /\ mState' = mState /\ mTimerList'[next].ticksLeft = mInterval
      /\ \A j \in mState \ {next} : mTimerList'[j] = mTimerList[j]
  BY <1>1, <1>2, Recount
<1>4. /\ left'[next] = mInterval - TCNT0 - interval_outstanding
      /\ \A j \in mState \ {next} : left'[j] = left[j]
  BY <1>1 DEF TypeOK
<1>5. mInterval - (interval_outstanding + TCNT0) = mInterval - TCNT0 - interval_outstanding
  BY <1>2
<1>. QED  BY <1>1, <1>3, <1>4, <1>5, LookedAt

(* The other steps of tasks, and the stop of a timer, change no account.    *)
LEMMA OtherAccount ==
  ASSUME Account, IInv',
         \/ RunTask \/ TaskEnds \/ HandleChecks \/ adjustInterval \/ signalOneTimer
         \/ StdControl_stop \/ \E i \in Timers : Timer_stop(i)
  PROVE  TicksLeftIsTrue'
<1>1. TypeOK /\ (at = "charge" => running = Handle) /\ NoTask # Handle
  BY FifoAssumption, TimerAssumption DEF Account, IInv, Positions
<1>2. UNCHANGED <<interval_outstanding, TCNT0>>
  BY DEF RunTask, TaskEnds, HandleChecks, adjustInterval, signalOneTimer, StdControl_stop,
     Timer_stop, clockVars
<1>3. /\ mState' \subseteq mState
      /\ \A i \in mState' : mTimerList'[i] = mTimerList[i] /\ left'[i] = left[i]
  <2>1. ASSUME UNCHANGED listVars
        PROVE  /\ mState' \subseteq mState
               /\ \A i \in mState' : mTimerList'[i] = mTimerList[i] /\ left'[i] = left[i]
    BY <2>1 DEF listVars, mState
  <2>2. ASSUME NEW i \in Timers, Timer_stop(i)
        PROVE  /\ mState' \subseteq mState
               /\ \A j \in mState' : mTimerList'[j] = mTimerList[j] /\ left'[j] = left[j]
    BY <1>1, <2>2, ClearTimer DEF Timer_stop
  <2>3. CASE StdControl_stop
    BY <2>3 DEF StdControl_stop, mState
  <2>. QED  BY <2>1, <2>2, <2>3 DEF RunTask, TaskEnds, HandleChecks, adjustInterval,
            signalOneTimer, timerVars
<1>4. ~(running = Handle /\ at = "charge") /\ ~(running = Handle /\ at = "charge")'
  <2>1. CASE RunTask
    BY <1>1, <2>1 DEF RunTask, RunNext
  <2>2. CASE TaskEnds \/ HandleChecks \/ adjustInterval \/ signalOneTimer
    BY <2>2 DEF TaskEnds, HandleChecks, adjustInterval, signalOneTimer, ClientTask
  <2>3. CASE StdControl_stop \/ \E i \in Timers : Timer_stop(i)
    BY <2>3 DEF StdControl_stop, Timer_stop, ClientRuns, ClientTask
  <2>. QED  BY <2>1, <2>2, <2>3
<1>. QED  BY <1>2, <1>3, <1>4, SameAccount

(* A post of another component, and a stutter, change nothing of the timers. *)
LEMMA NoAccount ==
  ASSUME Account, UNCHANGED vars \/ \E t \in Tasks : PostOther(t)
  PROVE  TicksLeftIsTrue'
<1>1. UNCHANGED <<running, at, next, int_out, interval_outstanding, TCNT0, mTimerList, left>>
  BY DEF vars, PostOther, Post, timerVars, listVars, handleVars, clockVars
<1>2. mState' = mState /\ \A i \in mState : Owing(i)' = Owing(i)
  BY <1>1 DEF mState, Owing
<1>. QED  BY <1>1, <1>2 DEF Account, TicksLeftIsTrue

LEMMA StepAccount ==
  ASSUME Account, StartsLate = FALSE, [Next]_vars
  PROVE  Account'
<1>1. IInv'
  BY StepInv DEF Account
<1>2. TicksLeftIsTrue'
  BY <1>1, StartAccount, TickAccount, HandleReadsAccount, HandleSkipsAccount,
     HandleChargesAccount, HandleExpiresAccount, HandleWaitsAccount, OtherAccount, NoAccount
  DEF Next, TaskStep, ClientStep
<1>. QED  BY <1>1, <1>2 DEF Account

(* The ticks a timer has left, less those it has not been charged with, are *)
(* the ticks until it is due (TimerM.nc:48), however many interrupts wait   *)
(* for HandleFire and wherever in its loop it is, when no timer is started  *)
(* while an interrupt waits.                                                *)
THEOREM TicksLeftIsTrueAlways ==
  ASSUME StartsLate = FALSE
  PROVE  Safety => []TicksLeftIsTrue
<1>1. Init => Account
  BY InitInv DEF Account
<1>2. Account /\ [Next]_vars => Account'
  BY StepAccount
<1>3. Account => TicksLeftIsTrue
  BY DEF Account
<1>. QED  BY <1>1, <1>2, <1>3, PTL DEF Safety

(* "Once we've posted HandleFire(), don't post it again until the original  *)
(* one is handled" (TimerM.nc:232), and it always has ticks to charge.      *)
THEOREM HandleFirePostedOnce ==
  Safety => [](Once(Handle) /\ (HandlePending => interval_outstanding > 0))
<1>1. Init => IInv
  BY InitInv
<1>2. IInv /\ [Next]_vars => IInv'
  BY StepInv
<1>3. IInv => Once(Handle) /\ (HandlePending => interval_outstanding > 0)
  BY DEF IInv, Pending
<1>. QED  BY <1>1, <1>2, <1>3, PTL DEF Safety
-----------------------------------------------------------------------------
(* A period is longer than the lateness of two interrupts and the distance  *)
(* that adjustInterval keeps from the counter.                              *)
LongPeriods == \A p \in Periods : 2 * MaxLate + 5 < p

(* Then no timer has ticks left to go below zero ...                        *)
Regular == \A i \in mState : mTimerList[i].repeat => mTimerList[i].ticks \in Periods

StillToGo == \A i \in mState : mTimerList[i].ticksLeft > 0

AlarmInRange == OCR0 <= mInterval /\ 0 < mInterval /\ mInterval <= maxTimerInterval

(* ... as the clock is set to the first of them whenever it is charged, ... *)
Quiet == interval_outstanding = 0 /\ (running # Handle \/ at = "return")

AlarmNear ==
  Quiet => \A i \in mState :
    /\ mInterval <= mTimerList[i].ticksLeft + MaxLate + 2
    /\ mInterval <= mTimerList[i].ticksLeft \/ mInterval <= TCNT0 + 3

(* ... so that no timer is overdue by more than this lateness allows.       *)
Overdue == Unhandled => \A i \in mState : left[i] + late + MaxLate + 3 >= 0

SinceRead == running = Handle /\ at # "start" => interval_outstanding + TCNT0 <= late

Timely ==
  /\ Account /\ Regular /\ StillToGo /\ AlarmInRange /\ AlarmNear /\ Overdue /\ SinceRead

(* Hence the alarm is set for the first timer that will be due.             *)
LEMMA TimelyAlarm == ASSUME Timely PROVE AlarmSet
<1>1. TypeOK /\ TCNT0 <= OCR0 /\ OCR0 <= mInterval
  BY DEF Timely, Account, IInv, CounterBelow, AlarmInRange
<1>2. ASSUME interval_outstanding = 0, running # Handle, NEW i \in mState
      PROVE  OCR0 <= mTimerList[i].ticksLeft \/ OCR0 - TCNT0 <= 3
  <2>1. mInterval <= mTimerList[i].ticksLeft \/ mInterval <= TCNT0 + 3
    BY <1>2 DEF Timely, AlarmNear, Quiet
  <2>. QED  BY <1>1, <2>1, Numbers
<1>. QED  BY <1>1, <1>2 DEF AlarmSet

LEMMA InitTimely == Init => Timely
<1>. SUFFICES ASSUME Init PROVE Timely
  OBVIOUS
<1>1. Account /\ mState = {}
  BY InitInv DEF Account, Init, mState
<1>2. AlarmInRange /\ running = NoTask /\ NoTask # Handle
  BY FifoAssumption, TimerAssumption DEF Init, FifoInit, AlarmInRange
<1>. QED  BY <1>1, <1>2 DEF Timely, Regular, StillToGo, AlarmNear, Overdue, SinceRead

(* The bounds of the numbers, for the provers.                              *)
LEMMA TimelyNumbers ==
  ASSUME Timely
  PROVE  /\ TypeOK /\ MaxLate \in Nat /\ maxTimerInterval \in Nat
         /\ TCNT0 \in Nat /\ OCR0 \in Nat /\ mInterval \in Nat \ {0} /\ late \in Nat
         /\ late <= MaxLate /\ TCNT0 <= OCR0 /\ OCR0 <= mInterval
         /\ mInterval <= maxTimerInterval /\ interval_outstanding \in Nat
         /\ MaxLate + 3 <= maxTimerInterval
BY Numbers, TimerAssumption DEF Timely, Account, IInv, CounterBelow, AlarmInRange

(* Timers that are stopped or left alone disturb nothing.                   *)
LEMMA SameTimers ==
  ASSUME Timely, mState' \subseteq mState,
         \A i \in mState' : mTimerList'[i] = mTimerList[i]
  PROVE  Regular' /\ StillToGo'
BY DEF Timely, Regular, StillToGo

LEMMA SameAlarm ==
  ASSUME Timely, mState' \subseteq mState,
         \A i \in mState' : mTimerList'[i] = mTimerList[i],
         mInterval' = mInterval, TCNT0' = TCNT0, Quiet' => Quiet
  PROVE  AlarmNear'
BY DEF Timely, AlarmNear

LEMMA SameOverdue ==
  ASSUME Timely, mState' \subseteq mState,
         \A i \in mState' : left'[i] = left[i],
         Unhandled' => Unhandled /\ late' = late
  PROVE  Overdue'
BY DEF Timely, Overdue
-----------------------------------------------------------------------------
LEMMA TimelyStart ==
  ASSUME Timely, Account', LongPeriods, StartsLate = FALSE, NEW i \in Timers, Started(i)
  PROVE  Timely'
<1>1. PICK repeat \in BOOLEAN, interval \in Delays \cup Periods :
        Timer_start(i, repeat, interval) /\ (repeat => interval \in Periods)
  BY DEF Started
<1>. DEFINE entry == [repeat |-> repeat, ticks |-> interval, ticksLeft |-> DueAt(interval)]
<1>2. /\ TypeOK /\ interval \in Nat \ {0} /\ interval_outstanding = 0
      /\ DueAt(interval) = interval + TCNT0 /\ DueAt(interval) \in Nat \ {0}
  BY <1>1, TimelyNumbers, TimerAssumption DEF Timer_start, DueAt
<1>3. running # Handle
  BY <1>1 DEF Timely, Account, IInv, Positions, Timer_start, ClientRuns, ClientTask, One, Handle
<1>4. entry \in Running
  BY <1>2 DEF Running
<1>5. /\ mState' = mState \cup {i} /\ mTimerList'[i] = entry
      /\ \A j \in mState \ {i} : mTimerList'[j] = mTimerList[j]
  BY <1>1, <1>2, <1>4, SetTimer DEF Timer_start
<1>6. UNCHANGED <<running, at, interval_outstanding, TCNT0, late>>
  BY <1>1 DEF Timer_start
<1>7. Regular' /\ StillToGo'
  BY <1>1, <1>2, <1>5 DEF Timely, Regular, StillToGo
<1>8. /\ DueAt(interval) < mInterval => mInterval' = DueAt(interval) /\ OCR0' = DueAt(interval)
      /\ ~(DueAt(interval) < mInterval) => mInterval' = mInterval /\ OCR0' = OCR0
  BY <1>1 DEF Timer_start
<1>9. AlarmInRange'
  BY <1>2, <1>8, TimelyNumbers DEF AlarmInRange
<1>10. mInterval' <= DueAt(interval) /\ mInterval' <= mInterval /\ mInterval' \in Nat
  BY <1>2, <1>8, TimelyNumbers
<1>11. AlarmNear'
  <2>1. Quiet
    BY <1>2, <1>3 DEF Quiet
  <2>. SUFFICES ASSUME NEW j \in mState'
                PROVE  /\ mInterval' <= mTimerList'[j].ticksLeft + MaxLate + 2
                       /\ \/ mInterval' <= mTimerList'[j].ticksLeft
                          \/ mInterval' <= TCNT0 + 3
    BY <1>6 DEF AlarmNear
  <2>2. CASE j = i
    <3>1. mTimerList'[j].ticksLeft = DueAt(interval)
      BY <1>5, <2>2
    <3>. QED  BY <1>2, <1>10, <3>1, TimelyNumbers
  <2>3. CASE j # i
    <3>1. j \in mState /\ mTimerList'[j].ticksLeft = mTimerList[j].ticksLeft
      BY <1>5, <2>3
    <3>2. /\ mInterval <= mTimerList[j].ticksLeft + MaxLate + 2
          /\ mInterval <= mTimerList[j].ticksLeft \/ mInterval <= TCNT0 + 3
      BY <2>1, <3>1 DEF Timely, AlarmNear
    <3>3. mTimerList[j].ticksLeft \in Int
      BY <1>2, <3>1, Numbers
    <3>. QED  BY <1>10, <3>1, <3>2, <3>3, TimelyNumbers
  <2>. QED  BY <2>2, <2>3
<1>12. Overdue' /\ SinceRead'
  BY <1>2, <1>3, <1>6, TimelyNumbers DEF Overdue, SinceRead, Unhandled
<1>. QED  BY <1>7, <1>9, <1>11, <1>12 DEF Timely

LEMMA TimelyStop ==
  ASSUME Timely, Account', StdControl_stop \/ \E i \in Timers : Timer_stop(i)
  PROVE  Timely'
<1>1. UNCHANGED <<running, at, interval_outstanding, OCR0, TCNT0, late>>
  BY DEF StdControl_stop, Timer_stop, clockVars
<1>2. (Quiet' <=> Quiet) /\ (Unhandled' <=> Unhandled)
  BY <1>1 DEF Quiet, Unhandled
<1>3. SinceRead'
  BY <1>1 DEF Timely, SinceRead
<1>4. CASE StdControl_stop
  <2>1. mState' = {} /\ mInterval' = maxTimerInterval
    BY <1>4 DEF StdControl_stop, mState
  <2>2. AlarmInRange'
    BY <1>1, <2>1, TimelyNumbers DEF AlarmInRange
  <2>. QED  BY <1>3, <2>1, <2>2 DEF Timely, Regular, StillToGo, AlarmNear, Overdue
<1>5. ASSUME NEW i \in Timers, Timer_stop(i) PROVE Timely'
  <2>1. /\ mState' \subseteq mState /\ mInterval' = mInterval
        /\ \A j \in mState' : mTimerList'[j] = mTimerList[j] /\ left'[j] = left[j]
    BY <1>5, TimelyNumbers, ClearTimer DEF Timer_stop
  <2>2. AlarmInRange'
    BY <1>1, <2>1 DEF Timely, AlarmInRange
  <2>3. Regular' /\ StillToGo' /\ AlarmNear' /\ Overdue'
    BY <1>1, <1>2, <2>1, SameTimers, SameAlarm, SameOverdue
  <2>. QED  BY <1>3, <2>2, <2>3 DEF Timely
<1>. QED  BY <1>4, <1>5

LEMMA TimelyTick == ASSUME Timely, Account', Tick PROVE Timely'
<1>1. /\ TypeOK /\ TimePasses
      /\ UNCHANGED <<mTimerList, mInterval, OCR0, running, at>>
  <2>1. CASE ClockCounts
    BY <2>1, TimelyNumbers DEF ClockCounts
  <2>2. CASE Clock_fire
    <3>1. running' = running
      BY <2>2 DEF Clock_fire, PostHandle, Post
    <3>. QED  BY <2>2, <3>1, TimelyNumbers DEF Clock_fire
  <2>. QED  BY <2>1, <2>2 DEF Tick
<1>2. mState' = mState /\ \A i \in mState : left'[i] = left[i] - 1
  BY <1>1, PassingTime
<1>3. late' = IF Unhandled THEN late + 1 ELSE 0
  BY <1>1 DEF TimePasses
<1>4. Regular' /\ StillToGo' /\ AlarmInRange'
  BY <1>1, <1>2, SameTimers DEF Timely, AlarmInRange
<1>5. ASSUME Unhandled PROVE Overdue'
  <2>. SUFFICES ASSUME NEW i \in mState PROVE left'[i] + late' + MaxLate + 3 >= 0
    BY <1>2 DEF Overdue
  <2>1. left[i] + late + MaxLate + 3 >= 0 /\ left[i] \in Int
    BY <1>1, <1>5, Numbers DEF Timely, Overdue
  <2>. QED  BY <1>2, <1>3, <1>5, <2>1, TimelyNumbers
<1>6. CASE ClockCounts
  <2>1. TCNT0' = TCNT0 + 1 /\ interval_outstanding' = interval_outstanding
    BY <1>6, ClockCountsInv DEF Timely, Account, ClockCounts
  <2>2. AlarmNear'
    <3>. SUFFICES ASSUME Quiet, NEW i \in mState
                  PROVE  /\ mInterval <= mTimerList[i].ticksLeft + MaxLate + 2
                         /\ \/ mInterval <= mTimerList[i].ticksLeft
                            \/ mInterval <= TCNT0' + 3
      BY <1>1, <1>2, <2>1 DEF AlarmNear, Quiet
    <3>1. /\ mInterval <= mTimerList[i].ticksLeft + MaxLate + 2
          /\ mInterval <= mTimerList[i].ticksLeft \/ mInterval <= TCNT0 + 3
      BY DEF Timely, AlarmNear
    <3>2. mInterval <= TCNT0 + 3 => mInterval <= TCNT0' + 3
      BY <2>1, TimelyNumbers
    <3>. QED  BY <3>1, <3>2
  <2>3. Overdue'
    <3>1. ASSUME ~Unhandled PROVE ~Unhandled'
      BY <1>1, <2>1, <3>1 DEF Unhandled
    <3>. QED  BY <1>5, <3>1 DEF Overdue
  <2>4. SinceRead'
    <3>. SUFFICES ASSUME running = Handle, at # "start"
                  PROVE  interval_outstanding' + TCNT0' <= late'
      BY <1>1 DEF SinceRead
    <3>1. interval_outstanding + TCNT0 <= late /\ late' = late + 1
      BY <1>3 DEF Timely, SinceRead, Unhandled
    <3>. QED  BY <2>1, <3>1, TimelyNumbers
  <2>. QED  BY <1>4, <2>2, <2>3, <2>4 DEF Timely
<1>7. CASE Clock_fire
  <2>1. /\ TCNT0 = OCR0 /\ TCNT0' = 0
        /\ interval_outstanding' = interval_outstanding + OCR0 + 1
    BY <1>7, TimelyNumbers DEF Clock_fire, Period
  <2>2. interval_outstanding' # 0
    BY <2>1, TimelyNumbers
  <2>3. AlarmNear'
    BY <2>2 DEF AlarmNear, Quiet
  <2>4. ASSUME ~Unhandled PROVE Overdue'
    <3>. SUFFICES ASSUME NEW i \in mState PROVE left'[i] + late' + MaxLate + 3 >= 0
      BY <1>2 DEF Overdue
    <3>1. interval_outstanding = 0 /\ running # Handle /\ Quiet
      BY <2>4, TimelyNumbers DEF Unhandled, Quiet
    <3>2. mInterval <= mTimerList[i].ticksLeft + MaxLate + 2
      BY <3>1 DEF Timely, AlarmNear
    <3>3. /\ mTimerList[i].ticksLeft - Owing(i) = left[i]
          /\ mTimerList[i].ticksLeft \in Int /\ left[i] \in Int /\ i \in Timers
      BY <1>1, Numbers DEF Timely, Account, TicksLeftIsTrue, TypeOK
    <3>4. Owing(i) = TCNT0
      BY <1>1, <3>1, <3>3, OwingIs, TimelyNumbers
    <3>. QED  BY <1>2, <1>3, <2>1, <2>4, <3>2, <3>3, <3>4, TimelyNumbers
  <2>5. SinceRead'
    <3>. SUFFICES ASSUME running = Handle, at # "start"
                  PROVE  interval_outstanding' + TCNT0' <= late'
      BY <1>1 DEF SinceRead
    <3>1. interval_outstanding + TCNT0 <= late /\ late' = late + 1
      BY <1>3 DEF Timely, SinceRead, Unhandled
    <3>. QED  BY <2>1, <3>1, TimelyNumbers
  <2>. QED  BY <1>4, <1>5, <2>3, <2>4, <2>5 DEF Timely
<1>. QED  BY <1>6, <1>7 DEF Tick

(* Steps that change no timer and not the clock.                            *)
LEMMA TimelySame ==
  ASSUME Timely, Account', UNCHANGED <<listVars, mInterval, OCR0, TCNT0>>,
         Quiet' => Quiet, Unhandled' => Unhandled /\ late' = late, SinceRead'
  PROVE  Timely'
<1>1. mState' = mState /\ mTimerList' = mTimerList /\ left' = left
  BY DEF listVars, mState
<1>2. Regular' /\ StillToGo' /\ AlarmNear' /\ Overdue'
  BY <1>1, SameTimers, SameAlarm, SameOverdue
<1>3. AlarmInRange'
  BY DEF Timely, AlarmInRange
<1>. QED  BY <1>2, <1>3 DEF Timely

LEMMA TimelyTask ==
  ASSUME Timely, Account',
         \/ RunTask \/ TaskEnds \/ HandleReads \/ HandleChecks \/ signalOneTimer
         \/ UNCHANGED vars \/ \E t \in Tasks : PostOther(t)
  PROVE  Timely'
<1>1. UNCHANGED <<listVars, mInterval, OCR0, TCNT0>>
  BY DEF RunTask, TaskEnds, HandleReads, HandleChecks, signalOneTimer, vars, PostOther,
     timerVars, clockVars
<1>2. NoTask # Handle /\ One # Handle /\ Positions /\ Pending
  BY FifoAssumption, TimerAssumption DEF Timely, Account, IInv, One, Handle
<1>3. CASE RunTask
  <2>1. running = NoTask /\ at' = "start" /\ UNCHANGED <<interval_outstanding, late>>
    BY <1>3 DEF RunTask, RunNext, clockVars
  <2>2. running' = Handle => interval_outstanding > 0
    <3>1. FifoTypeOK /\ RunNext
      BY <1>3, TimelyNumbers DEF TypeOK, RunTask
    <3>2. running' = Handle => Queued(Handle)
      BY <3>1, RunQueue
    <3>. QED  BY <1>2, <3>2 DEF Pending
  <2>3. Quiet' => Quiet
    BY <1>2, <2>1 DEF Quiet
  <2>4. Unhandled' => Unhandled /\ late' = late
    BY <2>1, <2>2 DEF Unhandled
  <2>5. SinceRead'
    BY <2>1 DEF SinceRead
  <2>. QED  BY <1>1, <2>3, <2>4, <2>5, TimelySame
<1>4. CASE TaskEnds
  <2>1. /\ running' = NoTask /\ interval_outstanding' = interval_outstanding
        /\ late' = IF interval_outstanding = 0 THEN 0 ELSE late
    BY <1>4 DEF TaskEnds, TaskReturns
  <2>2. Quiet' => Quiet
    BY <1>2, <1>4, <2>1 DEF Quiet, TaskEnds, Positions, ClientTask
  <2>3. Unhandled' => Unhandled /\ late' = late
    BY <1>2, <2>1, TimelyNumbers DEF Unhandled
  <2>4. SinceRead'
    BY <1>2, <2>1 DEF SinceRead
  <2>. QED  BY <1>1, <2>2, <2>3, <2>4, TimelySame
<1>5. CASE HandleReads
  <2>1. /\ running = Handle /\ running' = Handle /\ at' \in {"check", "charge"}
        /\ late' = late /\ interval_outstanding' = 0 /\ TCNT0' = TCNT0
    BY <1>5 DEF HandleReads
  <2>2. TCNT0 <= late
    BY <2>1 DEF Timely, Account, IInv, CounterBelow, Unhandled
  <2>3. ~Quiet'
    BY <2>1 DEF Quiet
  <2>4. Unhandled
    BY <2>1 DEF Unhandled
  <2>5. SinceRead'
    BY <2>1, <2>2, TimelyNumbers DEF SinceRead
  <2>. QED  BY <1>1, <2>1, <2>3, <2>4, <2>5, TimelySame
<1>6. CASE HandleChecks
  <2>1. /\ running = Handle /\ at = "check" /\ at' \in {"adjust", "return"}
        /\ at' = "return" => interval_outstanding # 0
        /\ UNCHANGED <<running, clockVars>>
    BY <1>6 DEF HandleChecks
  <2>2. SinceRead'
    BY <2>1 DEF Timely, SinceRead, clockVars
  <2>3. ~Quiet'
    BY <2>1 DEF Quiet, clockVars
  <2>4. Unhandled' => Unhandled /\ late' = late
    BY <2>1 DEF Unhandled, clockVars
  <2>. QED  BY <1>1, <2>2, <2>3, <2>4, TimelySame
<1>7. CASE signalOneTimer
  <2>1. running = One /\ UNCHANGED <<running, clockVars>>
    BY <1>7 DEF signalOneTimer
  <2>. QED  BY <1>1, <1>2, <2>1, TimelySame DEF Quiet, Unhandled, SinceRead, clockVars
<1>8. CASE UNCHANGED vars \/ \E t \in Tasks : PostOther(t)
  <2>1. UNCHANGED <<running, at, clockVars>>
    BY <1>8 DEF vars, PostOther, Post
  <2>2. (Quiet' <=> Quiet) /\ (Unhandled' <=> Unhandled) /\ late' = late
    BY <2>1 DEF Quiet, Unhandled, clockVars
  <2>3. SinceRead'
    BY <2>1 DEF Timely, SinceRead, clockVars
  <2>. QED  BY <1>1, <2>2, <2>3, TimelySame
<1>. QED  BY <1>3, <1>4, <1>5, <1>6, <1>7, <1>8
-----------------------------------------------------------------------------
(* The loop of HandleFire: the timer next is the only one that changes.     *)
LEMMA TimelyLoop ==
  ASSUME Timely, Account', HandleNext, tasks' = tasks \/ Post(One), UNCHANGED running,
         mState' \subseteq mState,
         \A i \in mState' \ {next} : mTimerList'[i] = mTimerList[i] /\ left'[i] = left[i],
         next \in mState' =>
           /\ mTimerList'[next].repeat => mTimerList'[next].ticks \in Periods
           /\ mTimerList'[next].ticksLeft > 0
           /\ left'[next] + late + MaxLate + 3 >= 0
  PROVE  Timely'
<1>1. /\ running = Handle /\ at = "charge" /\ at' \in {"charge", "check"}
      /\ UNCHANGED <<running, mInterval, clockVars>>
  BY HandleNextFacts DEF Timely, Account, HandleNext
<1>2. Unhandled /\ interval_outstanding + TCNT0 <= late
  BY <1>1 DEF Timely, SinceRead, Unhandled
<1>3. Regular' /\ StillToGo'
  BY DEF Timely, Regular, StillToGo
<1>4. AlarmInRange' /\ SinceRead'
  BY <1>1, <1>2 DEF Timely, AlarmInRange, SinceRead, clockVars
<1>5. AlarmNear'
  BY <1>1 DEF AlarmNear, Quiet
<1>6. Overdue'
  <2>. SUFFICES ASSUME NEW i \in mState' PROVE left'[i] + late + MaxLate + 3 >= 0
    BY <1>1 DEF Overdue, clockVars
  <2>1. i \in mState => left[i] + late + MaxLate + 3 >= 0
    BY <1>2 DEF Timely, Overdue
  <2>. QED  BY <2>1
<1>. QED  BY <1>3, <1>4, <1>5, <1>6 DEF Timely

(* A running timer keeps its period when its ticks are counted anew.        *)
LEMMA RecountPeriod ==
  ASSUME TypeOK, NEW i \in mState, NEW n \in Int,
         mTimerList' = [mTimerList EXCEPT ![i].ticksLeft = n]
  PROVE  /\ mTimerList'[i].repeat = mTimerList[i].repeat
         /\ mTimerList'[i].ticks = mTimerList[i].ticks
<1>1. mTimerList[i] \in Running /\ DOMAIN mTimerList = mState
  BY DEF TypeOK, mState
<1>2. mTimerList'[i] = [mTimerList[i] EXCEPT !.ticksLeft = n]
  BY <1>1
<1>. QED  BY <1>1, <1>2 DEF Running

LEMMA TimelySkips == ASSUME Timely, Account', HandleSkips PROVE Timely'
<1>1. HandleNext /\ next \notin mState /\ UNCHANGED <<tasks, running, mTimerList, left>>
  BY DEF HandleSkips, listVars
<1>2. mState' = mState
  BY <1>1 DEF mState
<1>. QED  BY <1>1, <1>2, TimelyLoop

LEMMA TimelyCharges == ASSUME Timely, Account', HandleCharges PROVE Timely'
<1>1. /\ HandleNext /\ next \in mState /\ UNCHANGED <<tasks, running, left>>
      /\ mTimerList' = [mTimerList EXCEPT ![next].ticksLeft = Charged]
      /\ ~(Charged <= 2) /\ Account /\ TypeOK
  BY TimelyNumbers DEF Timely, HandleCharges, Due
<1>2. Charged \in Int
  BY <1>1, ChargedIs
<1>3. /\ mState' = mState /\ mTimerList'[next].ticksLeft = Charged
      /\ \A j \in mState \ {next} : mTimerList'[j] = mTimerList[j]
  BY <1>1, <1>2, Recount
<1>4. mTimerList'[next].repeat => mTimerList'[next].ticks \in Periods
  BY <1>1, <1>2, RecountPeriod DEF Timely, Regular
<1>5. left[next] + late + MaxLate + 3 >= 0
  <2>1. Unhandled
    BY <1>1 DEF HandleNext, Unhandled
  <2>. QED  BY <1>1, <2>1 DEF Timely, Overdue
<1>6. Charged > 0
  BY <1>1, <1>2
<1>. QED  BY <1>1, <1>3, <1>4, <1>5, <1>6, TimelyLoop

LEMMA TimelyWaits == ASSUME Timely, Account', HandleWaits PROVE Timely'
<1>1. /\ HandleNext /\ next \in mState /\ UNCHANGED <<tasks, running>>
      /\ mTimerList' = [mTimerList EXCEPT ![next].ticksLeft = mInterval]
      /\ left' = [left EXCEPT ![next] = mInterval - TCNT0 - interval_outstanding]
      /\ Account /\ TypeOK
  BY TimelyNumbers DEF Timely, HandleWaits
<1>2. mInterval \in Int
  BY TimelyNumbers
<1>3. /\ mState' = mState /\ mTimerList'[next].ticksLeft = mInterval
      /\ \A j \in mState \ {next} : mTimerList'[j] = mTimerList[j]
  BY <1>1, <1>2, Recount
<1>4. mTimerList'[next].repeat => mTimerList'[next].ticks \in Periods
  BY <1>1, <1>2, RecountPeriod DEF Timely, Regular
<1>5. /\ left'[next] = mInterval - TCNT0 - interval_outstanding
      /\ \A j \in mState \ {next} : left'[j] = left[j]
  BY <1>1 DEF TypeOK
<1>6. interval_outstanding + TCNT0 <= late
  BY <1>1 DEF Timely, SinceRead, HandleNext
<1>7. left'[next] + late + MaxLate + 3 >= 0 /\ mInterval > 0
  BY <1>5, <1>6, TimelyNumbers
<1>. QED  BY <1>1, <1>3, <1>4, <1>5, <1>7, TimelyLoop

(* A timer that is due is due again only after most of its period.          *)
LEMMA Renewed ==
  ASSUME Timely, LongPeriods, HandleExpires, next \in mState'
  PROVE  /\ mTimerList'[next].repeat /\ mTimerList'[next].ticks \in Periods
         /\ mTimerList'[next].ticksLeft > 0
         /\ left'[next] + late > MaxLate + 2
<1>1. /\ HandleNext /\ next \in mState /\ Post(One) /\ running' = running
      /\ Account /\ IInv /\ TypeOK /\ Unhandled
  BY TimelyNumbers DEF Timely, Account, HandleExpires, Post, Unhandled, HandleNext
<1>2. /\ mState' = IF Entry.repeat THEN mState ELSE mState \ {next}
      /\ mTimerList'[next].ticksLeft = Charged + Entry.ticks
      /\ left'[next] = left[next] + Entry.ticks
  BY <1>1, DueTimer
<1>3. Entry.repeat /\ Entry.ticks \in Periods
  BY <1>1, <1>2 DEF Timely, Regular, Entry
<1>4. /\ Charged \in Int /\ Entry.ticks \in Int /\ left[next] \in Int
      /\ Charged - (interval_outstanding + TCNT0) = left[next]
  BY <1>1, ChargedIs
<1>5. mTimerList' = [mTimerList EXCEPT ![next].ticksLeft = Charged + Entry.ticks]
  BY <1>3 DEF HandleExpires
<1>6. mTimerList'[next].repeat /\ mTimerList'[next].ticks \in Periods
  BY <1>1, <1>3, <1>4, <1>5, RecountPeriod DEF Entry
<1>7. left[next] + late + MaxLate + 3 >= 0
  BY <1>1 DEF Timely, Overdue
<1>8. 2 * MaxLate + 5 < Entry.ticks
  BY <1>3 DEF LongPeriods
<1>9. left'[next] + late > MaxLate + 2
  BY <1>2, <1>4, <1>7, <1>8, TimelyNumbers
<1>10. Charged + Entry.ticks > 0
  BY <1>4, <1>7, <1>8, TimelyNumbers
<1>. QED  BY <1>2, <1>6, <1>9, <1>10

LEMMA TimelyExpires == ASSUME Timely, Account', LongPeriods, HandleExpires PROVE Timely'
<1>1. HandleNext /\ Post(One) /\ running' = running /\ IInv
  BY DEF Timely, Account, HandleExpires, Post
<1>2. /\ mState' \subseteq mState
      /\ \A j \in mState' \ {next} : mTimerList'[j] = mTimerList[j] /\ left'[j] = left[j]
  BY <1>1, DueTimer
<1>3. next \in mState' => left'[next] + late + MaxLate + 3 >= 0
  <2>1. next \in mState' => left'[next] \in Int
    BY Numbers DEF Account, IInv, TypeOK
  <2>. QED  BY <2>1, Renewed, TimelyNumbers
<1>. QED  BY <1>1, <1>2, <1>3, Renewed, TimelyLoop

(* adjustInterval sets the clock to the first timer, or three ticks ahead.  *)
LEMMA TimelyAdjust == ASSUME Timely, Account', adjustInterval PROVE Timely'
<1>1. /\ TypeOK /\ running = Handle /\ at = "adjust" /\ at' = "return"
      /\ UNCHANGED <<running, listVars, interval_outstanding, TCNT0, late>>
  BY TimelyNumbers DEF adjustInterval
<1>2. PICK val \in 0 .. Turn - 1 :
        Earliest(val) /\ mInterval' = Adjusted(val) /\ OCR0' = Adjusted(val)
  BY DEF adjustInterval
<1>3. mState' = mState /\ mTimerList' = mTimerList /\ left' = left
  BY <1>1 DEF listVars, mState
<1>4. \A i \in mState : mTimerList[i].ticksLeft \in Int /\ mTimerList[i].ticksLeft > 0
  BY <1>1, Numbers DEF Timely, StillToGo
<1>5. Negative = {} /\ Compared = mState
  BY <1>4 DEF Negative, Compared
<1>6. Candidates = {mTimerList[i].ticksLeft : i \in mState} \cup {maxTimerInterval}
  BY <1>5 DEF Candidates
<1>7. /\ val > 0 /\ val <= maxTimerInterval
      /\ \A i \in mState : val <= mTimerList[i].ticksLeft
  BY <1>2, <1>4, <1>6, TimelyNumbers DEF Earliest
<1>8. TCNT0 <= MaxLate
  BY <1>1, TimelyNumbers DEF Timely, Account, IInv, CounterBelow, Unhandled
<1>9. AlarmInRange'
  BY <1>2, <1>7, <1>8, TimelyNumbers DEF AlarmInRange, Adjusted
<1>10. AlarmNear'
  <2>. SUFFICES ASSUME NEW i \in mState
                PROVE  /\ Adjusted(val) <= mTimerList[i].ticksLeft + MaxLate + 2
                       /\ \/ Adjusted(val) <= mTimerList[i].ticksLeft
                          \/ Adjusted(val) <= TCNT0 + 3
    BY <1>1, <1>2, <1>3 DEF AlarmNear
  <2>. QED  BY <1>4, <1>7, <1>8, TimelyNumbers DEF Adjusted
<1>11. Regular' /\ StillToGo'
  BY <1>3, SameTimers
<1>12. Overdue'
  BY <1>1, <1>3, SameOverdue DEF Unhandled
<1>13. SinceRead'
  BY <1>1 DEF Timely, SinceRead
<1>. QED  BY <1>9, <1>10, <1>11, <1>12, <1>13 DEF Timely

LEMMA TimelyStep ==
  ASSUME Timely, LongPeriods, StartsLate = FALSE, [Next]_vars
  PROVE  Timely'
<1>1. Account'
  BY StepAccount DEF Timely
<1>. QED
  BY <1>1, TimelyStart, TimelyStop, TimelyTick, TimelyTask, TimelySkips, TimelyCharges,
     TimelyWaits, TimelyExpires, TimelyAdjust
  DEF Next, TaskStep, ClientStep

(* The clock interrupts before a timer is due, or within three ticks, and   *)
(* never counts a whole turn first (TimerM.nc:82 and :115), when periods    *)
(* are longer than twice the lateness and no timer is started meanwhile.    *)
THEOREM AlarmSetAlways ==
  ASSUME LongPeriods, StartsLate = FALSE
  PROVE  Safety => []AlarmSet
<1>1. Init => Timely
  BY InitTimely
<1>2. Timely /\ [Next]_vars => Timely'
  BY TimelyStep
<1>3. Timely => AlarmSet
  BY TimelyAlarm
<1>. QED  BY <1>1, <1>2, <1>3, PTL DEF Safety
-----------------------------------------------------------------------------
(* The ring of the timers that are due.                                     *)
Slot(k) == (queue_head + k) % NUM_TIMERS

RingInOrder ==
  /\ After(queue_tail) = Slot(queue_size + 1)
  /\ \A k \in 1 .. queue_size : queue[Slot(k)] = expired[k].timer

NoneTwice ==
  \A j, k \in 1 .. queue_size : expired[j].timer = expired[k].timer => j = k

(* How many of the first m tasks are signalOneTimer.                        *)
Count(q, m) == Cardinality({k \in 1 .. m : q[k] = One})

OnesCounted == Count(tasks, Len(tasks)) = queue_size - Starting

(* A timer that HandleFire would not find due while this interrupt waits.   *)
Fresh(i) == i \in mState => left[i] + late > MaxLate + 2

(* HandleFire may overtake a signalOneTimer only while its timer is fresh.  *)
BehindFresh ==
  /\ running = Handle => \A k \in 1 .. queue_size : Fresh(expired[k].timer)
  /\ \A m \in 1 .. Len(tasks) : tasks[m] = Handle =>
       \A k \in 1 .. queue_size :
         k > Count(tasks, m) + Starting => Fresh(expired[k].timer)

Ringed == Timely /\ RingInOrder /\ NoneTwice /\ OnesCounted /\ BehindFresh
-----------------------------------------------------------------------------
LEMMA ModIs ==
  ASSUME NEW M \in Nat \ {0}, NEW n \in 0 .. 2 * M
  PROVE  n % M = IF n < M THEN n ELSE IF n < 2 * M THEN n - M ELSE 0
<1>1. CASE n < M
  BY <1>1
<1>2. CASE n >= M /\ n < 2 * M
  BY <1>2
<1>3. CASE n = 2 * M
  BY <1>3
<1>. QED  BY <1>1, <1>2, <1>3

(* The slots of the ring, for a head h.                                     *)
LEMMA SlotIs ==
  ASSUME NEW h \in -1 .. NUM_TIMERS - 1, NEW k \in 1 .. NUM_TIMERS + 1
  PROVE  (h + k) % NUM_TIMERS =
           IF h + k < NUM_TIMERS THEN h + k
           ELSE IF h + k < 2 * NUM_TIMERS THEN h + k - NUM_TIMERS ELSE 0
<1>1. NUM_TIMERS \in Nat \ {0}
  BY TimerAssumption
<1>2. h + k \in 0 .. 2 * NUM_TIMERS
  BY <1>1
<1>3. PICK n \in 0 .. 2 * NUM_TIMERS : n = h + k
  BY <1>2
<1>4. n % NUM_TIMERS =
        IF n < NUM_TIMERS THEN n ELSE IF n < 2 * NUM_TIMERS THEN n - NUM_TIMERS ELSE 0
  BY <1>1, ModIs
<1>5. (h + k) % NUM_TIMERS = n % NUM_TIMERS
  BY <1>3, Zenon
<1>. QED  BY <1>1, <1>3, <1>4, <1>5

(* The next slot, the slots when the head has moved on, two slots of a lap. *)
LEMMA SlotsFacts ==
  ASSUME NEW h \in -1 .. NUM_TIMERS - 1, NEW k \in 1 .. NUM_TIMERS
  PROVE  /\ (h + k) % NUM_TIMERS \in Timers
         /\ After((h + k) % NUM_TIMERS) = (h + (k + 1)) % NUM_TIMERS
         /\ (After(h) + k) % NUM_TIMERS = (h + (k + 1)) % NUM_TIMERS
         /\ \A j \in 1 .. NUM_TIMERS :
              (h + j) % NUM_TIMERS = (h + k) % NUM_TIMERS => j = k
<1>1. NUM_TIMERS \in Nat \ {0}
  BY TimerAssumption
<1>. DEFINE N == NUM_TIMERS
<1>2. /\ k + 1 \in 1 .. N + 1 /\ k \in 1 .. N + 1
      /\ After(h) \in -1 .. N - 1 /\ After(h) = IF h = N - 1 THEN 0 ELSE h + 1
  BY <1>1 DEF After
<1>3. (h + k) % N = IF h + k < N THEN h + k ELSE h + k - N
  <2>1. (h + k) % N =
          IF h + k < N THEN h + k ELSE IF h + k < 2 * N THEN h + k - N ELSE 0
    BY <1>2, SlotIs, Zenon
  <2>2. h + k < 2 * N
    BY <1>1
  <2>. QED  BY <2>1, <2>2, Zenon
<1>4. (h + (k + 1)) % N =
        IF h + (k + 1) < N THEN h + (k + 1)
        ELSE IF h + (k + 1) < 2 * N THEN h + (k + 1) - N ELSE 0
  BY <1>2, SlotIs, Zenon
<1>5. (After(h) + k) % N =
        IF After(h) + k < N THEN After(h) + k
        ELSE IF After(h) + k < 2 * N THEN After(h) + k - N ELSE 0
  BY <1>2, SlotIs, Zenon
<1>6. (h + k) % N \in Timers
  BY <1>1, <1>3 DEF Timers
<1>7. After((h + k) % N) = (h + (k + 1)) % N
  BY <1>1, <1>3, <1>4 DEF After
<1>8. (After(h) + k) % N = (h + (k + 1)) % N
  BY <1>1, <1>2, <1>4, <1>5
<1>9. ASSUME NEW j \in 1 .. N, (h + j) % N = (h + k) % N
      PROVE  j = k
  <2>1. j \in 1 .. N + 1
    BY <1>1
  <2>2. (h + j) % N = IF h + j < N THEN h + j ELSE h + j - N
    <3>1. (h + j) % N =
            IF h + j < N THEN h + j ELSE IF h + j < 2 * N THEN h + j - N ELSE 0
      BY <2>1, SlotIs, Zenon
    <3>2. h + j < 2 * N
      BY <1>1
    <3>. QED  BY <3>1, <3>2, Zenon
  <2>. QED  BY <1>1, <1>3, <1>9, <2>2
<1>. QED  BY <1>6, <1>7, <1>8, <1>9

(* No more timers are in the ring than there are.                           *)
LEMMA RingBounded ==
  ASSUME NEW n \in Nat, NEW f \in [1 .. n -> Timers],
         \A j, k \in 1 .. n : f[j] = f[k] => j = k
  PROVE  n <= NUM_TIMERS
<1>1. NUM_TIMERS \in Nat \ {0} /\ 0 \in Int /\ 1 \in Int /\ n \in Int /\ NUM_TIMERS - 1 \in Int
  BY TimerAssumption
<1>2. /\ IsFiniteSet(0 .. NUM_TIMERS - 1)
      /\ Cardinality(0 .. NUM_TIMERS - 1) =
           IF 0 > NUM_TIMERS - 1 THEN 0 ELSE (NUM_TIMERS - 1) - 0 + 1
  BY <1>1, FS_Interval
<1>3. IsFiniteSet(Timers) /\ Cardinality(Timers) = NUM_TIMERS
  BY <1>1, <1>2 DEF Timers
<1>4. /\ IsFiniteSet(1 .. n)
      /\ Cardinality(1 .. n) = IF 1 > n THEN 0 ELSE n - 1 + 1
  BY <1>1, FS_Interval
<1>5. Cardinality(1 .. n) = n
  BY <1>4
<1>6. f \in Injection(1 .. n, Timers)
  BY DEF Injection, IsInjective
<1>. QED  BY <1>3, <1>5, <1>6, FS_Injection
-----------------------------------------------------------------------------
LEMMA CountType ==
  ASSUME NEW q, NEW m \in Nat
  PROVE  IsFiniteSet({k \in 1 .. m : q[k] = One}) /\ Count(q, m) \in Nat
<1>1. 1 \in Int /\ m \in Int
  OBVIOUS
<1>2. IsFiniteSet(1 .. m)
  BY <1>1, FS_Interval
<1>3. IsFiniteSet({k \in 1 .. m : q[k] = One})
  BY <1>2, FS_Subset
<1>. QED  BY <1>3, FS_CardinalityType DEF Count

LEMMA CountNat == ASSUME NEW q, NEW m \in Nat PROVE Count(q, m) \in Nat
BY CountType

(* A post counts at the end, and leaves the tasks before it.                *)
LEMMA CountPost ==
  ASSUME NEW q \in Seq(Tasks), NEW t
  PROVE  /\ \A m \in 0 .. Len(q) : Count(Append(q, t), m) = Count(q, m)
         /\ Count(Append(q, t), Len(q) + 1) =
              Count(q, Len(q)) + IF t = One THEN 1 ELSE 0
<1>. DEFINE p == Append(q, t)
<1>1. /\ Len(q) \in Nat /\ p[Len(q) + 1] = t
      /\ \A k \in 1 .. Len(q) : p[k] = q[k]
  OBVIOUS
<1>. HIDE DEF p
<1>2. ASSUME NEW m \in 0 .. Len(q) PROVE Count(p, m) = Count(q, m)
  <2>1. {k \in 1 .. m : p[k] = One} = {k \in 1 .. m : q[k] = One}
    BY <1>1
  <2>. QED  BY <2>1 DEF Count
<1>. DEFINE A == {k \in 1 .. Len(q) : q[k] = One}
            B == {k \in 1 .. Len(q) + 1 : p[k] = One}
<1>3. IsFiniteSet(A) /\ Cardinality(A) \in Nat /\ Len(q) + 1 \notin A
  <2>1. Len(q) + 1 \notin A
    BY <1>1
  <2>. QED  BY <1>1, <2>1, CountType DEF Count
<1>4. B = IF t = One THEN A \cup {Len(q) + 1} ELSE A
  BY <1>1
<1>5. Cardinality(B) = Cardinality(A) + IF t = One THEN 1 ELSE 0
  <2>1. CASE t = One
    <3>1. B = A \cup {Len(q) + 1}
      BY <1>4, <2>1
    <3>2. Cardinality(B) = Cardinality(A) + 1
      BY <1>3, <3>1, FS_AddElement
    <3>. QED  BY <2>1, <3>2
  <2>2. CASE t # One
    <3>1. B = A
      BY <1>4, <2>2
    <3>2. Cardinality(B) = Cardinality(A)
      BY <3>1
    <3>. QED  BY <1>3, <2>2, <3>2
  <2>. QED  BY <2>1, <2>2
<1>. QED  BY <1>2, <1>5 DEF Count, p

(* The task that is run counted first.                                      *)
LEMMA CountRun ==
  ASSUME NEW q \in Seq(Tasks), NEW m \in 1 .. Len(q)
  PROVE  Count(q, m) = Count(Tail(q), m - 1) + IF q[1] = One THEN 1 ELSE 0
<1>. DEFINE p == Tail(q)
<1>1. /\ m \in Nat /\ m - 1 \in Nat /\ 1 \in 1 .. m
      /\ \A k \in 1 .. m - 1 : p[k] = q[k + 1]
  BY HeadTailProperties
<1>. HIDE DEF p
<1>. DEFINE A == {k \in 1 .. m : q[k] = One}
            B == {k \in 1 .. m - 1 : p[k] = One}
            f == [k \in B |-> k + 1]
<1>2. IsFiniteSet(A) /\ IsFiniteSet(B)
  BY <1>1, CountType
<1>3. f \in Bijection(B, A \ {1})
  <2>1. \A k \in B : k + 1 \in A \ {1}
    BY <1>1
  <2>2. \A k \in A \ {1} : k - 1 \in B /\ (k - 1) + 1 = k
    BY <1>1
  <2>3. f \in [B -> A \ {1}]
    BY <2>1
  <2>4. \A j, k \in B : f[j] = f[k] => j = k
    OBVIOUS
  <2>5. \A k \in A \ {1} : \E j \in B : f[j] = k
    BY <2>2
  <2>. QED  BY <2>3, <2>4, <2>5 DEF Bijection, Injection, Surjection, IsInjective
<1>4. Cardinality(A \ {1}) = Cardinality(B)
  <2>1. ExistsBijection(B, A \ {1})
    BY <1>3 DEF ExistsBijection
  <2>. QED  BY <1>2, <2>1, FS_Bijection
<1>5. Cardinality(A \ {1}) = IF 1 \in A THEN Cardinality(A) - 1 ELSE Cardinality(A)
  BY <1>2, FS_RemoveElement
<1>6. Cardinality(A) \in Nat /\ Cardinality(B) \in Nat
  BY <1>2, FS_CardinalityType
<1>7. 1 \in A <=> q[1] = One
  BY <1>1
<1>8. Cardinality(A) = Cardinality(B) + IF q[1] = One THEN 1 ELSE 0
  BY <1>4, <1>5, <1>6, <1>7
<1>. QED  BY <1>8 DEF Count, p
-----------------------------------------------------------------------------
LEMMA RingedNumbers ==
  ASSUME Ringed
  PROVE  /\ TypeOK /\ Account /\ IInv /\ Pending /\ Positions
         /\ NUM_TIMERS \in Nat \ {0} /\ queue_size \in Nat /\ queue_size = Len(expired)
         /\ queue_head \in -1 .. NUM_TIMERS - 1
         /\ tasks \in Seq(Tasks) /\ Len(tasks) \in Nat
         /\ \A k \in 1 .. queue_size : expired[k] \in [timer : Timers, repeat : BOOLEAN]
         /\ \A k \in 1 .. queue_size : expired[k].timer \in Timers
         /\ Starting \in {0, 1} /\ One # Handle /\ NoTask # One /\ NoTask # Handle
<1>1. TypeOK /\ Account /\ IInv /\ Pending /\ Positions /\ queue_size = Len(expired)
  BY TimelyNumbers DEF Ringed, Timely, Account, IInv, RingCounted
<1>2. \A k \in 1 .. queue_size : expired[k] \in [timer : Timers, repeat : BOOLEAN]
  <2>. DEFINE S == [timer : Timers, repeat : BOOLEAN]
  <2>1. expired \in Seq(S)
    BY <1>1 DEF TypeOK
  <2>. HIDE DEF S
  <2>2. \A k \in 1 .. Len(expired) : expired[k] \in S
    BY <2>1
  <2>. QED  BY <1>1, <2>2 DEF S
<1>3. \A k \in 1 .. queue_size : expired[k].timer \in Timers
  BY <1>2
<1>4. One # Handle /\ NoTask # One /\ NoTask # Handle
  BY FifoAssumption, TimerAssumption DEF One, Handle
<1>5. /\ queue_size \in Nat /\ queue_head \in -1 .. NUM_TIMERS - 1
      /\ tasks \in Seq(Tasks) /\ Len(tasks) \in Nat
  BY <1>1 DEF TypeOK, FifoTypeOK
<1>. QED  BY <1>1, <1>2, <1>3, <1>4, <1>5, Numbers DEF Starting

LEMMA RingHasRoom == ASSUME Ringed PROVE queue_size <= NUM_TIMERS
<1>. DEFINE f == [k \in 1 .. queue_size |-> expired[k].timer]
<1>1. f \in [1 .. queue_size -> Timers] /\ queue_size \in Nat
  BY RingedNumbers
<1>2. \A j, k \in 1 .. queue_size : f[j] = f[k] => j = k
  BY DEF Ringed, NoneTwice
<1>. QED  BY <1>1, <1>2, RingBounded

(* The ring holds the timers that expired, with a task for each.            *)
LEMMA RingedFirings == ASSUME Ringed PROVE FiringsKept
<1>1. queue_size = Len(expired) /\ queue_size \in Nat
  BY RingedNumbers
<1>2. \A k \in 1 .. queue_size : queue[(queue_head + k) % NUM_TIMERS] = expired[k].timer
  BY DEF Ringed, RingInOrder, Slot
<1>3. InRing = [k \in 1 .. Len(expired) |-> expired[k].timer]
  BY <1>1, <1>2 DEF InRing
<1>4. Cardinality(Ones) = queue_size - Starting
  BY DEF Ringed, OnesCounted, Count, Ones
<1>. QED  BY <1>3, <1>4, RingHasRoom DEF FiringsKept

LEMMA InitRinged == Init => Ringed
<1>. SUFFICES ASSUME Init PROVE Ringed
  OBVIOUS
<1>1. /\ Timely /\ tasks = <<>> /\ queue_size = 0 /\ queue_head = -1 /\ queue_tail = -1
      /\ running = NoTask /\ NUM_TIMERS \in Nat \ {0}
  BY InitTimely, TimerAssumption DEF Init, FifoInit
<1>2. NoTask # Handle /\ NoTask # One
  BY FifoAssumption, TimerAssumption DEF Handle, One
<1>3. RingInOrder
  <2>1. After(-1) = 0
    BY <1>1 DEF After
  <2>2. (-1 + (0 + 1)) % NUM_TIMERS = 0
    BY <1>1
  <2>. QED  BY <1>1, <2>1, <2>2 DEF RingInOrder, Slot
<1>4. NoneTwice
  BY <1>1 DEF NoneTwice
<1>5. OnesCounted
  <2>1. {k \in 1 .. Len(tasks) : tasks[k] = One} = {}
    BY <1>1
  <2>2. Starting = 0
    BY <1>1, <1>2 DEF Starting
  <2>. QED  BY <1>1, <2>1, <2>2, FS_EmptySet DEF OnesCounted, Count
<1>6. BehindFresh
  BY <1>1, <1>2 DEF BehindFresh
<1>. QED  BY <1>1, <1>3, <1>4, <1>5, <1>6 DEF Ringed
-----------------------------------------------------------------------------
LEMMA SameRing == ASSUME Ringed, UNCHANGED ringVars PROVE RingInOrder' /\ NoneTwice'
BY DEF Ringed, RingInOrder, NoneTwice, Slot, ringVars

LEMMA SameCount ==
  ASSUME Ringed, UNCHANGED <<tasks, queue_size>>, Starting' = Starting
  PROVE  OnesCounted'
BY DEF Ringed, OnesCounted, Count

(* Nothing that is fresh stops being so but when the interrupt is handled.  *)
LEMMA StaysFresh ==
  ASSUME Ringed, Timely', mState' \subseteq mState,
         \/ late' = late /\ \A j \in mState' : left'[j] = left[j]
         \/ late' = late + 1 /\ \A j \in mState' : left'[j] = left[j] - 1,
         NEW i, Fresh(i)
  PROVE  Fresh(i)'
<1>. SUFFICES ASSUME i \in mState' PROVE left'[i] + late' > MaxLate + 2
  BY DEF Fresh
<1>1. left[i] + late > MaxLate + 2 /\ left[i] \in Int /\ late \in Nat /\ MaxLate \in Nat
  BY Numbers, RingedNumbers, TimelyNumbers DEF Fresh, Ringed
<1>2. CASE late' = late /\ \A j \in mState' : left'[j] = left[j]
  BY <1>1, <1>2
<1>3. CASE late' = late + 1 /\ \A j \in mState' : left'[j] = left[j] - 1
  BY <1>1, <1>3
<1>. QED  BY <1>2, <1>3

(* Steps that leave the tasks and the ring alone.                           *)
LEMMA RingedSame ==
  ASSUME Ringed, Timely', UNCHANGED <<tasks, ringVars>>, Starting' = Starting,
         running' = Handle => running = Handle,
         running' = Handle \/ Queued(Handle) =>
           /\ mState' \subseteq mState
           /\ \/ late' = late /\ \A j \in mState' : left'[j] = left[j]
              \/ late' = late + 1 /\ \A j \in mState' : left'[j] = left[j] - 1
  PROVE  Ringed'
<1>1. RingInOrder' /\ NoneTwice' /\ OnesCounted'
  BY SameRing, SameCount DEF ringVars
<1>2. queue_size' = queue_size /\ expired' = expired /\ tasks' = tasks
  BY DEF ringVars
<1>3. ASSUME running' = Handle, NEW k \in 1 .. queue_size
      PROVE  Fresh(expired[k].timer)'
  <2>1. Fresh(expired[k].timer)
    BY <1>3 DEF Ringed, BehindFresh
  <2>. DEFINE i == expired[k].timer
  <2>2. \A j : Fresh(j) => Fresh(j)'
    BY <1>3, StaysFresh
  <2>. QED  BY <1>2, <2>1, <2>2 DEF Fresh
<1>4. ASSUME NEW m \in 1 .. Len(tasks), tasks[m] = Handle, NEW k \in 1 .. queue_size,
             k > Count(tasks, m) + Starting
      PROVE  Fresh(expired[k].timer)'
  <2>1. Fresh(expired[k].timer)
    BY <1>4 DEF Ringed, BehindFresh
  <2>2. Queued(Handle)
    BY <1>4 DEF Queued
  <2>3. \A j : Fresh(j) => Fresh(j)'
    BY <2>2, StaysFresh
  <2>. QED  BY <1>2, <2>1, <2>3 DEF Fresh
<1>5. BehindFresh'
  BY <1>2, <1>3, <1>4 DEF BehindFresh, Count
<1>. QED  BY <1>1, <1>5 DEF Ringed

(* Posts of other tasks than signalOneTimer.                                *)
LEMMA RingedPost ==
  ASSUME Ringed, Timely', NEW t \in Tasks \ {One}, Post(t), UNCHANGED <<ringVars, at>>,
         running = Handle \/ Queued(Handle) =>
           /\ mState' \subseteq mState
           /\ \/ late' = late /\ \A j \in mState' : left'[j] = left[j]
              \/ late' = late + 1 /\ \A j \in mState' : left'[j] = left[j] - 1
  PROVE  Ringed'
<1>1. /\ tasks' = Append(tasks, t) /\ running' = running /\ Starting' = Starting
      /\ queue_size' = queue_size /\ expired' = expired
  BY DEF Post, Starting, ringVars
<1>2. /\ tasks \in Seq(Tasks) /\ Len(tasks) \in Nat /\ Len(tasks') = Len(tasks) + 1
      /\ tasks'[Len(tasks) + 1] = t /\ \A m \in 1 .. Len(tasks) : tasks'[m] = tasks[m]
  BY <1>1, RingedNumbers
<1>3. /\ \A m \in 0 .. Len(tasks) : Count(tasks', m) = Count(tasks, m)
      /\ Count(tasks', Len(tasks) + 1) = Count(tasks, Len(tasks))
  <2>1. Count(tasks, Len(tasks)) \in Nat
    BY <1>2, CountType
  <2>. QED  BY <1>1, <1>2, <2>1, CountPost
<1>4. RingInOrder' /\ NoneTwice'
  BY SameRing
<1>5. Count(tasks, Len(tasks)) = queue_size - Starting
  BY DEF Ringed, OnesCounted
<1>6. OnesCounted'
  BY <1>1, <1>2, <1>3, <1>5 DEF OnesCounted
<1>7. ASSUME running = Handle, NEW k \in 1 .. queue_size
      PROVE  Fresh(expired[k].timer)'
  <2>1. Fresh(expired[k].timer)
    BY <1>7 DEF Ringed, BehindFresh
  <2>2. \A j : Fresh(j) => Fresh(j)'
    BY <1>7, StaysFresh
  <2>. QED  BY <1>1, <2>1, <2>2 DEF Fresh
<1>8. ASSUME NEW m \in 1 .. Len(tasks'), tasks'[m] = Handle, NEW k \in 1 .. queue_size,
             k > Count(tasks', m) + Starting
      PROVE  Fresh(expired[k].timer)'
  <2>1. m # Len(tasks) + 1
    BY <1>3, <1>5, <1>8, RingedNumbers
  <2>2. m \in 1 .. Len(tasks) /\ tasks[m] = Handle /\ k > Count(tasks, m) + Starting
    BY <1>2, <1>3, <1>8, <2>1
  <2>3. Fresh(expired[k].timer) /\ Queued(Handle)
    BY <2>2 DEF Ringed, BehindFresh, Queued
  <2>4. \A j : Fresh(j) => Fresh(j)'
    BY <2>3, StaysFresh
  <2>. QED  BY <1>1, <2>3, <2>4 DEF Fresh
<1>9. BehindFresh'
  BY <1>1, <1>7, <1>8 DEF BehindFresh
<1>. QED  BY <1>4, <1>6, <1>9 DEF Ringed

LEMMA RingedClient ==
  ASSUME Ringed, Timely', StartsLate = FALSE, ClientStep
  PROVE  Ringed'
<1>1. CASE \E i \in Timers : Started(i)
  <2>1. /\ UNCHANGED <<tasks, running, at, ringVars>> /\ interval_outstanding = 0
        /\ running # Handle
    BY <1>1, RingedNumbers
    DEF Started, Timer_start, ClientRuns, ClientTask, Positions, One, Handle
  <2>2. ~Queued(Handle)
    BY <2>1, RingedNumbers DEF Pending
  <2>. QED  BY <2>1, <2>2, RingedSame DEF Starting
<1>2. CASE StdControl_stop \/ \E i \in Timers : Timer_stop(i)
  <2>1. UNCHANGED <<tasks, running, at, ringVars, clockVars>>
    BY <1>2 DEF StdControl_stop, Timer_stop
  <2>2. mState' \subseteq mState /\ \A j \in mState' : left'[j] = left[j]
    <3>1. ASSUME NEW i \in Timers, Timer_stop(i)
          PROVE  mState' \subseteq mState /\ \A j \in mState' : left'[j] = left[j]
      BY <3>1, RingedNumbers, ClearTimer DEF Timer_stop
    <3>2. CASE StdControl_stop
      BY <3>2 DEF StdControl_stop, mState
    <3>. QED  BY <1>2, <3>1, <3>2
  <2>. QED  BY <2>1, <2>2, RingedSame DEF Starting, clockVars
<1>3. ASSUME NEW t \in Tasks, PostOther(t) PROVE Ringed'
  <2>1. t \in Tasks \ {One} /\ Post(t) /\ UNCHANGED <<ringVars, at, listVars, clockVars>>
    BY <1>3 DEF PostOther, timerVars
  <2>2. mState' = mState /\ late' = late /\ left' = left
    BY <2>1 DEF mState, listVars, clockVars
  <2>. QED  BY <2>1, <2>2, RingedPost
<1>. QED  BY <1>1, <1>2, <1>3 DEF ClientStep

LEMMA RingedTick == ASSUME Ringed, Timely', Tick PROVE Ringed'
<1>1. TypeOK /\ TimePasses /\ UNCHANGED <<mTimerList, at, ringVars>>
  BY RingedNumbers DEF Tick, ClockCounts, Clock_fire
<1>2. mState' = mState /\ \A j \in mState : left'[j] = left[j] - 1
  BY <1>1, PassingTime
<1>3. running = Handle \/ Queued(Handle) => late' = late + 1
  <2>1. running = Handle \/ Queued(Handle) => Unhandled
    BY RingedNumbers DEF Pending, Unhandled
  <2>. QED  BY <1>1, <2>1 DEF TimePasses
<1>4. CASE UNCHANGED <<tasks, running>>
  BY <1>1, <1>2, <1>3, <1>4, RingedSame DEF Starting
<1>5. CASE Post(Handle)
  <2>1. Handle \in Tasks \ {One}
    BY TimerAssumption, RingedNumbers
  <2>. QED  BY <1>1, <1>2, <1>3, <1>5, <2>1, RingedPost
<1>. QED  BY <1>4, <1>5 DEF Tick, ClockCounts, Clock_fire, PostHandle

LEMMA RingedHandle ==
  ASSUME Ringed, Timely',
         \/ HandleReads \/ HandleSkips \/ HandleCharges \/ HandleChecks \/ adjustInterval
         \/ UNCHANGED vars
  PROVE  Ringed'
<1>1. UNCHANGED <<tasks, running, left, late, ringVars>>
  BY DEF HandleReads, HandleSkips, HandleCharges, HandleChecks, adjustInterval, HandleNext,
     vars, timerVars, listVars, clockVars
<1>2. mState' = mState
  <2>1. TypeOK /\ TypeOK'
    BY RingedNumbers DEF Timely, Account, IInv
  <2>. QED  BY <1>1, <2>1 DEF TypeOK
<1>3. Starting' = Starting
  BY <1>1, RingedNumbers DEF Starting, HandleReads, HandleSkips, HandleCharges, HandleChecks,
     adjustInterval, HandleNext, vars
<1>. QED  BY <1>1, <1>2, <1>3, RingedSame
-----------------------------------------------------------------------------
LEMMA RingedRun == ASSUME Ringed, Timely', RunTask PROVE Ringed'
<1>1. /\ running = NoTask /\ tasks # <<>> /\ running' = Head(tasks) /\ tasks' = Tail(tasks)
      /\ at' = "start" /\ UNCHANGED <<listVars, ringVars, clockVars>>
  BY DEF RunTask, RunNext, timerVars
<1>2. /\ tasks \in Seq(Tasks) /\ Len(tasks) \in Nat \ {0} /\ Len(tasks') = Len(tasks) - 1
      /\ running' = tasks[1] /\ \A m \in 1 .. Len(tasks') : tasks'[m] = tasks[m + 1]
  BY <1>1, RingedNumbers, HeadTailProperties
<1>3. Starting = 0 /\ Starting' = IF tasks[1] = One THEN 1 ELSE 0
  BY <1>1, <1>2, RingedNumbers DEF Starting
<1>4. \A m \in 1 .. Len(tasks) : Count(tasks, m) = Count(tasks', m - 1) + Starting'
  BY <1>1, <1>2, <1>3, CountRun
<1>5. /\ queue_size' = queue_size /\ expired' = expired /\ left' = left /\ late' = late
      /\ mState' = mState
  BY <1>1 DEF ringVars, listVars, clockVars, mState
<1>6. \A i : Fresh(i)' <=> Fresh(i)
  BY <1>5 DEF Fresh
<1>7. Count(tasks', Len(tasks')) \in Nat
  BY <1>2, CountNat
<1>8. OnesCounted'
  <2>1. Count(tasks, Len(tasks)) = Count(tasks', Len(tasks')) + Starting'
    BY <1>2, <1>4
  <2>2. Count(tasks, Len(tasks)) = queue_size
    BY <1>3, RingedNumbers DEF Ringed, OnesCounted
  <2>. QED  BY <1>3, <1>5, <1>7, <2>1, <2>2 DEF OnesCounted
<1>9. ASSUME tasks[1] = Handle, NEW k \in 1 .. queue_size PROVE Fresh(expired[k].timer)
  <2>1. Count(tasks, 1) = 0
    <3>1. {j \in 1 .. 1 : tasks[j] = One} = {}
      BY <1>9, RingedNumbers
    <3>. QED  BY <3>1, FS_EmptySet DEF Count
  <2>2. 1 \in 1 .. Len(tasks) /\ k > Count(tasks, 1) + Starting
    BY <1>2, <1>3, <2>1
  <2>. QED  BY <1>9, <2>2 DEF Ringed, BehindFresh
<1>10. ASSUME NEW m \in 1 .. Len(tasks'), tasks'[m] = Handle, NEW k \in 1 .. queue_size,
              k > Count(tasks', m) + Starting'
       PROVE  Fresh(expired[k].timer)
  <2>1. m + 1 \in 1 .. Len(tasks) /\ tasks[m + 1] = Handle
    BY <1>2, <1>10
  <2>2. Count(tasks, m + 1) = Count(tasks', (m + 1) - 1) + Starting' /\ (m + 1) - 1 = m
    BY <1>4, <2>1
  <2>3. Count(tasks', m) \in Nat /\ Count(tasks, m + 1) \in Nat
    BY <1>2, <2>1, CountNat
  <2>4. k > Count(tasks, m + 1) + Starting
    BY <1>3, <1>10, <2>2, <2>3
  <2>. QED  BY <2>1, <2>4 DEF Ringed, BehindFresh
<1>11. BehindFresh'
  BY <1>2, <1>5, <1>6, <1>9, <1>10 DEF BehindFresh
<1>. QED  BY <1>1, <1>8, <1>11, SameRing DEF Ringed

LEMMA RingedEnds == ASSUME Ringed, Timely', TaskEnds PROVE Ringed'
<1>1. /\ running' = NoTask /\ UNCHANGED <<tasks, listVars, ringVars, interval_outstanding>>
      /\ late' = IF interval_outstanding = 0 THEN 0 ELSE late
  BY DEF TaskEnds, TaskReturns, timerVars
<1>2. Starting = 0 /\ Starting' = 0
  BY <1>1, RingedNumbers DEF Starting, TaskEnds, ClientTask
<1>3. Queued(Handle) => late' = late
  BY <1>1, RingedNumbers DEF Pending
<1>4. mState' = mState /\ left' = left
  BY <1>1 DEF listVars, mState
<1>. QED  BY <1>1, <1>2, <1>3, <1>4, RingedNumbers, RingedSame

LEMMA RingedSignal == ASSUME Ringed, Timely', signalOneTimer PROVE Ringed'
<1>1. /\ running = One /\ at = "start" /\ at' = "fired" /\ queue_size > 0
      /\ queue_head' = After(queue_head) /\ queue_size' = queue_size - 1
      /\ expired' = Tail(expired)
      /\ UNCHANGED <<tasks, running, listVars, queue, queue_tail, clockVars>>
  BY DEF signalOneTimer, timerVars
<1>2. /\ queue_size' \in Nat /\ queue_size' + 1 = queue_size /\ queue_size <= NUM_TIMERS
      /\ queue_head \in -1 .. NUM_TIMERS - 1 /\ NUM_TIMERS \in Nat \ {0}
      /\ queue_size \in Nat
  BY <1>1, RingedNumbers, RingHasRoom
<1>3. \A k \in 1 .. queue_size' : k + 1 \in 1 .. queue_size /\ expired'[k] = expired[k + 1]
  <2>1. /\ expired \in Seq([timer : Timers, repeat : BOOLEAN]) /\ expired # << >>
        /\ queue_size = Len(expired)
    BY <1>1, RingedNumbers, SMTT(30) DEF TypeOK
  <2>. QED  BY <1>1, <1>2, <2>1, HeadTailProperties
<1>4. \A k \in 1 .. queue_size : Slot(k)' = Slot(k + 1)
  <2>. SUFFICES ASSUME NEW k \in 1 .. queue_size
                PROVE  (queue_head' + k) % NUM_TIMERS = (queue_head + (k + 1)) % NUM_TIMERS
    BY DEF Slot
  <2>1. k \in 1 .. NUM_TIMERS
    BY <1>2
  <2>. QED  BY <1>1, <1>2, <2>1, SlotsFacts
<1>5. RingInOrder'
  <2>1. (queue_head' + queue_size) % NUM_TIMERS = Slot(queue_size + 1)
    <3>1. queue_size \in 1 .. NUM_TIMERS
      BY <1>1, <1>2
    <3>. QED  BY <1>1, <1>2, <3>1, SlotsFacts DEF Slot
  <2>2. After(queue_tail)' = (queue_head' + (queue_size' + 1)) % NUM_TIMERS
    BY <1>1, <1>2, <2>1 DEF Ringed, RingInOrder, After
  <2>3. ASSUME NEW k \in 1 .. queue_size'
        PROVE  queue'[(queue_head' + k) % NUM_TIMERS] = expired'[k].timer
    <3>1. k + 1 \in 1 .. queue_size /\ expired'[k] = expired[k + 1] /\ k \in 1 .. queue_size
      BY <1>2, <1>3
    <3>2. (queue_head' + k) % NUM_TIMERS = Slot(k + 1)
      BY <1>4, <3>1 DEF Slot
    <3>. QED  BY <1>1, <3>1, <3>2 DEF Ringed, RingInOrder
  <2>. QED  BY <2>2, <2>3 DEF RingInOrder, Slot
<1>6. NoneTwice'
  <2>. SUFFICES ASSUME NEW j \in 1 .. queue_size', NEW k \in 1 .. queue_size',
                       expired'[j].timer = expired'[k].timer
                PROVE  j = k
    BY DEF NoneTwice
  <2>1. j + 1 = k + 1
    BY <1>3 DEF Ringed, NoneTwice
  <2>. QED  BY <1>2, <2>1
<1>7. Starting = 1 /\ Starting' = 0
  BY <1>1 DEF Starting
<1>8. OnesCounted'
  <2>1. Count(tasks, Len(tasks)) = queue_size - 1
    BY <1>7 DEF Ringed, OnesCounted
  <2>2. Count(tasks', Len(tasks')) = Count(tasks, Len(tasks))
    BY <1>1
  <2>. QED  BY <1>1, <1>2, <1>7, <2>1, <2>2 DEF OnesCounted
<1>9. \A i : Fresh(i)' <=> Fresh(i)
  BY <1>1 DEF Fresh, mState, listVars, clockVars
<1>10. ASSUME NEW m \in 1 .. Len(tasks), tasks[m] = Handle, NEW k \in 1 .. queue_size',
              k > Count(tasks, m) + Starting'
       PROVE  Fresh(expired'[k].timer)
  <2>1. k + 1 \in 1 .. queue_size /\ expired'[k] = expired[k + 1]
    BY <1>3
  <2>2. Count(tasks, m) \in Nat
    BY RingedNumbers, CountNat
  <2>3. k + 1 > Count(tasks, m) + Starting
    BY <1>2, <1>7, <1>10, <2>2
  <2>. QED  BY <1>10, <2>1, <2>3 DEF Ringed, BehindFresh
<1>11. BehindFresh'
  <2>1. running' # Handle
    BY <1>1, RingedNumbers
  <2>2. \A m : Count(tasks, m)' = Count(tasks, m)
    BY <1>1 DEF Count
  <2>. QED  BY <1>1, <1>9, <1>10, <2>1 DEF BehindFresh
<1>. QED  BY <1>5, <1>6, <1>8, <1>11 DEF Ringed

(* A timer that HandleFire finds due is not in the ring.                    *)
LEMMA DueIsNew ==
  ASSUME Ringed, HandleNext, tasks' = tasks \/ Post(One), UNCHANGED running,
         next \in mState, Due, NEW k \in 1 .. queue_size
  PROVE  expired[k].timer # next
<1>1. /\ Charged \in Int /\ left[next] \in Int /\ Charged <= 2
      /\ Charged - (interval_outstanding + TCNT0) = left[next]
  BY RingedNumbers, ChargedIs DEF Due
<1>2. running = Handle
  BY DEF HandleNext
<1>3. Fresh(expired[k].timer)
  BY <1>2 DEF Ringed, BehindFresh
<1>4. /\ late \in Nat /\ late <= MaxLate /\ MaxLate \in Nat
      /\ interval_outstanding \in Nat /\ TCNT0 \in Nat
  BY TimelyNumbers DEF Ringed
<1>5. ~(left[next] + late > MaxLate + 2)
  BY <1>1, <1>4
<1>. QED  BY <1>3, <1>5 DEF Fresh

LEMMA RingedWaits == ASSUME Ringed, Timely', HandleWaits PROVE Ringed'
<1>1. /\ HandleNext /\ next \in mState /\ Due /\ UNCHANGED <<tasks, running, ringVars>>
      /\ mTimerList' = [mTimerList EXCEPT ![next].ticksLeft = mInterval]
      /\ left' = [left EXCEPT ![next] = mInterval - TCNT0 - interval_outstanding]
      /\ late' = late /\ running = Handle /\ at = "charge" /\ TypeOK
  BY RingedNumbers DEF HandleWaits, HandleNext, clockVars
<1>2. mState' = mState /\ DOMAIN left = mState
  BY <1>1 DEF mState, TypeOK
<1>3. \A j \in mState \ {next} : left'[j] = left[j]
  BY <1>1, <1>2
<1>4. RingInOrder' /\ NoneTwice'
  BY <1>1, SameRing
<1>5. Starting = 0 /\ Starting' = 0
  BY <1>1, RingedNumbers DEF Starting
<1>6. OnesCounted'
  BY <1>1, <1>5, SameCount DEF ringVars
<1>7. queue_size' = queue_size /\ expired' = expired
  BY <1>1 DEF ringVars
<1>8. ASSUME NEW k \in 1 .. queue_size PROVE Fresh(expired[k].timer)'
  <2>1. expired[k].timer # next
    BY <1>1, DueIsNew
  <2>2. Fresh(expired[k].timer)
    BY <1>1 DEF Ringed, BehindFresh
  <2>. QED  BY <1>1, <1>2, <1>3, <1>7, <2>1, <2>2 DEF Fresh
<1>9. BehindFresh'
  BY <1>7, <1>8 DEF BehindFresh
<1>. QED  BY <1>4, <1>6, <1>9 DEF Ringed

LEMMA RingedExpires == ASSUME Ringed, Timely', LongPeriods, HandleExpires PROVE Ringed'
<1>. DEFINE n == queue_size + 1
            entry == [timer |-> next, repeat |-> Entry.repeat]
<1>1. /\ HandleNext /\ next \in mState /\ Due /\ Post(One) /\ running' = running
      /\ running = Handle /\ late' = late /\ queue_head' = queue_head
      /\ queue' = [queue EXCEPT ![After(queue_tail)] = next]
      /\ queue_tail' = After(queue_tail) /\ queue_size' = n
      /\ expired' = Append(expired, entry) /\ tasks' = Append(tasks, One)
  BY DEF HandleExpires, HandleNext, Post, clockVars, Enqueued
<1>2. /\ queue_size \in Nat /\ queue_size = Len(expired) /\ NUM_TIMERS \in Nat \ {0}
      /\ queue_head \in -1 .. NUM_TIMERS - 1 /\ n \in 1 .. n
      /\ expired \in Seq([timer : Timers, repeat : BOOLEAN])
      /\ queue \in [Timers -> Timers] /\ next \in Timers
  <2>1. next \in Timers
    BY <1>1, RingedNumbers DEF Positions, HandleNext
  <2>. QED  BY <2>1, RingedNumbers, SMTT(30) DEF TypeOK
<1>3. /\ \A k \in 1 .. queue_size : expired'[k] = expired[k]
      /\ expired'[n].timer = next
  BY <1>1, <1>2
<1>4. \A k \in 1 .. queue_size : expired[k].timer # next
  BY <1>1, DueIsNew
<1>5. NoneTwice'
  <2>. SUFFICES ASSUME NEW j \in 1 .. n, NEW k \in 1 .. n,
                       expired'[j].timer = expired'[k].timer
                PROVE  j = k
    BY <1>1 DEF NoneTwice
  <2>1. CASE j = n
    BY <1>2, <1>3, <1>4, <2>1
  <2>2. CASE k = n
    BY <1>2, <1>3, <1>4, <2>2
  <2>3. CASE j # n /\ k # n
    <3>1. j \in 1 .. queue_size /\ k \in 1 .. queue_size
      BY <1>2, <2>3
    <3>. QED  BY <1>3, <3>1 DEF Ringed, NoneTwice
  <2>. QED  BY <2>1, <2>2, <2>3
<1>6. n <= NUM_TIMERS
  <2>. DEFINE f == [k \in 1 .. n |-> expired'[k].timer]
  <2>1. \A k \in 1 .. n : expired'[k].timer \in Timers
    <3>. SUFFICES ASSUME NEW k \in 1 .. n PROVE expired'[k].timer \in Timers
      OBVIOUS
    <3>1. CASE k = n
      BY <1>2, <1>3, <3>1
    <3>2. CASE k # n
      <4>1. k \in 1 .. queue_size
        BY <1>2, <3>2
      <4>. QED  BY <1>3, <4>1, RingedNumbers
    <3>. QED  BY <3>1, <3>2
  <2>2. f \in [1 .. n -> Timers] /\ n \in Nat
    BY <1>2, <2>1
  <2>3. \A j, k \in 1 .. n : f[j] = f[k] => j = k
    BY <1>1, <1>5 DEF NoneTwice
  <2>. QED  BY <2>2, <2>3, RingBounded
<1>7. After(queue_tail) = Slot(n) /\ Slot(n) \in Timers /\ After(Slot(n)) = Slot(n + 1)
  <2>1. n \in 1 .. NUM_TIMERS
    BY <1>2, <1>6
  <2>2. Slot(n) \in Timers /\ After(Slot(n)) = Slot(n + 1)
    BY <1>2, <2>1, SlotsFacts DEF Slot
  <2>. QED  BY <2>2 DEF Ringed, RingInOrder
<1>8. ASSUME NEW k \in 1 .. queue_size PROVE Slot(k) \in Timers /\ Slot(k) # Slot(n)
  <2>1. k \in 1 .. NUM_TIMERS /\ n \in 1 .. NUM_TIMERS /\ k # n
    BY <1>2, <1>6
  <2>. QED  BY <1>2, <2>1, SlotsFacts DEF Slot
<1>9. RingInOrder'
  <2>1. \A k : Slot(k)' = Slot(k)
    BY <1>1 DEF Slot
  <2>2. ASSUME NEW k \in 1 .. n PROVE queue'[Slot(k)] = expired'[k].timer
    <3>1. CASE k = n
      BY <1>1, <1>2, <1>3, <1>7, <3>1
    <3>2. CASE k # n
      <4>1. k \in 1 .. queue_size
        BY <1>2, <3>2
      <4>2. queue[Slot(k)] = expired[k].timer
        BY <4>1 DEF Ringed, RingInOrder
      <4>. QED  BY <1>1, <1>2, <1>3, <1>7, <1>8, <4>1, <4>2
    <3>. QED  BY <3>1, <3>2
  <2>. QED  BY <1>1, <1>7, <2>1, <2>2 DEF RingInOrder, Slot
<1>10. Starting = 0 /\ Starting' = 0
  BY <1>1, RingedNumbers DEF Starting
<1>11. /\ Len(tasks) \in Nat /\ Len(tasks') = Len(tasks) + 1 /\ tasks'[Len(tasks) + 1] = One
       /\ \A m \in 1 .. Len(tasks) : tasks'[m] = tasks[m]
       /\ \A m \in 0 .. Len(tasks) : Count(tasks', m) = Count(tasks, m)
       /\ Count(tasks', Len(tasks) + 1) = Count(tasks, Len(tasks)) + 1
  BY <1>1, RingedNumbers, CountPost
<1>12. OnesCounted'
  <2>1. Count(tasks, Len(tasks)) = queue_size
    BY <1>2, <1>10 DEF Ringed, OnesCounted
  <2>. QED  BY <1>1, <1>2, <1>10, <1>11, <2>1 DEF OnesCounted
<1>13. ASSUME NEW k \in 1 .. n PROVE Fresh(expired[k].timer)'
  <2>1. CASE k = n
    BY <1>1, <1>3, <2>1, Renewed DEF Ringed, Fresh
  <2>2. CASE k # n
    <3>1. k \in 1 .. queue_size
      BY <1>2, <2>2
    <3>. DEFINE i == expired[k].timer
    <3>2. Fresh(i) /\ i # next /\ expired'[k].timer = i
      BY <1>1, <1>3, <1>4, <3>1 DEF Ringed, BehindFresh
    <3>3. /\ mState' \subseteq mState
          /\ \A j \in mState' \ {next} : left'[j] = left[j]
      BY RingedNumbers, DueTimer
    <3>. QED  BY <1>1, <3>2, <3>3 DEF Fresh
  <2>. QED  BY <2>1, <2>2
<1>14. BehindFresh'
  BY <1>1, <1>13 DEF BehindFresh
<1>. QED  BY <1>5, <1>9, <1>12, <1>14 DEF Ringed

LEMMA RingedStep ==
  ASSUME Ringed, LongPeriods, StartsLate = FALSE, [Next]_vars
  PROVE  Ringed'
<1>1. Timely'
  BY TimelyStep DEF Ringed
<1>. QED
  BY <1>1, RingedClient, RingedTick, RingedHandle, RingedRun, RingedEnds, RingedSignal,
     RingedWaits, RingedExpires
  DEF Next, TaskStep

(* The ring holds the timers that expired, none of them twice, in their     *)
(* order, with one task for each (TimerM.nc enqueue, dequeue, HandleFire),  *)
(* when periods are long enough and no timer is started meanwhile.          *)
THEOREM FiringsKeptAlways ==
  ASSUME LongPeriods, StartsLate = FALSE
  PROVE  Safety => []FiringsKept
<1>1. Init => Ringed
  BY InitRinged
<1>2. Ringed /\ [Next]_vars => Ringed'
  BY RingedStep
<1>3. Ringed => FiringsKept
  BY RingedFirings
<1>. QED  BY <1>1, <1>2, <1>3, PTL DEF Safety
=============================================================================
