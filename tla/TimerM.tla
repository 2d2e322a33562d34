-------------------------------- MODULE TimerM --------------------------------
(***************************************************************************)
(* The timers of the mote, src/tos/system/TimerM.nc, over the 8-bit clock  *)
(* of src/tos/platform/atm128/HPLClock.nc: every timer counts down the     *)
(* ticks it has left, the clock interrupts when the first of them is due,  *)
(* the task HandleFire charges the time that has passed and one task       *)
(* signalOneTimer for each timer that is due signals it.                   *)
(*                                                                         *)
(* Tasks are cut where the clock may interrupt them; its handler runs at   *)
(* the tick of the match.  setIntervalFlag is written and never read.      *)
(***************************************************************************)
EXTENDS TaskFifo, Integers, FiniteSets

CONSTANTS
  NUM_TIMERS,
  maxTimerInterval,   \* 230 in the code
  Turn,               \* values of the counter: 256
  Delays, Periods,    \* the intervals of one-shot and of repeating timers
  MaxLate,            \* bound: ticks from an interrupt until it is handled
  StartsLate,         \* may a timer be started while ticks are uncharged ?
  Reserved            \* task slots that other components leave free

Handle == "HandleFire"
One == "signalOneTimer"

ASSUME TimerAssumption ==
  /\ NUM_TIMERS \in Nat \ {0}
  /\ maxTimerInterval \in Nat /\ MaxLate \in Nat /\ Turn \in Nat
  /\ MaxLate + 3 <= maxTimerInterval
  /\ maxTimerInterval < Turn
  /\ Delays \subseteq Nat \ {0} /\ Periods \subseteq Nat \ 0 .. 2
  /\ StartsLate \in BOOLEAN
  /\ Reserved \in 0 .. MaxTasks
  /\ {Handle, One} \subseteq Tasks

Timers == 0 .. NUM_TIMERS - 1

VARIABLES
  at,                    \* the next thing the running task does
  int_out, next,         \* HandleFire: the ticks to charge, the next timer
  fired,                 \* the timer being signalled; NUM_TIMERS for none
  mTimerList,            \* the timers that are running
  mInterval,             \* the interval asked of the clock
  interval_outstanding,  \* ticks up to the last interrupt, not charged yet
  queue, queue_head, queue_tail, queue_size,  \* the ring of due timers
  OCR0, TCNT0,           \* the clock: compare register and counter
  left,                  \* history: the ticks until a running timer is due
  expired,               \* history: the timers due and not signalled
  late                   \* history: ticks since the interrupt not yet handled

listVars == <<mTimerList, left>>
timerVars == <<listVars, mInterval>>
ringVars == <<queue, queue_head, queue_tail, queue_size, expired>>
handleVars == <<int_out, next>>
clockVars == <<interval_outstanding, OCR0, TCNT0, late>>
vars == <<tasks, running, at, fired, timerVars, ringVars, handleVars, clockVars>>

(* Is the timer repeating, its interval, and the ticks it has left, counted *)
(* from the last interrupt.  The entry of a timer that does not run is not  *)
(* read before the timer is started again.                                  *)
Running == [repeat : BOOLEAN, ticks : Delays \cup Periods, ticksLeft : Int]

(* The bits of mState.                                                      *)
mState == DOMAIN mTimerList

TypeOK ==
  /\ FifoTypeOK
  /\ at \in {"none", "start", "charge", "check", "adjust", "fired", "return"}
  /\ int_out \in Nat
  /\ next \in 0 .. NUM_TIMERS
  /\ fired \in 0 .. NUM_TIMERS
  /\ mState \subseteq Timers
  /\ mTimerList \in [mState -> Running]
  /\ mInterval \in 0 .. Turn - 1
  /\ interval_outstanding \in Nat
  /\ queue \in [Timers -> Timers]
  /\ queue_head \in -1 .. NUM_TIMERS - 1
  /\ queue_tail \in -1 .. NUM_TIMERS - 1
  /\ queue_size \in Nat
  /\ OCR0 \in 0 .. Turn - 1
  /\ TCNT0 \in 0 .. Turn - 1
  /\ left \in [mState -> Int]
  /\ expired \in Seq([timer : Timers, repeat : BOOLEAN])
  /\ late \in 0 .. MaxLate

Init ==
  /\ FifoInit
  /\ at = "none"
  /\ int_out = 0
  /\ next = 0
  /\ fired = NUM_TIMERS
  /\ mTimerList = <<>>
  /\ mInterval = maxTimerInterval
  /\ interval_outstanding = 0
  /\ queue = [i \in Timers |-> 0]
  /\ queue_head = -1
  /\ queue_tail = -1
  /\ queue_size = 0
  /\ OCR0 = maxTimerInterval
  /\ TCNT0 = 0
  /\ left = <<>>
  /\ expired = <<>>
  /\ late = 0
-----------------------------------------------------------------------------
(* Client code runs in a task of its own or in the event of a timer.        *)
ClientTask == running \in Tasks \ {Handle, One} /\ at = "start"

ClientRuns == ClientTask \/ at = "fired"

With(f, i, v) == [j \in DOMAIN f \cup {i} |-> IF j = i THEN v ELSE f[j]]

Without(f, i) == [j \in DOMAIN f \ {i} |-> f[j]]

(* Mutated: the ticks from now, not from the last interrupt.                *)
DueFromNow(interval) == interval

(* When the counter will be at the end of the interval.                     *)
DueAt(interval) == interval + TCNT0

(* Timer.start: a repeating timer of fewer than three ticks is refused.     *)
(* The clock is made to interrupt earlier if the timer is due before.       *)
Timer_start(i, repeat, interval) ==
  /\ ClientRuns
  /\ ~StartsLate => interval_outstanding = 0
  /\ mTimerList' = With(mTimerList, i,
       [repeat |-> repeat, ticks |-> interval, ticksLeft |-> DueAt(interval)])
  /\ left' = With(left, i, interval)
  /\ IF DueAt(interval) < mInterval
     THEN mInterval' = DueAt(interval) /\ OCR0' = DueAt(interval)
     ELSE UNCHANGED <<mInterval, OCR0>>
  /\ UNCHANGED <<tasks, running, at, fired, ringVars, handleVars,
                 interval_outstanding, TCNT0, late>>

Started(i) ==
  \/ \E interval \in Delays : Timer_start(i, FALSE, interval)
  \/ \E interval \in Periods : Timer_start(i, TRUE, interval)

(* Timer.stop of a running timer; of another it fails.                      *)
Timer_stop(i) ==
  /\ ClientRuns
  /\ i \in mState
  /\ mTimerList' = Without(mTimerList, i)
  /\ left' = Without(left, i)
  /\ UNCHANGED <<tasks, running, at, fired, mInterval, ringVars, handleVars, clockVars>>

StdControl_stop ==
  /\ ClientRuns
  /\ mTimerList' = <<>>
  /\ left' = <<>>
  /\ mInterval' = maxTimerInterval
  /\ UNCHANGED <<tasks, running, at, fired, ringVars, handleVars, clockVars>>
-----------------------------------------------------------------------------
(* The bound of the model: an interrupt is handled, and every interrupt that *)
(* comes meanwhile, before more than MaxLate ticks have passed.              *)
Unhandled == interval_outstanding > 0 \/ running = Handle

TimePasses ==
  /\ Unhandled => late < MaxLate
  /\ late' = IF Unhandled THEN late + 1 ELSE 0
  /\ left' = [i \in mState |-> left[i] - 1]

(* The counter counts ...                                                   *)
ClockCounts ==
  /\ TCNT0 # OCR0
  /\ TCNT0' = (TCNT0 + 1) % Turn
  /\ TimePasses
  /\ UNCHANGED <<tasks, running, at, fired, mTimerList, mInterval,
                 ringVars, handleVars, interval_outstanding, OCR0>>

(* Mutated: one tick fewer.                                                 *)
PeriodShort == OCR0

(* getInterval() + 1                                                        *)
Period == OCR0 + 1

(* Mutated: posted only when one was posted before.                         *)
PostHandleInverted ==
  IF interval_outstanding # 0 /\ HasRoom THEN Post(Handle) ELSE UNCHANGED <<tasks, running>>

(* post HandleFire, unless it has not handled the interrupt before.         *)
PostHandle ==
  IF interval_outstanding = 0 /\ HasRoom THEN Post(Handle) ELSE UNCHANGED <<tasks, running>>

(* ... and interrupts when it has reached the compare register.             *)
Clock_fire ==
  /\ TCNT0 = OCR0
  /\ TCNT0' = 0
  /\ interval_outstanding' = interval_outstanding + Period
  /\ PostHandle
  /\ TimePasses
  /\ UNCHANGED <<at, fired, mTimerList, mInterval, ringVars, handleVars, OCR0>>
-----------------------------------------------------------------------------
RunTask ==
  /\ RunNext
  /\ at' = "start"
  /\ UNCHANGED <<fired, timerVars, ringVars, handleVars, clockVars>>

TaskEnds ==
  /\ at \in {"return", "fired"} \/ ClientTask
  /\ TaskReturns
  /\ at' = "none"
  /\ fired' = NUM_TIMERS
  /\ int_out' = 0
  /\ next' = 0
  /\ late' = IF interval_outstanding = 0 THEN 0 ELSE late
  /\ UNCHANGED <<timerVars, ringVars, interval_outstanding, OCR0, TCNT0>>

PostOther(t) ==
  /\ t \notin {Handle, One}
  /\ Len(tasks) + Reserved < MaxTasks
  /\ Post(t)
  /\ UNCHANGED <<at, fired, timerVars, ringVars, handleVars, clockVars>>

(* HandleFire takes the ticks that have passed, ...                         *)
HandleReads ==
  /\ running = Handle
  /\ at = "start"
  /\ int_out' = interval_outstanding
  /\ interval_outstanding' = 0
  /\ next' = 0
  /\ at' = IF mState = {} THEN "check" ELSE "charge"
  /\ UNCHANGED <<tasks, running, fired, timerVars, ringVars, OCR0, TCNT0, late>>

(* ... looks at one timer after the other, ...                              *)
HandleNext ==
  /\ running = Handle
  /\ at = "charge"
  /\ next' = next + 1
  /\ at' = IF next + 1 = NUM_TIMERS THEN "check" ELSE at
  /\ UNCHANGED <<fired, mInterval, int_out, clockVars>>

Entry == mTimerList[next]

Charged == Entry.ticksLeft - int_out

Due == Charged <= 2

HandleSkips ==
  /\ HandleNext
  /\ next \notin mState
  /\ UNCHANGED <<tasks, running, listVars, ringVars>>

HandleCharges ==
  /\ HandleNext
  /\ next \in mState
  /\ ~Due
  /\ mTimerList' = [mTimerList EXCEPT ![next].ticksLeft = Charged]
  /\ UNCHANGED <<tasks, running, left, ringVars>>

(* Mutated: the ring does not wrap at its end.                              *)
AfterUnwrapped(k) == k + 1

(* The index after k of the ring.                                           *)
After(k) == IF k = NUM_TIMERS - 1 THEN 0 ELSE k + 1

(* Mutated: the entry is written before the index is moved.                 *)
EnqueuedBefore(i) ==
  IF queue_tail \in Timers THEN [queue EXCEPT ![queue_tail] = i] ELSE queue

Enqueued(i) == [queue EXCEPT ![After(queue_tail)] = i]

(* ... puts those that are due in the ring, each with a task, ...           *)
HandleExpires ==
  /\ HandleNext
  /\ next \in mState
  /\ Due
  /\ Post(One)
  /\ IF Entry.repeat
     THEN /\ mTimerList' = [mTimerList EXCEPT ![next].ticksLeft = Charged + Entry.ticks]
          /\ left' = [left EXCEPT ![next] = @ + Entry.ticks]
     ELSE /\ mTimerList' = Without(mTimerList, next)
          /\ left' = Without(left, next)
  /\ queue' = Enqueued(next)
  /\ queue_tail' = After(queue_tail)
  /\ queue_size' = queue_size + 1
  /\ expired' = Append(expired, [timer |-> next, repeat |-> Entry.repeat])
  /\ UNCHANGED queue_head

(* ... or, when the task list is full, has them wait another interval, ...  *)
HandleWaits ==
  /\ HandleNext
  /\ next \in mState
  /\ Due
  /\ ~HasRoom
  /\ mTimerList' = [mTimerList EXCEPT ![next].ticksLeft = mInterval]
  /\ left' = [left EXCEPT ![next] = mInterval - TCNT0 - interval_outstanding]
  /\ UNCHANGED <<tasks, running, ringVars>>

(* ... and unless the clock has interrupted meanwhile ...                   *)
HandleChecks ==
  /\ running = Handle
  /\ at = "check"
  /\ at' = IF interval_outstanding = 0 THEN "adjust" ELSE "return"
  /\ UNCHANGED <<tasks, running, fired, handleVars, timerVars, ringVars, clockVars>>

(* The least ticks left of the running timers and the greatest interval.    *)
(* val has eight bits: a negative number of ticks becomes a large value,     *)
(* which replaces what was found before it.                                 *)
Negative == {i \in mState : mTimerList[i].ticksLeft < 0}

Compared == {i \in mState : \A j \in Negative : j <= i}

Candidates ==
  {mTimerList[i].ticksLeft : i \in Compared \ Negative}
  \cup {mTimerList[i].ticksLeft % Turn : i \in Compared \cap Negative}
  \cup IF Negative = {} THEN {maxTimerInterval} ELSE {}

Earliest(val) == val \in Candidates /\ \A v \in Candidates : val <= v

(* Mutated: the counter may be beyond the new interval.                     *)
AdjustedUnchecked(val) == val

(* Not less than three ticks from now: the clock would count a whole turn.  *)
Adjusted(val) == IF mState # {} /\ val < TCNT0 + 3 THEN TCNT0 + 3 ELSE val

(* ... sets the clock to the first timer that will be due.                  *)
adjustInterval ==
  /\ running = Handle
  /\ at = "adjust"
  /\ \E val \in 0 .. Turn - 1 :
       /\ Earliest(val)
       /\ mInterval' = Adjusted(val)
       /\ OCR0' = Adjusted(val)
  /\ at' = "return"
  /\ UNCHANGED <<tasks, running, fired, listVars, ringVars, handleVars,
                 interval_outstanding, TCNT0, late>>

(* signalOneTimer signals the timer at the head of the ring.                *)
signalOneTimer ==
  /\ running = One
  /\ at = "start"
  /\ queue_size > 0
  /\ queue_head' = After(queue_head)
  /\ queue_size' = queue_size - 1
  /\ fired' = queue[After(queue_head)]
  /\ expired' = Tail(expired)
  /\ at' = "fired"
  /\ UNCHANGED <<tasks, running, timerVars, queue, queue_tail, handleVars, clockVars>>
-----------------------------------------------------------------------------
Tick == ClockCounts \/ Clock_fire

TaskStep ==
  \/ RunTask
  \/ TaskEnds
  \/ HandleReads
  \/ HandleSkips
  \/ HandleCharges
  \/ HandleExpires
  \/ HandleWaits
  \/ HandleChecks
  \/ adjustInterval
  \/ signalOneTimer

ClientStep ==
  \/ \E i \in Timers : Started(i)
  \/ \E i \in Timers : Timer_stop(i)
  \/ StdControl_stop
  \/ \E t \in Tasks : PostOther(t)

Next == Tick \/ TaskStep \/ ClientStep

Safety == Init /\ [][Next]_vars

(* Tasks run to completion and the clock does not stop.                     *)
Spec == Safety /\ WF_vars(TaskStep) /\ WF_vars(Tick)
-----------------------------------------------------------------------------
(* "ticks left before the timer expires" (TimerM.nc:48): the ticks a timer  *)
(* has left, less those it has not been charged with, are the ticks until   *)
(* it is due, whatever interrupts, starts and refused posts come between.   *)
Owing(i) ==
  interval_outstanding + TCNT0
  + IF running = Handle /\ at = "charge" /\ i >= next THEN int_out ELSE 0

TicksLeftIsTrue == \A i \in mState : mTimerList[i].ticksLeft - Owing(i) = left[i]

(* The ring holds the timers that expired, in their order, and there is a   *)
(* task for each of them (TimerM.nc enqueue, dequeue, HandleFire).          *)
InRing == [k \in 1 .. queue_size |-> queue[(queue_head + k) % NUM_TIMERS]]

Starting == IF running = One /\ at = "start" THEN 1 ELSE 0

Ones == {k \in 1 .. Len(tasks) : tasks[k] = One}

FiringsKept ==
  /\ InRing = [k \in 1 .. Len(expired) |-> expired[k].timer]
  /\ queue_size <= NUM_TIMERS
  /\ Cardinality(Ones) = queue_size - Starting

(* "Once we've posted HandleFire(), don't post it again until the original  *)
(* one is handled" (TimerM.nc:232): ticks that are outstanding have a task  *)
(* that will charge them, and only one.                                     *)
HandleFireComing ==
  /\ interval_outstanding > 0 => Queued(Handle) \/ (running = Handle /\ at = "start")
  /\ Once(Handle)

(* The clock interrupts before a timer is due, or within three ticks, and   *)
(* never counts a whole turn first (TimerM.nc:115 "we check for this         *)
(* condition and avoid it", and :82 for repeating timers).                   *)
AlarmSet ==
  /\ TCNT0 <= OCR0
  /\ interval_outstanding = 0 /\ running # Handle =>
       \A i \in mState : OCR0 <= mTimerList[i].ticksLeft \/ OCR0 - TCNT0 <= 3

(* "Stop the timer, preventing it from firing again"                        *)
(* (src/tos/interfaces/Timer.nc:40): when a repeating timer is signalled it *)
(* has not been stopped since it expired.                                   *)
StopPrevents == [][signalOneTimer /\ Head(expired).repeat => fired' \in mState]_vars

(* A running timer fires, unless it is stopped or started again and again.  *)
Fires ==
  \A i \in Timers :
    \/ []<><<Started(i)>>_vars
    \/ i \in mState ~> i \notin mState \/ fired = i
=============================================================================
