------------------------------ MODULE TaskQueue ------------------------------
(***************************************************************************)
(* The cyclic task list of src/tos/system/sched.c.  TOS_post and the pop   *)
(* of TOSH_run_next_task are critical sections, so each is one step; the   *)
(* task function itself runs outside the critical section, and posts from  *)
(* it and from interrupt handlers interleave with it.                      *)
(***************************************************************************)
EXTENDS Naturals, Sequences

CONSTANTS
  Tasks,      \* the task functions
  NULL,       \* the pointer of an empty slot
  MaxTasks    \* TOSH_MAX_TASKS

ASSUME TaskQueueAssumption ==
  /\ MaxTasks \in Nat \ {0}
  /\ NULL \notin Tasks

VARIABLES
  TOSH_queue,       \* the slots
  TOSH_sched_full,  \* index of the first used slot (head of the list)
  TOSH_sched_free,  \* index of the first free slot (after the tail)
  func              \* the task being executed, NULL between tasks

vars == <<TOSH_queue, TOSH_sched_full, TOSH_sched_free, func>>

Slots == 0 .. MaxTasks - 1

TypeOK ==
  /\ TOSH_queue \in [Slots -> Tasks \cup {NULL}]
  /\ TOSH_sched_full \in Slots
  /\ TOSH_sched_free \in Slots
  /\ func \in Tasks \cup {NULL}
-----------------------------------------------------------------------------
(* Mutated forms, each a slip this code could contain: the successor        *)
(* without the mask, a popped slot that keeps its task, the full test of    *)
(* the header comment.                                                      *)
NextSlotUnmasked(i) == i + 1
NotCleared(i) == TOSH_queue
FreeSlotBeforeHead ==
  (TOSH_sched_free + 1) % MaxTasks # TOSH_sched_full

(* i + 1 under the mask TOSH_TASK_BITMASK: MaxTasks is a power of two.      *)
NextSlot(i) == IF i = MaxTasks - 1 THEN 0 ELSE i + 1

(* The slot TOS_post would fill is free.                                    *)
FreeSlot == TOSH_queue[TOSH_sched_free] = NULL

Cleared(i) == [TOSH_queue EXCEPT ![i] = NULL]

(* TOSH_sched_init                                                          *)
Init ==
  /\ TOSH_queue = [i \in Slots |-> NULL]
  /\ TOSH_sched_full = 0
  /\ TOSH_sched_free = 0
  /\ func = NULL

(* TOS_post(tp) returning TRUE, from a task or an interrupt handler.        *)
TOS_post(tp) ==
  /\ FreeSlot
  /\ TOSH_queue' = [TOSH_queue EXCEPT ![TOSH_sched_free] = tp]
  /\ TOSH_sched_free' = NextSlot(TOSH_sched_free)
  /\ UNCHANGED <<TOSH_sched_full, func>>

(* TOS_post(tp) returning FALSE: the list is left as it is.                 *)
TOS_postRefused(tp) ==
  /\ ~FreeSlot
  /\ UNCHANGED vars

(* The critical section of TOSH_run_next_task when there is a task; without *)
(* one the processor sleeps until an interrupt.                             *)
TOSH_run_next_task ==
  /\ func = NULL
  /\ TOSH_queue[TOSH_sched_full] # NULL
  /\ func' = TOSH_queue[TOSH_sched_full]
  /\ TOSH_queue' = Cleared(TOSH_sched_full)
  /\ TOSH_sched_full' = NextSlot(TOSH_sched_full)
  /\ UNCHANGED TOSH_sched_free

(* The call func() returns.                                                 *)
FuncReturns ==
  /\ func # NULL
  /\ func' = NULL
  /\ UNCHANGED <<TOSH_queue, TOSH_sched_full, TOSH_sched_free>>

Next ==
  \/ \E tp \in Tasks : TOS_post(tp)
  \/ \E tp \in Tasks : TOS_postRefused(tp)
  \/ TOSH_run_next_task
  \/ FuncReturns

Safety == Init /\ [][Next]_vars

(* The main loop calls TOSH_run_next_task for ever and tasks run to         *)
(* completion.  Nothing is assumed of those who post.                       *)
Spec == Safety /\ WF_vars(TOSH_run_next_task) /\ WF_vars(FuncReturns)
-----------------------------------------------------------------------------
(* The number of used slots: the distance from full to free, where equal    *)
(* indices mean empty or completely full according to the head slot.        *)
Count ==
  IF TOSH_queue[TOSH_sched_full] = NULL THEN 0
  ELSE IF TOSH_sched_free > TOSH_sched_full
       THEN TOSH_sched_free - TOSH_sched_full
       ELSE TOSH_sched_free - TOSH_sched_full + MaxTasks

(* The slot k places after the head.                                        *)
Place(k) ==
  IF TOSH_sched_full + k < MaxTasks THEN TOSH_sched_full + k
  ELSE TOSH_sched_full + k - MaxTasks

(* The used slots are exactly the run of slots from full up to free: there  *)
(* is no hole in it, and nothing beyond it.  A hole would stop the main     *)
(* loop with tasks still posted, for it takes NULL at the head for an empty *)
(* list.  In an empty list the two indices meet, else the next task would   *)
(* be posted beyond a hole.                                                 *)
NoHole ==
  /\ \A k \in Slots : TOSH_queue[Place(k)] # NULL <=> k < Count
  /\ TOSH_queue[TOSH_sched_full] = NULL => TOSH_sched_free = TOSH_sched_full

(* TOS_post refuses a task only when every slot holds one: "Return 1 if     *)
(* successful, 0 if there is no free slot" (sched.c:76).                    *)
RefusedOnlyWhenFull ==
  ~FreeSlot => \A i \in Slots : TOSH_queue[i] # NULL

(* The ring implements the first-in first-out queue, fairness included.     *)
Fifo == INSTANCE TaskFifo WITH
  tasks <- [k \in 1 .. Count |-> TOSH_queue[Place(k - 1)]],
  running <- func,
  NoTask <- NULL

FifoSpec == Fifo!FifoSpec
=============================================================================
