------------------------------ MODULE TaskFifo ------------------------------
(***************************************************************************)
(* What the TinyOS scheduler (src/tos/system/sched.c) promises to the      *)
(* components that post tasks: accepted tasks are run once each, one at a  *)
(* time, to completion, in the order in which they were posted.  TaskQueue *)
(* is the ring of sched.c and implements this module; the models of the    *)
(* components that post tasks are built on it.                             *)
(***************************************************************************)
EXTENDS Naturals, Sequences

CONSTANTS
  Tasks,      \* the task functions that components post
  NoTask,     \* no task is running (and, in the ring, the NULL pointer)
  MaxTasks    \* TOSH_MAX_TASKS, the capacity of the queue (32 in the build)

ASSUME FifoAssumption ==
  /\ MaxTasks \in Nat \ {0}
  /\ NoTask \notin Tasks

VARIABLES
  tasks,      \* the posted tasks that have not started, oldest first
  running     \* the task being executed

fifoVars == <<tasks, running>>

FifoTypeOK ==
  /\ tasks \in Seq(Tasks)
  /\ Len(tasks) <= MaxTasks
  /\ running \in Tasks \cup {NoTask}
-----------------------------------------------------------------------------
HasRoom == Len(tasks) < MaxTasks

(* t is posted and has not started.                                        *)
Queued(t) == \E i \in 1 .. Len(tasks) : tasks[i] = t

(* t is not posted twice.                                                  *)
Once(t) ==
  \A i, j \in 1 .. Len(tasks) : tasks[i] = t /\ tasks[j] = t => i = j

FifoInit ==
  /\ tasks = <<>>
  /\ running = NoTask

(* A component posts t and the scheduler accepts it.                       *)
Post(t) ==
  /\ HasRoom
  /\ tasks' = Append(tasks, t)
  /\ UNCHANGED running

(* The scheduler starts the oldest posted task.                            *)
RunNext ==
  /\ running = NoTask
  /\ tasks # <<>>
  /\ running' = Head(tasks)
  /\ tasks' = Tail(tasks)

(* The running task returns.                                               *)
TaskReturns ==
  /\ running # NoTask
  /\ running' = NoTask
  /\ UNCHANGED tasks

FifoNext ==
  \/ \E t \in Tasks : Post(t)
  \/ RunNext
  \/ TaskReturns

FifoSafety == FifoInit /\ [][FifoNext]_fifoVars

(* Tasks run to completion and the main loop never stops.                  *)
FifoSpec == FifoSafety /\ WF_fifoVars(RunNext) /\ WF_fifoVars(TaskReturns)
=============================================================================
