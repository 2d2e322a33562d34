-------------------------------- MODULE Mote --------------------------------
(***************************************************************************)
(* What the components of the radio stack share: the scheduler, the place  *)
(* reached by the running task and by the Timer2 compare handler that may  *)
(* have preempted it, the sendDone events being signalled, and the message *)
(* buffers.  A step of the modules that extend this one is the code        *)
(* between two points where another context can observe or change what     *)
(* that code uses.                                                         *)
(***************************************************************************)
EXTENDS TaskFifo

CONSTANTS
  Messages,   \* the TOS_Msg buffers of the clients
  NoEvent     \* no sendDone is being signalled

VARIABLES
  at,         \* the next thing the running task does
  isr,        \* the next thing the Timer2 compare handler does
  up,         \* per context, the sendDone event being signalled
  addr,       \* of each buffer, the destination,
  ack,        \* the ack field,
  framed      \* and how often the 802.15.4 header and footer sizes have
              \* been added to its length field

msgVars == <<addr, ack, framed>>
moteVars == <<tasks, running, at, isr, up, msgVars>>

RadioTasks == {"sendTask", "PacketSent", "PacketRcvd"}

Contexts == {"task", "interrupt"}

(* delivered says whether AM has handed the event on to the client.         *)
Events == [message : Messages, success : BOOLEAN, delivered : BOOLEAN]

Delivered(e) == [message |-> e.message, success |-> e.success, delivered |-> TRUE]

Destinations == {"unicast", "broadcast"}

ASSUME MoteAssumption ==
  /\ RadioTasks \subseteq Tasks
  /\ NoEvent \notin Events

MoteTypeOK ==
  /\ FifoTypeOK
  /\ at \in {"none", "start", "arm", "count", "client", "return"}
  /\ isr \in {"none", "fired", "sent", "wait", "abort"}
  /\ up \in [Contexts -> Events \cup {NoEvent}]
  /\ addr \in [Messages -> Destinations]
  /\ ack \in [Messages -> BOOLEAN]
  /\ framed \in [Messages -> 0 .. 1]

MoteInit ==
  /\ FifoInit
  /\ at = "none"
  /\ isr = "none"
  /\ up = [c \in Contexts |-> NoEvent]
  /\ addr = [m \in Messages |-> "broadcast"]
  /\ ack = [m \in Messages |-> FALSE]
  /\ framed = [m \in Messages |-> 0]
-----------------------------------------------------------------------------
(* The code of task t is at p: no handler has preempted it and the event    *)
(* handlers it signals have returned.                                       *)
TaskAt(t, p) ==
  /\ running = t
  /\ at = p
  /\ isr = "none"
  /\ up["task"] = NoEvent

(* The Timer2 compare handler is at p.                                      *)
IsrAt(p) ==
  /\ isr = p
  /\ up["interrupt"] = NoEvent

(* Client code runs as part of a task, in one of its own or in receive.     *)
ClientTask ==
  /\ at = "client"
  /\ isr = "none"
  /\ up["task"] = NoEvent

(* Client code runs in the sendDone event signalled in context c.           *)
ClientEvent(c) ==
  /\ up[c] # NoEvent
  /\ up[c].delivered
  /\ c = "task" => isr = "none"

ClientRuns == ClientTask \/ \E c \in Contexts : ClientEvent(c)

(* signal sendDone(m, success) in context c.                                *)
Signal(c, m, success) ==
  up' = [up EXCEPT ![c] = [message |-> m, success |-> success, delivered |-> FALSE]]

Pending(t) == Queued(t) \/ running = t
-----------------------------------------------------------------------------
(* TOSH_run_next_task pops a task and calls it.                             *)
RunTask ==
  /\ isr = "none"
  /\ RunNext
  /\ at' = "start"
  /\ UNCHANGED <<isr, up, msgVars>>

TaskEnds ==
  /\ at = "return"
  /\ isr = "none"
  /\ up["task"] = NoEvent
  /\ TaskReturns
  /\ at' = "none"
  /\ UNCHANGED <<isr, up, msgVars>>

(* A task of another component is posted, from a task or a handler.         *)
PostOther(t) ==
  /\ t \in Tasks \ RadioTasks
  /\ Post(t)
  /\ UNCHANGED <<at, isr, up, msgVars>>

OtherTask ==
  /\ at = "start"
  /\ isr = "none"
  /\ running \in Tasks \ RadioTasks
  /\ at' = "client"
  /\ UNCHANGED <<tasks, running, isr, up, msgVars>>

OtherTaskDone ==
  /\ ClientTask
  /\ running \in Tasks \ RadioTasks
  /\ at' = "return"
  /\ UNCHANGED <<tasks, running, isr, up, msgVars>>

(* The client's sendDone event handler returns.                             *)
EventReturns(c) ==
  /\ ClientEvent(c)
  /\ up' = [up EXCEPT ![c] = NoEvent]
  /\ UNCHANGED <<tasks, running, at, isr, msgVars>>
=============================================================================
