------------------------------ MODULE QueuedSend ------------------------------
(***************************************************************************)
(* The send queue, src/tos/lib/Queue/QueuedSendM.nc: a ring of messages, a *)
(* task that offers the message at its head to AM, and the sendDone events *)
(* of AM.  AM is used through the contract of SplitPhase, which RadioStack *)
(* implements: it holds one message, its own or that of another client,    *)
(* and hands it back once.                                                 *)
(*                                                                         *)
(* AM signals sendDone from a task or from the Timer2 handler.  In the     *)
(* model the event may come at any time and suspends the running task, as  *)
(* the handler does; from a task the same happens with fewer interleavings.*)
(***************************************************************************)
EXTENDS TaskFifo, Integers

CONSTANTS
  Messages,        \* the TOS_Msg buffers of the queue's clients
  NoMsg,           \* the NULL pointer
  Foreign,         \* the message of a client that uses AM directly
  NoEvent,         \* AM is not signalling sendDone
  Size,            \* MESSAGE_QUEUE_SIZE (32 in the build)
  Retransmit,      \* retransmit: FALSE unless init is edited
  MaxRetransmit,   \* MAX_RETRANSMIT_COUNT (5)
  Reserved,        \* task slots that other components leave free
  ForeignEnqueues  \* may another AM client queue a message in its sendDone ?

Service == "QueueServiceTask"

ASSUME QueueAssumption ==
  /\ NoMsg \notin Messages
  /\ Foreign \notin Messages \cup {NoMsg}
  /\ Size \in Nat /\ Size >= 2
  /\ Retransmit \in BOOLEAN
  /\ MaxRetransmit \in Nat
  /\ Reserved \in 0 .. MaxTasks
  /\ ForeignEnqueues \in BOOLEAN
  /\ Service \in Tasks

VARIABLES
  at,             \* the next thing the running task does
  event,          \* the sendDone being signalled
  serial,         \* the message AM holds
  ack,            \* the ack field of each message
  msgqueue,       \* the ring
  enqueue_next,   \* its first empty entry
  dequeue_next,   \* its oldest entry
  fQueueIdle,     \* nothing serves the ring
  tries           \* history: how often AM has taken each message

ringVars == <<msgqueue, enqueue_next, dequeue_next, fQueueIdle>>
vars == <<tasks, running, at, event, serial, ack, tries, ringVars>>

Slots == 0 .. Size - 1

Destinations == {"radio", "uart"}

Entries ==
  [pMsg : Messages \cup {NoMsg}, address : Destinations,
   xmit_count : 0 .. MaxRetransmit]

(* own says whether QueuedSend's handler goes on when the client's returns, *)
(* tried how often the message had been given to AM.                        *)
Events ==
  [message : Messages \cup {Foreign}, own : BOOLEAN, success : BOOLEAN,
   address : Destinations, acked : BOOLEAN, tried : Nat]

ASSUME EventAssumption == NoEvent \notin Events

TypeOK ==
  /\ FifoTypeOK
  /\ at \in {"none", "start", "send", "idle", "return"}
  /\ event \in Events \cup {NoEvent}
  /\ serial \in Messages \cup {NoMsg, Foreign}
  /\ ack \in [Messages -> BOOLEAN]
  /\ msgqueue \in [Slots -> Entries]
  /\ enqueue_next \in Slots
  /\ dequeue_next \in Slots
  /\ fQueueIdle \in BOOLEAN
  /\ tries \in [Messages -> Nat]

Init ==
  /\ FifoInit
  /\ at = "none"
  /\ event = NoEvent
  /\ serial = NoMsg
  /\ ack = [m \in Messages |-> FALSE]
  /\ tries = [m \in Messages |-> 0]
  /\ msgqueue =
       [s \in Slots |-> [pMsg |-> NoMsg, address |-> "radio", xmit_count |-> 0]]
  /\ enqueue_next = 0
  /\ dequeue_next = 0
  /\ fQueueIdle = TRUE
-----------------------------------------------------------------------------
(* Mutated: an index that is not wrapped.                                   *)
AfterUnwrapped(i) == i + 1

(* i++; i %= MESSAGE_QUEUE_SIZE                                             *)
After(i) == (i + 1) % Size

(* Mutated: the queue is never full.                                        *)
FullNever == FALSE

Full == After(enqueue_next) = dequeue_next

Oldest == msgqueue[dequeue_next]

(* The filter of sendDone: the event is for the message at the head.        *)
IsOldest(m) == m = Oldest.pMsg

(* The entries in use, oldest first.                                        *)
Used ==
  IF dequeue_next <= enqueue_next
  THEN enqueue_next - dequeue_next
  ELSE enqueue_next + Size - dequeue_next

Place(i) ==
  IF dequeue_next + i - 1 < Size
  THEN dequeue_next + i - 1
  ELSE dequeue_next + i - 1 - Size

(* The client has its message back while the event is signalled, though     *)
(* the entry is only released afterwards.                                   *)
Signalled == event # NoEvent /\ event.own

Released == IF Signalled THEN 1 ELSE 0

Pending == [i \in 1 .. Used - Released |-> msgqueue[Place(i + Released)].pMsg]
-----------------------------------------------------------------------------
(* post QueueServiceTask, whose result is ignored everywhere.               *)
PostService ==
  IF HasRoom THEN Post(Service) ELSE UNCHANGED <<tasks, running>>

(* Mutated: the task is posted though one is under way.                     *)
PostIfIdleAlways == PostService

PostIfIdle ==
  IF fQueueIdle THEN PostService ELSE UNCHANGED <<tasks, running>>

(* Mutated: nothing is posted.                                              *)
SendNextForgotten == UNCHANGED <<tasks, running>>

SendNext == PostService

(* Client code runs in a task of its own or in the event being signalled.   *)
ClientTask == event = NoEvent /\ running \in Tasks \ {Service} /\ at = "start"

ClientRuns ==
  \/ ClientTask
  \/ event # NoEvent /\ (event.message = Foreign => ForeignEnqueues)

(* Mutated: the ack field keeps its value from the last transmission.       *)
AckKept(m) == ack

AckCleared(m) == [ack EXCEPT ![m] = FALSE]

(* QueueSendMsg.send(to, length, m) of a buffer the client holds.  The test *)
(* and the update of the ring are one atomic block; a message that is too   *)
(* long or NULL is refused before it.                                       *)
QueueSendMsg_send(m, to) ==
  /\ ClientRuns
  /\ \A i \in 1 .. Len(Pending) : Pending[i] # m
  /\ ~Full
  /\ msgqueue' = [msgqueue EXCEPT ![enqueue_next] =
                    [pMsg |-> m, address |-> to, xmit_count |-> 0]]
  /\ enqueue_next' = After(enqueue_next)
  /\ ack' = AckCleared(m)
  /\ tries' = [tries EXCEPT ![m] = 0]
  /\ fQueueIdle' = FALSE
  /\ PostIfIdle
  /\ UNCHANGED <<at, event, serial, dequeue_next>>

(* A client of AM sends; AM takes the message if it is free and can post.   *)
ForeignSend ==
  /\ ClientTask \/ event # NoEvent
  /\ serial = NoMsg
  /\ HasRoom
  /\ serial' = Foreign
  /\ UNCHANGED <<tasks, running, at, event, ack, tries, ringVars>>
-----------------------------------------------------------------------------
RunTask ==
  /\ event = NoEvent
  /\ RunNext
  /\ at' = "start"
  /\ UNCHANGED <<event, serial, ack, tries, ringVars>>

(* QueueServiceTask tests the head of the ring ...                          *)
ServiceTests ==
  /\ event = NoEvent
  /\ running = Service
  /\ at = "start"
  /\ at' = IF Oldest.pMsg # NoMsg THEN "send" ELSE "idle"
  /\ UNCHANGED <<tasks, running, event, serial, ack, tries, ringVars>>

(* ... and gives the message to AM, ...                                     *)
SerialSendMsg_send ==
  /\ event = NoEvent
  /\ running = Service
  /\ at = "send"
  /\ serial = NoMsg
  /\ HasRoom
  /\ serial' = Oldest.pMsg
  /\ tries' = [tries EXCEPT ![Oldest.pMsg] = @ + 1]
  /\ at' = "return"
  /\ UNCHANGED <<tasks, running, event, ack, ringVars>>

(* Mutated: a message that AM refuses is not offered again.                 *)
OfferAgainForgotten == UNCHANGED <<tasks, running>>

OfferAgain == PostService

(* ... which refuses it, so that the task is posted again, ...              *)
SerialSendMsg_sendRefused ==
  /\ event = NoEvent
  /\ running = Service
  /\ at = "send"
  /\ serial # NoMsg \/ ~HasRoom
  /\ OfferAgain
  /\ at' = "return"
  /\ UNCHANGED <<event, serial, ack, tries, ringVars>>

(* ... or finds the ring empty.                                             *)
ServiceIdles ==
  /\ event = NoEvent
  /\ running = Service
  /\ at = "idle"
  /\ fQueueIdle' = TRUE
  /\ at' = "return"
  /\ UNCHANGED <<tasks, running, event, serial, ack, tries, msgqueue,
                 enqueue_next, dequeue_next>>

TaskEnds ==
  /\ event = NoEvent
  /\ at = "return" \/ ClientTask
  /\ TaskReturns
  /\ at' = "none"
  /\ UNCHANGED <<event, serial, ack, tries, ringVars>>

PostOther(t) ==
  /\ t # Service
  /\ Len(tasks) + Reserved < MaxTasks
  /\ Post(t)
  /\ UNCHANGED <<at, event, serial, ack, tries, ringVars>>
-----------------------------------------------------------------------------
(* Mutated: one transmission fewer.                                         *)
GivesUpEarly == Oldest.xmit_count + 1 >= MaxRetransmit

(* ++xmit_count > MAX_RETRANSMIT_COUNT                                      *)
GivesUp == Oldest.xmit_count + 1 > MaxRetransmit

(* No transmission of the message is left to do; a is its ack field.        *)
Finished(a) == ~Retransmit \/ a \/ Oldest.address = "uart"

(* AM signals sendDone with result ok for the message it holds.             *)
SendDone(ok) ==
  /\ event = NoEvent
  /\ serial # NoMsg
  /\ serial' = NoMsg
  /\ UNCHANGED <<at, tries, enqueue_next, dequeue_next, fQueueIdle>>

(* The event is not for the message at the head: another client's.          *)
SendDoneFiltered(ok) ==
  /\ SendDone(ok)
  /\ ~IsOldest(serial)
  /\ event' = [message |-> serial, own |-> FALSE, success |-> ok,
               address |-> Oldest.address, acked |-> FALSE, tried |-> 0]
  /\ UNCHANGED <<tasks, running, ack, msgqueue>>

(* The ack field when the transmission has ended: a failed one leaves it.   *)
AckAfter(ok, acked) == IF ok THEN acked ELSE ack[serial]

Signal(ok, acked) ==
  /\ event' = [message |-> serial, own |-> TRUE, success |-> ok,
               address |-> Oldest.address, acked |-> acked, tried |-> tries[serial]]
  /\ UNCHANGED <<tasks, running, msgqueue>>

(* The event is for the message at the head: the client is told, and may    *)
(* queue another message before the entry is released, ...                  *)
SendDoneFinished(ok, acked) ==
  /\ SendDone(ok)
  /\ IsOldest(serial)
  /\ Finished(AckAfter(ok, acked))
  /\ ack' = [ack EXCEPT ![serial] = AckAfter(ok, acked)]
  /\ Signal(ok, acked)

(* ... unless it is to be sent again ...                                    *)
SendDoneRetransmits(ok, acked) ==
  /\ SendDone(ok)
  /\ IsOldest(serial)
  /\ ~Finished(AckAfter(ok, acked))
  /\ ~GivesUp
  /\ ack' = [ack EXCEPT ![serial] = AckAfter(ok, acked)]
  /\ msgqueue' = [msgqueue EXCEPT ![dequeue_next].xmit_count = @ + 1]
  /\ SendNext
  /\ UNCHANGED event

(* ... and has not been sent too often.                                     *)
SendDoneGivesUp(ok, acked) ==
  /\ SendDone(ok)
  /\ IsOldest(serial)
  /\ ~Finished(AckAfter(ok, acked))
  /\ GivesUp
  /\ ack' = [ack EXCEPT ![serial] = AckAfter(ok, acked)]
  /\ Signal(FALSE, acked)

(* Mutated: the entry is left as it is.                                     *)
ReleasedEntryKept == msgqueue

ReleasedEntry == [msgqueue EXCEPT ![dequeue_next].pMsg = NoMsg]

(* The client's handler returns; QueuedSend's releases the entry.           *)
EventReturns ==
  /\ event # NoEvent
  /\ event' = NoEvent
  /\ IF event.own
     THEN /\ msgqueue' = ReleasedEntry
          /\ dequeue_next' = After(dequeue_next)
          /\ SendNext
     ELSE UNCHANGED <<tasks, running, msgqueue, dequeue_next>>
  /\ UNCHANGED <<at, serial, ack, tries, enqueue_next, fQueueIdle>>
-----------------------------------------------------------------------------
TaskStep ==
  \/ RunTask
  \/ ServiceTests
  \/ SerialSendMsg_send
  \/ SerialSendMsg_sendRefused
  \/ ServiceIdles
  \/ TaskEnds

(* An acknowledgement comes only with a transmission that succeeded.        *)
SerialStep ==
  \E ok, acked \in BOOLEAN :
    /\ acked => ok
    /\ \/ ~acked /\ SendDoneFiltered(ok)
       \/ SendDoneFinished(ok, acked)
       \/ SendDoneRetransmits(ok, acked)
       \/ SendDoneGivesUp(ok, acked)

ClientStep ==
  \/ \E m \in Messages, to \in Destinations : QueueSendMsg_send(m, to)
  \/ ForeignSend
  \/ \E t \in Tasks : PostOther(t)

Next == TaskStep \/ SerialStep \/ EventReturns \/ ClientStep

Safety == Init /\ [][Next]_vars

(* Tasks and handlers run to completion, and AM keeps its contract.         *)
Spec ==
  /\ Safety
  /\ WF_vars(TaskStep)
  /\ WF_vars(SerialStep)
  /\ WF_vars(EventReturns)
-----------------------------------------------------------------------------
(* The entries from dequeue_next to enqueue_next hold messages and no other *)
(* does: QueueServiceTask takes a NULL at dequeue_next for an empty ring.   *)
RingIsFilled ==
  \A s \in Slots :
    msgqueue[s].pMsg # NoMsg <=> \E i \in 1 .. Used : s = Place(i)

Serving == Service = running /\ at \in {"start", "send", "idle"}

OwnSerial == serial \in Messages

(* Whoever is to serve the ring next: nobody (idle), the task, AM with the  *)
(* message at the head, or the handler of its sendDone.                     *)
(* Never two of them: a second service task would offer the head to AM      *)
(* again, and its sendDone would be counted for the message behind it.      *)
OneServer ==
  /\ fQueueIdle => ~Queued(Service) /\ ~Serving /\ ~OwnSerial /\ ~Signalled
  /\ Queued(Service) => ~Serving /\ ~OwnSerial /\ ~Signalled
  /\ Serving => ~OwnSerial /\ ~Signalled
  /\ OwnSerial => ~Signalled
  /\ Once(Service)

(* "This would be internal error" (QueuedSendM.nc:166): AM holds a message  *)
(* of the queue only while it is the oldest, so its sendDone is accepted.   *)
NoInternalError == OwnSerial => IsOldest(serial)

(* "Send next" (QueuedSendM.nc:188): while messages are queued somebody is  *)
(* going to serve them.                                                     *)
NotStalled == Used > 0 => Queued(Service) \/ Serving \/ OwnSerial \/ Signalled

(* With retransmission a message is reported sent over the radio only when  *)
(* it was acknowledged, and given up only after all its transmissions.      *)
HonestReport ==
  Signalled /\ Retransmit /\ event.address = "radio" /\ ~event.acked =>
    /\ ~event.success
    /\ event.tried = MaxRetransmit + 1

Contract == INSTANCE SendQueue WITH pending <- Pending, Capacity <- Size - 1

(* Messages come back in the order in which they were accepted, each once.  *)
HandedBackInOrder == Contract!QueueSafety

Waiting(m) == \E i \in 1 .. Len(Pending) : Pending[i] = m

(* Every accepted message comes back, unless other clients of AM keep it    *)
(* busy for ever.                                                           *)
ComesBack ==
  \/ []<><<ForeignSend>>_vars
  \/ \A m \in Messages : Waiting(m) ~> ~Waiting(m)
=============================================================================
