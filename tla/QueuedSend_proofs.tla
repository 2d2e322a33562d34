-------------------------- MODULE QueuedSend_proofs --------------------------
(***************************************************************************)
(* The send queue keeps its ring and has at most one server, for every     *)
(* size, every number of messages and every task queue.                    *)
(***************************************************************************)
EXTENDS QueuedSend, TaskFifo_proofs

(* The entries in use, by their index.                                      *)
InUse(s) ==
  IF dequeue_next <= enqueue_next
  THEN dequeue_next <= s /\ s < enqueue_next
  ELSE dequeue_next <= s \/ s < enqueue_next

Filled == \A s \in Slots : msgqueue[s].pMsg # NoMsg <=> InUse(s)

(* Where the contexts are, and what they have made sure of before.          *)
Positions ==
  /\ at \in {"send", "idle"} => running = Service
  /\ running = NoTask <=> at = "none"
  /\ at = "send" => Oldest.pMsg # NoMsg
  /\ event # NoEvent /\ ~event.own => event.message = Foreign
  /\ Signalled => enqueue_next # dequeue_next

IInv == TypeOK /\ Filled /\ OneServer /\ NoInternalError /\ Positions
-----------------------------------------------------------------------------
LEMMA AfterIs ==
  ASSUME NEW i \in Slots
  PROVE  /\ After(i) = IF i + 1 = Size THEN 0 ELSE i + 1
         /\ After(i) \in Slots
<1>1. CASE i + 1 = Size
  <2>1. (i + 1) % Size = 0
    BY <1>1, QueueAssumption DEF Slots
  <2>. QED  BY <1>1, <2>1, QueueAssumption DEF After, Slots
<1>2. CASE i + 1 # Size
  <2>1. (i + 1) % Size = i + 1
    BY <1>2, QueueAssumption DEF Slots
  <2>. QED  BY <1>2, <2>1, QueueAssumption DEF After, Slots
<1>. QED  BY <1>1, <1>2

(* post QueueServiceTask when no service task is posted: the task queue     *)
(* stays well formed and holds at most this one.                            *)
LEMMA PostServiceFacts ==
  ASSUME FifoTypeOK, Once(Service), ~Queued(Service), PostService
  PROVE  /\ FifoTypeOK'
         /\ Once(Service)'
         /\ HasRoom => Queued(Service)'
         /\ ~HasRoom => ~Queued(Service)'
         /\ running' = running
<1>1. CASE HasRoom
  <2>1. Post(Service) /\ Service \in Tasks
    BY <1>1, QueueAssumption DEF PostService
  <2>. QED  BY <1>1, <2>1, PostQueue DEF Post
<1>2. CASE ~HasRoom
  BY <1>2, SameQueue DEF PostService, FifoTypeOK
<1>. QED  BY <1>1, <1>2

LEMMA InitInv == Init => IInv
<1>. SUFFICES ASSUME Init PROVE IInv
  OBVIOUS
<1>1. 0 \in Slots /\ \A s \in Slots : s \in Int /\ 0 <= s
  BY QueueAssumption DEF Slots
<1>2. tasks = <<>> /\ ~Queued(Service) /\ Once(Service) /\ FifoTypeOK
  BY FifoAssumption DEF Init, FifoInit, Queued, Once, FifoTypeOK
<1>3. TypeOK
  BY <1>1, <1>2, QueueAssumption DEF Init, TypeOK, Entries, Destinations
<1>4. Filled
  BY <1>1 DEF Init, Filled, InUse
<1>5. OneServer /\ NoInternalError
  BY <1>2, QueueAssumption, FifoAssumption
  DEF Init, FifoInit, OneServer, NoInternalError, Serving, OwnSerial, Signalled
<1>6. Positions
  BY FifoAssumption DEF Init, FifoInit, Positions, Signalled
<1>. QED  BY <1>3, <1>4, <1>5, <1>6 DEF IInv

LEMMA RunTaskInv == ASSUME IInv, RunTask PROVE IInv'
<1>1. /\ FifoTypeOK' /\ running' \in Tasks
      /\ Queued(Service) <=> Queued(Service)' \/ Service = running'
      /\ Once(Service)' /\ (Service = running' => ~Queued(Service)')
  BY RunQueue DEF IInv, TypeOK, OneServer, RunTask
<1>2. /\ UNCHANGED <<event, serial, ack, tries, msgqueue, enqueue_next, dequeue_next, fQueueIdle>>
      /\ at' = "start" /\ running = NoTask
  BY DEF RunTask, RunNext, ringVars
<1>3. TypeOK'
  BY <1>1, <1>2 DEF IInv, TypeOK
<1>4. Filled' /\ NoInternalError'
  BY <1>2 DEF IInv, Filled, InUse, NoInternalError, OwnSerial, IsOldest, Oldest
<1>5. OneServer'
  <2>1. (OwnSerial' <=> OwnSerial) /\ (Signalled' <=> Signalled) /\ (Serving' <=> Service = running')
    BY <1>2 DEF OwnSerial, Signalled, Serving
  <2>. QED  BY <1>1, <1>2, <2>1 DEF IInv, OneServer
<1>6. Positions'
  BY <1>1, <1>2, FifoAssumption DEF IInv, Positions, Signalled
<1>. QED  BY <1>3, <1>4, <1>5, <1>6 DEF IInv

LEMMA ServiceTestsInv == ASSUME IInv, ServiceTests PROVE IInv'
<1>1. /\ UNCHANGED <<tasks, running, event, serial, ack, tries, msgqueue, enqueue_next,
                     dequeue_next, fQueueIdle>>
      /\ at = "start" /\ running = Service
      /\ at' = IF Oldest.pMsg # NoMsg THEN "send" ELSE "idle"
  BY DEF ServiceTests, ringVars
<1>2. TypeOK'
  BY <1>1 DEF IInv, TypeOK, FifoTypeOK
<1>3. Filled' /\ NoInternalError'
  BY <1>1 DEF IInv, Filled, InUse, NoInternalError, OwnSerial, IsOldest, Oldest
<1>4. OneServer'
  BY <1>1, SameQueue DEF IInv, OneServer, OwnSerial, Signalled, Serving
<1>5. Positions'
  BY <1>1, QueueAssumption, FifoAssumption DEF IInv, Positions, Signalled, Oldest
<1>. QED  BY <1>2, <1>3, <1>4, <1>5 DEF IInv

LEMMA SerialSendMsg_sendInv == ASSUME IInv, SerialSendMsg_send PROVE IInv'
<1>1. /\ UNCHANGED <<tasks, running, event, ack, msgqueue, enqueue_next,
                     dequeue_next, fQueueIdle>>
      /\ at = "send" /\ running = Service /\ at' = "return"
      /\ event = NoEvent /\ serial = NoMsg
      /\ serial' = Oldest.pMsg
      /\ tries' = [tries EXCEPT ![Oldest.pMsg] = @ + 1]
  BY DEF SerialSendMsg_send, ringVars
<1>2. Oldest.pMsg \in Messages
  BY <1>1 DEF IInv, TypeOK, Positions, Oldest, Entries
<1>3. TypeOK'
  BY <1>1, <1>2 DEF IInv, TypeOK, FifoTypeOK
<1>4. Filled' /\ NoInternalError'
  BY <1>1 DEF IInv, Filled, InUse, NoInternalError, OwnSerial, IsOldest, Oldest
<1>5. OneServer'
  BY <1>1, SameQueue DEF IInv, OneServer, OwnSerial, Signalled, Serving
<1>6. Positions'
  BY <1>1, QueueAssumption, FifoAssumption DEF IInv, Positions, Signalled, Oldest
<1>. QED  BY <1>3, <1>4, <1>5, <1>6 DEF IInv

LEMMA SerialSendMsg_sendRefusedInv == ASSUME IInv, SerialSendMsg_sendRefused PROVE IInv'
<1>1. /\ UNCHANGED <<event, serial, ack, tries, msgqueue, enqueue_next,
                     dequeue_next, fQueueIdle>>
      /\ at = "send" /\ running = Service /\ at' = "return"
      /\ event = NoEvent /\ PostService
  BY DEF SerialSendMsg_sendRefused, OfferAgain, ringVars
<1>2. Serving /\ ~Queued(Service) /\ ~OwnSerial /\ ~Signalled /\ ~fQueueIdle
  BY <1>1 DEF IInv, OneServer, Serving
<1>3. FifoTypeOK' /\ Once(Service)' /\ running' = running
  BY <1>1, <1>2, PostServiceFacts DEF IInv, TypeOK, OneServer
<1>4. TypeOK'
  BY <1>1, <1>3 DEF IInv, TypeOK
<1>5. Filled' /\ NoInternalError'
  BY <1>1 DEF IInv, Filled, InUse, NoInternalError, OwnSerial, IsOldest, Oldest
<1>6. OneServer'
  BY <1>1, <1>2, <1>3 DEF OneServer, OwnSerial, Signalled, Serving
<1>7. Positions'
  BY <1>1, <1>3, QueueAssumption, FifoAssumption DEF IInv, Positions, Signalled, Oldest
<1>. QED  BY <1>4, <1>5, <1>6, <1>7 DEF IInv

LEMMA ServiceIdlesInv == ASSUME IInv, ServiceIdles PROVE IInv'
<1>1. /\ UNCHANGED <<tasks, running, event, serial, ack, tries, msgqueue, enqueue_next,
                     dequeue_next>>
      /\ at = "idle" /\ running = Service /\ at' = "return" /\ fQueueIdle' = TRUE
      /\ event = NoEvent
  BY DEF ServiceIdles
<1>2. Serving /\ ~Queued(Service) /\ ~OwnSerial /\ ~Signalled
  BY <1>1 DEF IInv, OneServer, Serving
<1>3. TypeOK'
  BY <1>1 DEF IInv, TypeOK, FifoTypeOK
<1>4. Filled' /\ NoInternalError'
  BY <1>1 DEF IInv, Filled, InUse, NoInternalError, OwnSerial, IsOldest, Oldest
<1>5. OneServer'
  BY <1>1, <1>2, SameQueue DEF IInv, OneServer, OwnSerial, Signalled, Serving
<1>6. Positions'
  BY <1>1, QueueAssumption, FifoAssumption DEF IInv, Positions, Signalled, Oldest
<1>. QED  BY <1>3, <1>4, <1>5, <1>6 DEF IInv

LEMMA TaskEndsInv == ASSUME IInv, TaskEnds PROVE IInv'
<1>1. /\ UNCHANGED <<tasks, event, serial, ack, tries, msgqueue, enqueue_next,
                     dequeue_next, fQueueIdle>>
      /\ running' = NoTask /\ at' = "none"
      /\ ~Serving
  BY DEF TaskEnds, TaskReturns, ringVars, ClientTask, Serving
<1>2. TypeOK'
  BY <1>1 DEF IInv, TypeOK, FifoTypeOK
<1>3. Filled' /\ NoInternalError'
  BY <1>1 DEF IInv, Filled, InUse, NoInternalError, OwnSerial, IsOldest, Oldest
<1>4. OneServer'
  BY <1>1, SameQueue DEF IInv, OneServer, OwnSerial, Signalled, Serving
<1>5. Positions'
  BY <1>1, FifoAssumption DEF IInv, Positions, Signalled, Oldest
<1>. QED  BY <1>2, <1>3, <1>4, <1>5 DEF IInv

LEMMA PostOtherInv == ASSUME IInv, NEW t \in Tasks, PostOther(t) PROVE IInv'
<1>1. /\ UNCHANGED <<running, at, event, serial, ack, tries, msgqueue, enqueue_next,
                     dequeue_next, fQueueIdle>>
      /\ t # Service /\ Post(t)
  BY DEF PostOther, Post, ringVars
<1>2. FifoTypeOK' /\ (Queued(Service)' <=> Queued(Service)) /\ Once(Service)'
  BY <1>1, PostQueue DEF IInv, TypeOK, OneServer
<1>3. TypeOK'
  BY <1>1, <1>2 DEF IInv, TypeOK
<1>4. Filled' /\ NoInternalError'
  BY <1>1 DEF IInv, Filled, InUse, NoInternalError, OwnSerial, IsOldest, Oldest
<1>5. OneServer'
  BY <1>1, <1>2 DEF IInv, OneServer, OwnSerial, Signalled, Serving
<1>6. Positions'
  BY <1>1 DEF IInv, Positions, Signalled, Oldest
<1>. QED  BY <1>3, <1>4, <1>5, <1>6 DEF IInv

LEMMA ForeignSendInv == ASSUME IInv, ForeignSend PROVE IInv'
<1>1. /\ UNCHANGED <<tasks, running, at, event, ack, tries, msgqueue, enqueue_next,
                     dequeue_next, fQueueIdle>>
      /\ serial' = Foreign /\ Foreign \notin Messages
  BY QueueAssumption DEF ForeignSend, ringVars
<1>2. TypeOK'
  BY <1>1 DEF IInv, TypeOK, FifoTypeOK
<1>3. Filled' /\ NoInternalError'
  BY <1>1 DEF IInv, Filled, InUse, NoInternalError, OwnSerial, IsOldest, Oldest
<1>4. OneServer'
  BY <1>1, SameQueue DEF IInv, OneServer, OwnSerial, Signalled, Serving
<1>5. Positions'
  BY <1>1 DEF IInv, Positions, Signalled, Oldest
<1>. QED  BY <1>2, <1>3, <1>4, <1>5 DEF IInv

(* The end of a transmission that is signalled to the client: AM had the    *)
(* message at the head.                                                     *)
LEMMA SignalInv ==
  ASSUME IInv, NEW ok \in BOOLEAN, NEW acked \in BOOLEAN, NEW result \in BOOLEAN,
         SendDone(ok), IsOldest(serial), Signal(result, acked),
         ack' = [ack EXCEPT ![serial] = AckAfter(ok, acked)]
  PROVE  IInv'
<1>1. /\ UNCHANGED <<tasks, running, at, tries, msgqueue, enqueue_next, dequeue_next,
                     fQueueIdle>>
      /\ event = NoEvent /\ serial # NoMsg /\ serial' = NoMsg
      /\ event' = [message |-> serial, own |-> TRUE, success |-> result,
                   address |-> Oldest.address, acked |-> acked, tried |-> tries[serial]]
  BY DEF SendDone, Signal
<1>2. Oldest \in Entries /\ serial = Oldest.pMsg /\ serial \in Messages
  BY <1>1 DEF IInv, TypeOK, Oldest, IsOldest, Entries
<1>3. OwnSerial /\ ~Queued(Service) /\ ~Serving /\ ~fQueueIdle
  BY <1>2 DEF IInv, OneServer, OwnSerial
<1>4. event' \in Events /\ event'.own
  BY <1>1, <1>2 DEF IInv, TypeOK, Events, Entries
<1>5. ack' \in [Messages -> BOOLEAN]
  <2>1. AckAfter(ok, acked) \in BOOLEAN
    BY <1>2 DEF AckAfter, IInv, TypeOK
  <2>. QED  BY <1>2, <2>1 DEF IInv, TypeOK
<1>6. TypeOK'
  BY <1>1, <1>4, <1>5 DEF IInv, TypeOK, FifoTypeOK
<1>7. Filled' /\ NoInternalError'
  BY <1>1, QueueAssumption DEF IInv, Filled, InUse, NoInternalError, OwnSerial
<1>8. OneServer'
  <2>1. ~OwnSerial' /\ ~Serving'
    BY <1>1, <1>3, QueueAssumption DEF OwnSerial, Serving
  <2>. QED  BY <1>1, <1>3, <2>1, SameQueue DEF IInv, OneServer
<1>9. Positions'
  <2>1. dequeue_next \in Slots /\ enqueue_next # dequeue_next
    BY <1>1, <1>2, QueueAssumption DEF IInv, TypeOK, Filled, InUse, Oldest, Slots
  <2>. QED  BY <1>1, <1>4, <2>1 DEF IInv, Positions, Signalled, Oldest
<1>. QED  BY <1>6, <1>7, <1>8, <1>9 DEF IInv

LEMMA SendDoneFilteredInv ==
  ASSUME IInv, NEW ok \in BOOLEAN, SendDoneFiltered(ok) PROVE IInv'
<1>1. /\ UNCHANGED <<tasks, running, at, ack, tries, msgqueue, enqueue_next, dequeue_next,
                     fQueueIdle>>
      /\ event = NoEvent /\ serial # NoMsg /\ serial' = NoMsg
      /\ event' = [message |-> serial, own |-> FALSE, success |-> ok,
                   address |-> Oldest.address, acked |-> FALSE, tried |-> 0]
  BY DEF SendDoneFiltered, SendDone
<1>2. Oldest \in Entries /\ serial = Foreign
  <2>1. ~OwnSerial
    BY DEF IInv, NoInternalError, SendDoneFiltered
  <2>. QED  BY <1>1, <2>1 DEF IInv, TypeOK, Oldest, OwnSerial
<1>3. event' \in Events /\ ~event'.own /\ event'.message = Foreign
  BY <1>1, <1>2 DEF Events, Entries
<1>4. TypeOK'
  BY <1>1, <1>3 DEF IInv, TypeOK, FifoTypeOK
<1>5. Filled' /\ NoInternalError'
  BY <1>1, QueueAssumption DEF IInv, Filled, InUse, NoInternalError, OwnSerial
<1>6. OneServer'
  <2>1. ~OwnSerial' /\ (Serving' <=> Serving) /\ ~Signalled'
    BY <1>1, <1>3, QueueAssumption DEF OwnSerial, Serving, Signalled
  <2>. QED  BY <1>1, <2>1, SameQueue DEF IInv, OneServer
<1>7. Positions'
  BY <1>1, <1>3 DEF IInv, Positions, Signalled, Oldest
<1>. QED  BY <1>4, <1>5, <1>6, <1>7 DEF IInv

LEMMA SendDoneRetransmitsInv ==
  ASSUME IInv, NEW ok \in BOOLEAN, NEW acked \in BOOLEAN, SendDoneRetransmits(ok, acked)
  PROVE  IInv'
<1>1. /\ UNCHANGED <<at, event, tries, enqueue_next, dequeue_next, fQueueIdle>>
      /\ event = NoEvent /\ serial # NoMsg /\ serial' = NoMsg
      /\ ack' = [ack EXCEPT ![serial] = AckAfter(ok, acked)]
      /\ msgqueue' = [msgqueue EXCEPT ![dequeue_next].xmit_count = @ + 1]
      /\ PostService /\ ~GivesUp /\ IsOldest(serial)
  BY DEF SendDoneRetransmits, SendDone, SendNext
<1>2. Oldest \in Entries /\ serial = Oldest.pMsg /\ serial \in Messages
  BY <1>1 DEF IInv, TypeOK, Oldest, IsOldest, Entries
<1>3. OwnSerial /\ ~Queued(Service) /\ ~Serving /\ ~Signalled /\ ~fQueueIdle
  BY <1>2 DEF IInv, OneServer, OwnSerial
<1>4. FifoTypeOK' /\ Once(Service)' /\ running' = running
  BY <1>1, <1>3, PostServiceFacts DEF IInv, TypeOK, OneServer
<1>5. /\ msgqueue' \in [Slots -> Entries]
      /\ \A s \in Slots : msgqueue'[s].pMsg = msgqueue[s].pMsg
  <2>1. Oldest.xmit_count + 1 \in 0 .. MaxRetransmit
    BY <1>1, <1>2, QueueAssumption DEF GivesUp, Entries
  <2>2. [Oldest EXCEPT !.xmit_count = @ + 1] \in Entries
    BY <1>2, <2>1 DEF Entries
  <2>3. msgqueue' = [msgqueue EXCEPT ![dequeue_next] = [Oldest EXCEPT !.xmit_count = @ + 1]]
    BY <1>1 DEF Oldest
  <2>4. [Oldest EXCEPT !.xmit_count = @ + 1].pMsg = Oldest.pMsg
    BY <1>2 DEF Entries
  <2>. QED  BY <2>2, <2>3, <2>4 DEF IInv, TypeOK, Oldest
<1>6. ack' \in [Messages -> BOOLEAN]
  <2>1. AckAfter(ok, acked) \in BOOLEAN
    BY <1>2 DEF AckAfter, IInv, TypeOK
  <2>. QED  BY <1>1, <1>2, <2>1 DEF IInv, TypeOK
<1>7. TypeOK'
  BY <1>1, <1>4, <1>5, <1>6 DEF IInv, TypeOK
<1>8. Filled' /\ NoInternalError'
  BY <1>1, <1>5, QueueAssumption DEF IInv, Filled, InUse, NoInternalError, OwnSerial
<1>9. OneServer'
  <2>1. ~OwnSerial' /\ ~Serving' /\ ~Signalled'
    BY <1>1, <1>3, <1>4, QueueAssumption DEF OwnSerial, Serving, Signalled
  <2>. QED  BY <1>1, <1>3, <1>4, <2>1 DEF OneServer
<1>10. Positions'
  <2>1. Oldest'.pMsg = Oldest.pMsg
    BY <1>1, <1>5 DEF Oldest, IInv, TypeOK
  <2>. QED  BY <1>1, <1>4, <2>1 DEF IInv, Positions, Signalled
<1>. QED  BY <1>7, <1>8, <1>9, <1>10 DEF IInv

LEMMA EventReturnsInv == ASSUME IInv, EventReturns PROVE IInv'
<1>1. /\ UNCHANGED <<at, serial, ack, tries, enqueue_next, fQueueIdle>>
      /\ event # NoEvent /\ event' = NoEvent
  BY DEF EventReturns
<1>2. CASE ~event.own
  <2>1. UNCHANGED <<tasks, running, msgqueue, dequeue_next>>
    BY <1>2 DEF EventReturns
  <2>2. TypeOK'
    BY <1>1, <2>1 DEF IInv, TypeOK, FifoTypeOK
  <2>3. Filled' /\ NoInternalError'
    BY <1>1, <2>1 DEF IInv, Filled, InUse, NoInternalError, OwnSerial, IsOldest, Oldest
  <2>4. OneServer'
    BY <1>1, <1>2, <2>1, SameQueue DEF IInv, OneServer, OwnSerial, Signalled, Serving
  <2>5. Positions'
    BY <1>1, <1>2, <2>1 DEF IInv, Positions, Signalled, Oldest
  <2>. QED  BY <2>2, <2>3, <2>4, <2>5 DEF IInv
<1>3. CASE event.own
  <2>1. /\ msgqueue' = ReleasedEntry
        /\ dequeue_next' = After(dequeue_next)
        /\ PostService
    BY <1>3 DEF EventReturns, SendNext
  <2>2. Signalled /\ ~Queued(Service) /\ ~Serving /\ ~OwnSerial /\ ~fQueueIdle
    BY <1>1, <1>3 DEF IInv, OneServer, Signalled
  <2>3. FifoTypeOK' /\ Once(Service)' /\ running' = running
    BY <2>1, <2>2, PostServiceFacts DEF IInv, TypeOK, OneServer
  <2>4. /\ dequeue_next \in Slots /\ enqueue_next \in Slots
        /\ enqueue_next # dequeue_next
        /\ dequeue_next' = IF dequeue_next + 1 = Size THEN 0 ELSE dequeue_next + 1
        /\ dequeue_next' \in Slots
    BY <2>1, <2>2, AfterIs DEF IInv, TypeOK, Positions
  <2>5. /\ msgqueue' \in [Slots -> Entries]
        /\ msgqueue'[dequeue_next].pMsg = NoMsg
        /\ \A s \in Slots : s # dequeue_next => msgqueue'[s] = msgqueue[s]
    <3>1. Oldest \in Entries
      BY <2>4 DEF Oldest, IInv, TypeOK
    <3>2. [Oldest EXCEPT !.pMsg = NoMsg] \in Entries /\ [Oldest EXCEPT !.pMsg = NoMsg].pMsg = NoMsg
      BY <3>1 DEF Entries
    <3>3. msgqueue' = [msgqueue EXCEPT ![dequeue_next] = [Oldest EXCEPT !.pMsg = NoMsg]]
      BY <2>1 DEF ReleasedEntry, Oldest
    <3>. QED  BY <2>4, <3>2, <3>3 DEF IInv, TypeOK
  <2>6. TypeOK'
    BY <1>1, <2>3, <2>4, <2>5 DEF IInv, TypeOK
  <2>7. Filled'
    <3>1. \A s \in Slots : InUse(s)' <=> InUse(s) /\ s # dequeue_next
      BY <1>1, <2>4, QueueAssumption DEF InUse, Slots
    <3>. QED  BY <2>5, <3>1 DEF IInv, Filled
  <2>8. ~OwnSerial' /\ ~Signalled' /\ ~Serving'
    BY <1>1, <2>2, <2>3 DEF OwnSerial, Signalled, Serving
  <2>9. NoInternalError' /\ OneServer'
    BY <1>1, <2>2, <2>3, <2>8 DEF NoInternalError, OneServer
  <2>10. Positions'
    <3>1. at # "send"
      BY <2>2 DEF IInv, Positions, Serving
    <3>. QED  BY <1>1, <2>3, <2>8, <3>1 DEF IInv, Positions
  <2>. QED  BY <2>6, <2>7, <2>9, <2>10 DEF IInv
<1>. QED  BY <1>2, <1>3

LEMMA QueueSendMsg_sendInv ==
  ASSUME IInv, NEW m \in Messages, NEW to \in Destinations, QueueSendMsg_send(m, to)
  PROVE  IInv'
<1>1. /\ UNCHANGED <<at, event, serial, dequeue_next>>
      /\ msgqueue' = [msgqueue EXCEPT ![enqueue_next] =
                        [pMsg |-> m, address |-> to, xmit_count |-> 0]]
      /\ enqueue_next' = After(enqueue_next)
      /\ ack' = [ack EXCEPT ![m] = FALSE]
      /\ tries' = [tries EXCEPT ![m] = 0]
      /\ fQueueIdle' = FALSE
      /\ fQueueIdle => PostService
      /\ ~fQueueIdle => UNCHANGED <<tasks, running>>
      /\ After(enqueue_next) # dequeue_next
  BY DEF QueueSendMsg_send, AckCleared, PostIfIdle, Full
<1>2. /\ dequeue_next \in Slots /\ enqueue_next \in Slots
      /\ enqueue_next' = IF enqueue_next + 1 = Size THEN 0 ELSE enqueue_next + 1
      /\ enqueue_next' \in Slots /\ enqueue_next' # dequeue_next
  BY <1>1, AfterIs DEF IInv, TypeOK
<1>3. FifoTypeOK' /\ Once(Service)' /\ running' = running
  BY <1>1, PostServiceFacts, SameQueue DEF IInv, TypeOK, OneServer, FifoTypeOK
<1>4. /\ msgqueue' \in [Slots -> Entries]
      /\ msgqueue'[enqueue_next].pMsg = m
      /\ \A s \in Slots : s # enqueue_next => msgqueue'[s] = msgqueue[s]
  <2>1. [pMsg |-> m, address |-> to, xmit_count |-> 0] \in Entries
    BY QueueAssumption DEF Entries
  <2>. QED  BY <1>1, <1>2, <2>1 DEF IInv, TypeOK
<1>5. TypeOK'
  BY <1>1, <1>2, <1>3, <1>4 DEF IInv, TypeOK
<1>6. Filled'
  <2>1. \A s \in Slots : InUse(s)' <=> InUse(s) \/ s = enqueue_next
    BY <1>1, <1>2, QueueAssumption DEF InUse, Slots
  <2>2. m # NoMsg
    BY QueueAssumption
  <2>. QED  BY <1>4, <2>1, <2>2 DEF IInv, Filled
<1>7. enqueue_next # dequeue_next => Oldest' = Oldest
  BY <1>1, <1>2, <1>4 DEF Oldest
<1>8. ~InUse(enqueue_next)
  BY <1>2, QueueAssumption DEF InUse, Slots
<1>9. NoInternalError'
  <2>1. ASSUME OwnSerial PROVE enqueue_next # dequeue_next
    <3>1. Oldest.pMsg # NoMsg
      BY <2>1, QueueAssumption DEF IInv, NoInternalError, IsOldest, OwnSerial
    <3>. QED  BY <3>1, <1>2, <1>8 DEF IInv, Filled, Oldest
  <2>. QED  BY <1>1, <1>7, <2>1 DEF IInv, NoInternalError, OwnSerial, IsOldest
<1>10. OneServer'
  <2>1. /\ (OwnSerial' <=> OwnSerial) /\ (Signalled' <=> Signalled) /\ (Serving' <=> Serving)
    BY <1>1, <1>3 DEF OwnSerial, Signalled, Serving
  <2>2. CASE fQueueIdle
    BY <1>1, <1>3, <2>1, <2>2 DEF IInv, OneServer
  <2>3. CASE ~fQueueIdle
    BY <1>1, <1>3, <2>1, <2>3, SameQueue DEF IInv, OneServer
  <2>. QED  BY <2>2, <2>3
<1>11. Positions'
  <2>1. at = "send" => enqueue_next # dequeue_next
    BY <1>2, <1>8 DEF IInv, Positions, Filled, Oldest
  <2>2. at = "send" => Oldest'.pMsg # NoMsg
    BY <1>7, <2>1 DEF IInv, Positions
  <2>. QED  BY <1>1, <1>2, <1>3, <2>2 DEF IInv, Positions, Signalled
<1>. QED  BY <1>5, <1>6, <1>9, <1>10, <1>11 DEF IInv
-----------------------------------------------------------------------------
LEMMA StepInv == IInv /\ [Next]_vars => IInv'
<1>. SUFFICES ASSUME IInv, [Next]_vars PROVE IInv'
  OBVIOUS
<1>1. CASE TaskStep
  BY <1>1, RunTaskInv, ServiceTestsInv, SerialSendMsg_sendInv, SerialSendMsg_sendRefusedInv,
     ServiceIdlesInv, TaskEndsInv DEF TaskStep
<1>2. CASE SerialStep
  <2>. SUFFICES ASSUME NEW ok \in BOOLEAN, NEW acked \in BOOLEAN,
                       \/ SendDoneFiltered(ok)
                       \/ SendDoneFinished(ok, acked)
                       \/ SendDoneRetransmits(ok, acked)
                       \/ SendDoneGivesUp(ok, acked)
                PROVE  IInv'
    BY <1>2 DEF SerialStep
  <2>1. ASSUME SendDoneFinished(ok, acked) PROVE IInv'
    BY <2>1, SignalInv DEF SendDoneFinished
  <2>2. ASSUME SendDoneGivesUp(ok, acked) PROVE IInv'
    BY <2>2, SignalInv DEF SendDoneGivesUp
  <2>. QED  BY <2>1, <2>2, SendDoneFilteredInv, SendDoneRetransmitsInv
<1>3. CASE ClientStep
  BY <1>3, QueueSendMsg_sendInv, ForeignSendInv, PostOtherInv DEF ClientStep
<1>4. CASE UNCHANGED vars
  BY <1>4, SameQueue DEF vars, ringVars, IInv, TypeOK, FifoTypeOK, Filled, InUse, OneServer,
     NoInternalError, Positions, OwnSerial, Serving, Signalled, IsOldest, Oldest
<1>. QED  BY <1>1, <1>2, <1>3, <1>4, EventReturnsInv DEF Next

LEMMA Invariance == Safety => []IInv
BY InitInv, StepInv, PTL DEF Safety

(* Place numbers the entries in use.                                        *)
LEMMA PlaceFacts ==
  ASSUME TypeOK
  PROVE  /\ Used \in 0 .. Size - 1
         /\ \A i \in 1 .. Used : Place(i) \in Slots /\ InUse(Place(i))
         /\ \A s \in Slots : InUse(s) => \E i \in 1 .. Used : s = Place(i)
<1>. USE QueueAssumption
<1>1. Used \in 0 .. Size - 1
  BY DEF TypeOK, Used, Slots
<1>2. \A i \in 1 .. Used : Place(i) \in Slots /\ InUse(Place(i))
  BY DEF TypeOK, Used, Slots, Place, InUse
<1>3. ASSUME NEW s \in Slots, InUse(s) PROVE \E i \in 1 .. Used : s = Place(i)
  <2>1. CASE dequeue_next <= s
    <3>1. s - dequeue_next + 1 \in 1 .. Used /\ s = Place(s - dequeue_next + 1)
      BY <1>3, <2>1 DEF TypeOK, Used, Slots, Place, InUse
    <3>. QED  BY <3>1
  <2>2. CASE ~(dequeue_next <= s)
    <3>1. /\ s - dequeue_next + 1 + Size \in 1 .. Used
          /\ s = Place(s - dequeue_next + 1 + Size)
      BY <1>3, <2>2 DEF TypeOK, Used, Slots, Place, InUse
    <3>. QED  BY <3>1
  <2>. QED  BY <2>1, <2>2 DEF TypeOK, Slots
<1>. QED  BY <1>1, <1>2, <1>3

(* The indices stay inside the ring, and a retransmission count inside its  *)
(* limit (QueuedSendM.nc send, sendDone).                                   *)
THEOREM TypeCorrect == Safety => []TypeOK
<1>1. IInv => TypeOK
  BY DEF IInv
<1>. QED  BY <1>1, Invariance, PTL

(* The entries between the indices hold messages, the others NULL.          *)
THEOREM RingIsFilledAlways == Safety => []RingIsFilled
<1>1. IInv => RingIsFilled
  <2>. SUFFICES ASSUME IInv, NEW s \in Slots
                PROVE  InUse(s) <=> \E i \in 1 .. Used : s = Place(i)
    BY DEF IInv, Filled, RingIsFilled
  <2>. QED  BY PlaceFacts DEF IInv
<1>. QED  BY <1>1, Invariance, PTL

(* The service task, AM's copy of the head and the event for it never exist *)
(* twice or together (QueueServiceTask, send, sendDone).                    *)
THEOREM OneServerAlways == Safety => []OneServer
<1>1. IInv => OneServer
  BY DEF IInv
<1>. QED  BY <1>1, Invariance, PTL

(* The "internal error" of sendDone does not happen.                        *)
THEOREM NoInternalErrorAlways == Safety => []NoInternalError
<1>1. IInv => NoInternalError
  BY DEF IInv
<1>. QED  BY <1>1, Invariance, PTL
-----------------------------------------------------------------------------
(* What keeps the queue going when a task slot is left for its service task *)
(* and no other client queues a message from a handler that interrupts it.  *)
Alive ==
  /\ Queued(Service) \/ HasRoom
  /\ fQueueIdle \/ Queued(Service) \/ Serving \/ OwnSerial \/ Signalled
  /\ fQueueIdle => enqueue_next = dequeue_next
  /\ at = "idle" => enqueue_next = dequeue_next

Going == Reserved > 0 /\ ~ForeignEnqueues /\ IInv /\ Alive

LEMMA InitAlive == Reserved > 0 /\ ~ForeignEnqueues /\ Init => Going
BY InitInv, FifoAssumption DEF Init, FifoInit, HasRoom, Going, Alive

LEMMA TaskStepAlive == ASSUME Going, TaskStep PROVE Alive'
<1>1. CASE RunTask
  <2>1. /\ UNCHANGED <<event, serial, enqueue_next, dequeue_next, fQueueIdle>>
        /\ at' = "start" /\ FifoTypeOK
        /\ Queued(Service) <=> Queued(Service)' \/ Service = running'
        /\ Len(tasks') = Len(tasks) - 1
        /\ Len(tasks) \in Nat
    <3>1. FifoTypeOK
      BY DEF Going, IInv, TypeOK
    <3>. QED  BY <1>1, <3>1, RunQueue, HeadTailProperties DEF RunTask, ringVars, FifoTypeOK, RunNext
  <2>2. HasRoom'
    BY <2>1, FifoAssumption DEF HasRoom, FifoTypeOK
  <2>3. ~Serving
    BY <1>1, FifoAssumption, QueueAssumption DEF RunTask, RunNext, Serving
  <2>. QED  BY <2>1, <2>2, <2>3 DEF Going, Alive, OwnSerial, Signalled, Serving
<1>2. CASE ServiceTests
  <2>1. /\ UNCHANGED <<tasks, running, event, serial, enqueue_next, dequeue_next, fQueueIdle>>
        /\ at = "start" /\ running = Service
        /\ at' = IF Oldest.pMsg # NoMsg THEN "send" ELSE "idle"
    BY <1>2 DEF ServiceTests, ringVars
  <2>2. Oldest.pMsg = NoMsg => enqueue_next = dequeue_next
    BY QueueAssumption DEF Going, IInv, TypeOK, Filled, InUse, Oldest, Slots
  <2>. QED  BY <2>1, <2>2, SameQueue DEF Going, Alive, OwnSerial, Signalled, Serving, HasRoom
<1>3. CASE SerialSendMsg_send
  <2>1. /\ UNCHANGED <<tasks, running, enqueue_next, dequeue_next, fQueueIdle>>
        /\ at = "send" /\ at' = "return"
        /\ serial' = Oldest.pMsg
    BY <1>3 DEF SerialSendMsg_send, ringVars
  <2>2. OwnSerial'
    BY <2>1 DEF Going, IInv, Positions, TypeOK, Oldest, Entries, OwnSerial
  <2>. QED  BY <2>1, <2>2, SameQueue DEF Going, Alive, HasRoom
<1>4. CASE SerialSendMsg_sendRefused
  <2>1. /\ UNCHANGED <<enqueue_next, dequeue_next, fQueueIdle>>
        /\ at = "send" /\ running = Service /\ at' = "return" /\ PostService
    BY <1>4 DEF SerialSendMsg_sendRefused, OfferAgain, ringVars
  <2>2. ~Queued(Service)
    BY <2>1 DEF Going, IInv, OneServer, Serving
  <2>3. Queued(Service)'
    BY <2>1, <2>2, PostServiceFacts DEF Going, IInv, TypeOK, OneServer, Alive
  <2>. QED  BY <2>1, <2>3 DEF Going, Alive
<1>5. CASE ServiceIdles
  <2>1. /\ UNCHANGED <<tasks, enqueue_next, dequeue_next>>
        /\ at = "idle" /\ at' = "return" /\ fQueueIdle' = TRUE
    BY <1>5 DEF ServiceIdles
  <2>. QED  BY <2>1, SameQueue DEF Going, Alive, HasRoom
<1>6. CASE TaskEnds
  <2>1. /\ UNCHANGED <<tasks, event, serial, enqueue_next, dequeue_next, fQueueIdle>>
        /\ at' = "none" /\ ~Serving
    BY <1>6 DEF TaskEnds, TaskReturns, ringVars, ClientTask, Serving
  <2>. QED  BY <2>1, SameQueue DEF Going, Alive, HasRoom, OwnSerial, Signalled
<1>. QED  BY <1>1, <1>2, <1>3, <1>4, <1>5, <1>6 DEF TaskStep

LEMMA SerialStepAlive == ASSUME Going, SerialStep PROVE Alive'
<1>. SUFFICES ASSUME NEW ok \in BOOLEAN, NEW acked \in BOOLEAN,
                     \/ SendDoneFiltered(ok)
                     \/ SendDoneFinished(ok, acked)
                     \/ SendDoneRetransmits(ok, acked)
                     \/ SendDoneGivesUp(ok, acked)
              PROVE  Alive'
  BY DEF SerialStep
<1>1. UNCHANGED <<at, enqueue_next, dequeue_next, fQueueIdle>>
  BY DEF SendDoneFiltered, SendDoneFinished, SendDoneRetransmits, SendDoneGivesUp, SendDone
<1>2. CASE SendDoneFiltered(ok)
  <2>1. ~OwnSerial /\ ~Signalled /\ UNCHANGED <<tasks, running>>
    BY <1>2 DEF Going, IInv, NoInternalError, SendDoneFiltered, SendDone, Signalled
  <2>. QED  BY <1>1, <2>1, SameQueue DEF Going, Alive, HasRoom, Serving
<1>3. CASE SendDoneFinished(ok, acked) \/ SendDoneGivesUp(ok, acked)
  <2>1. UNCHANGED tasks /\ \E r \in BOOLEAN : Signal(r, acked)
    BY <1>3 DEF SendDoneFinished, SendDoneGivesUp, Signal
  <2>2. event' \in [message : {serial}, own : {TRUE}, success : BOOLEAN,
                    address : {Oldest.address}, acked : {acked}, tried : {tries[serial]}]
    BY <2>1 DEF Signal
  <2>3. event' # NoEvent
    <3>1. serial \in Messages \cup {Foreign} /\ Oldest \in Entries
      BY <1>3 DEF SendDoneFinished, SendDoneGivesUp, SendDone, Going, IInv, TypeOK, Oldest
    <3>2. serial \in Messages
      BY <1>3, <3>1, QueueAssumption DEF SendDoneFinished, SendDoneGivesUp, IsOldest, Entries
    <3>3. event' \in Events
      BY <2>2, <3>1, <3>2 DEF Events, Entries, Going, IInv, TypeOK
    <3>. QED  BY <3>3, EventAssumption
  <2>4. Signalled'
    BY <2>2, <2>3 DEF Signalled
  <2>. QED  BY <1>1, <2>1, <2>4, SameQueue DEF Going, Alive, HasRoom
<1>4. CASE SendDoneRetransmits(ok, acked)
  <2>1. OwnSerial
    <3>1. serial # NoMsg /\ serial = Oldest.pMsg /\ Oldest \in Entries
      BY <1>4 DEF SendDoneRetransmits, SendDone, IsOldest, Going, IInv, TypeOK, Oldest
    <3>. QED  BY <3>1 DEF Entries, OwnSerial
  <2>2. ~Queued(Service) /\ PostService
    BY <1>4, <2>1 DEF SendDoneRetransmits, SendNext, Going, IInv, OneServer
  <2>3. Queued(Service)'
    BY <2>2, PostServiceFacts DEF Going, IInv, TypeOK, OneServer, Alive
  <2>. QED  BY <1>1, <2>3 DEF Going, Alive
<1>. QED  BY <1>2, <1>3, <1>4

LEMMA EventReturnsAlive == ASSUME Going, EventReturns PROVE Alive'
<1>1. /\ UNCHANGED <<at, serial, enqueue_next, fQueueIdle>> /\ event # NoEvent
  BY DEF EventReturns
<1>2. CASE ~event.own
  <2>1. UNCHANGED <<tasks, running, dequeue_next>>
    BY <1>2 DEF EventReturns
  <2>. QED  BY <1>1, <1>2, <2>1, SameQueue DEF Going, Alive, HasRoom, OwnSerial, Signalled, Serving
<1>3. CASE event.own
  <2>1. Signalled
    BY <1>1, <1>3 DEF Signalled
  <2>2. ~Queued(Service) /\ ~Serving /\ ~fQueueIdle /\ PostService
    BY <1>3, <2>1 DEF EventReturns, SendNext, Going, IInv, OneServer
  <2>3. Queued(Service)'
    BY <2>2, PostServiceFacts DEF Going, IInv, TypeOK, OneServer, Alive
  <2>4. at # "idle"
    BY <2>2 DEF Going, IInv, Positions, Serving
  <2>. QED  BY <1>1, <2>2, <2>3, <2>4 DEF Alive
<1>. QED  BY <1>2, <1>3

LEMMA ClientStepAlive == ASSUME Going, ClientStep PROVE Alive'
<1>1. ASSUME NEW m \in Messages, NEW to \in Destinations, QueueSendMsg_send(m, to)
      PROVE  Alive'
  <2>1. /\ UNCHANGED <<at, event, serial>> /\ fQueueIdle' = FALSE /\ ClientRuns
        /\ fQueueIdle => PostService
        /\ ~fQueueIdle => UNCHANGED <<tasks, running>>
    BY <1>1 DEF QueueSendMsg_send, PostIfIdle
  <2>2. at # "idle"
    <3>1. CASE ClientTask
      BY <3>1 DEF ClientTask
    <3>2. CASE ~ClientTask
      <4>1. Signalled
        BY <2>1, <3>2 DEF ClientRuns, Going, IInv, Positions, Signalled
      <4>. QED  BY <4>1 DEF Going, IInv, OneServer, Positions, Serving
    <3>. QED  BY <3>1, <3>2
  <2>3. CASE fQueueIdle
    <3>1. ~Queued(Service)
      BY <2>3 DEF Going, IInv, OneServer
    <3>2. Queued(Service)'
      BY <2>1, <2>3, <3>1, PostServiceFacts DEF Going, IInv, TypeOK, OneServer, Alive
    <3>. QED  BY <2>1, <2>2, <3>2 DEF Alive
  <2>4. CASE ~fQueueIdle
    BY <2>1, <2>2, <2>4, SameQueue DEF Going, Alive, HasRoom, OwnSerial, Signalled, Serving
  <2>. QED  BY <2>3, <2>4
<1>2. CASE ForeignSend
  <2>1. /\ UNCHANGED <<tasks, running, at, event, enqueue_next, dequeue_next, fQueueIdle>>
        /\ ~OwnSerial
    BY <1>2, QueueAssumption DEF ForeignSend, ringVars, OwnSerial
  <2>. QED  BY <2>1, SameQueue DEF Going, Alive, HasRoom, Signalled, Serving
<1>3. ASSUME NEW t \in Tasks, PostOther(t) PROVE Alive'
  <2>1. /\ UNCHANGED <<running, at, event, serial, enqueue_next, dequeue_next, fQueueIdle>>
        /\ t # Service /\ Post(t) /\ Len(tasks) + Reserved < MaxTasks
    BY <1>3 DEF PostOther, Post, ringVars
  <2>2. FifoTypeOK
    BY DEF Going, IInv, TypeOK
  <2>3. Queued(Service)' <=> Queued(Service)
    BY <2>1, <2>2, PostQueue
  <2>4. HasRoom'
    <3>1. Len(tasks') = Len(tasks) + 1 /\ Len(tasks) \in Nat
      BY <2>1, <2>2 DEF Post, FifoTypeOK
    <3>. QED  BY <2>1, <3>1, FifoAssumption, QueueAssumption DEF HasRoom, Going
  <2>. QED  BY <2>1, <2>3, <2>4 DEF Going, Alive, OwnSerial, Signalled, Serving
<1>. QED  BY <1>1, <1>2, <1>3 DEF ClientStep

LEMMA StepAlive == Going /\ [Next]_vars => Going'
<1>. SUFFICES ASSUME Going, [Next]_vars PROVE Going'
  OBVIOUS
<1>1. IInv'
  BY StepInv DEF Going
<1>2. ASSUME UNCHANGED vars PROVE Alive'
  BY <1>2, SameQueue DEF vars, ringVars, Going, Alive, HasRoom, OwnSerial, Signalled, Serving
<1>3. Alive'
  BY <1>2, TaskStepAlive, SerialStepAlive, EventReturnsAlive, ClientStepAlive DEF Next, Going
<1>. QED  BY <1>1, <1>3 DEF Going

(* While messages are queued somebody serves them, provided the other       *)
(* components leave a task slot (QueuedSendM.nc:111, 152, 189) and no other *)
(* client of AM queues a message between the test of the ring and           *)
(* fQueueIdle = TRUE (QueuedSendM.nc:102, 117).                             *)
THEOREM NotStalledAlways == Reserved > 0 /\ ~ForeignEnqueues /\ Safety => []NotStalled
<1>1. Going => NotStalled
  <2>. SUFFICES ASSUME Going, Used > 0
                PROVE  Queued(Service) \/ Serving \/ OwnSerial \/ Signalled
    BY DEF NotStalled
  <2>1. enqueue_next # dequeue_next
    BY DEF Used, Going, IInv, TypeOK, Slots
  <2>. QED  BY <2>1 DEF Going, Alive
<1>. QED  BY <1>1, InitAlive, StepAlive, PTL DEF Safety
-----------------------------------------------------------------------------
(* The messages that the refinement mapping gives the abstract queue.       *)
LEMMA PendingIsSeq ==
  IInv => /\ Pending \in Seq(Messages)
          /\ Len(Pending) = Used - Released
          /\ Released \in 0 .. 1 /\ Released <= Used /\ Used \in 0 .. Size - 1
<1>. SUFFICES ASSUME IInv
              PROVE  /\ Pending \in Seq(Messages)
                     /\ Len(Pending) = Used - Released
                     /\ Released \in 0 .. 1 /\ Released <= Used /\ Used \in 0 .. Size - 1
  OBVIOUS
<1>1. Used \in 0 .. Size - 1 /\ Released \in 0 .. 1
  BY PlaceFacts DEF IInv, Released
<1>2. Released <= Used
  BY <1>1, QueueAssumption DEF Released, IInv, Positions, TypeOK, Used, Slots
<1>3. ASSUME NEW i \in 1 .. Used - Released
      PROVE  msgqueue[Place(i + Released)].pMsg \in Messages
  <2>1. i + Released \in 1 .. Used
    BY <1>1, <1>2, QueueAssumption
  <2>2. Place(i + Released) \in Slots /\ InUse(Place(i + Released))
    BY <2>1, PlaceFacts DEF IInv
  <2>. QED  BY <2>2 DEF IInv, Filled, TypeOK, Entries
<1>4. Used - Released \in Nat
  BY <1>1, <1>2, QueueAssumption
<1>. QED  BY <1>1, <1>2, <1>3, <1>4 DEF Pending

LEMMA PendingIsSeqNext ==
  (IInv => /\ Pending \in Seq(Messages)
           /\ Len(Pending) = Used - Released
           /\ Released \in 0 .. 1 /\ Released <= Used /\ Used \in 0 .. Size - 1)'
BY PendingIsSeq, PTL

(* A message that is accepted goes behind the others.                       *)
LEMMA SendRefines ==
  ASSUME IInv, IInv', NEW m \in Messages, NEW to \in Destinations, QueueSendMsg_send(m, to)
  PROVE  Contract!Accept(m)
<1>. USE QueueAssumption
<1>1. /\ event' = event /\ dequeue_next' = dequeue_next
      /\ msgqueue' = [msgqueue EXCEPT ![enqueue_next] =
                        [pMsg |-> m, address |-> to, xmit_count |-> 0]]
      /\ enqueue_next' = After(enqueue_next)
      /\ After(enqueue_next) # dequeue_next
      /\ \A i \in 1 .. Len(Pending) : Pending[i] # m
  BY DEF QueueSendMsg_send, Full
<1>2. /\ dequeue_next \in Slots /\ enqueue_next \in Slots
      /\ enqueue_next' = IF enqueue_next + 1 = Size THEN 0 ELSE enqueue_next + 1
      /\ enqueue_next' # dequeue_next
  BY <1>1, AfterIs DEF IInv, TypeOK
<1>3. /\ Pending \in Seq(Messages) /\ Len(Pending) = Used - Released
      /\ Pending' \in Seq(Messages) /\ Len(Pending)' = Used' - Released'
      /\ Released \in 0 .. 1 /\ Released <= Used /\ Used \in 0 .. Size - 1
  BY PendingIsSeq, PendingIsSeqNext
<1>4. /\ Released' = Released /\ Used' = Used + 1 /\ Used + 1 <= Size - 1
      /\ Place(Used + 1) = enqueue_next
      /\ \A i \in 1 .. Used + 1 : Place(i)' = Place(i)
  <2>1. Released' = Released
    BY <1>1 DEF Released, Signalled
  <2>2. Used' = Used + 1 /\ Used + 1 <= Size - 1 /\ Place(Used + 1) = enqueue_next
    BY <1>1, <1>2 DEF Used, Place, Slots
  <2>. QED  BY <1>1, <2>1, <2>2 DEF Place
<1>5. /\ msgqueue'[enqueue_next].pMsg = m
      /\ \A s \in Slots : s # enqueue_next => msgqueue'[s] = msgqueue[s]
  BY <1>1, <1>2 DEF IInv, TypeOK
<1>6. ASSUME NEW i \in 1 .. Len(Pending) + 1
      PROVE  Pending'[i] = Append(Pending, m)[i]
  <2>1. Pending'[i] = msgqueue'[Place(i + Released)].pMsg /\ i + Released \in 1 .. Used + 1
    BY <1>3, <1>4 DEF Pending
  <2>2. CASE i = Len(Pending) + 1
    BY <2>1, <2>2, <1>3, <1>4, <1>5, SMTT(30)
  <2>3. CASE i # Len(Pending) + 1
    <3>1. i \in 1 .. Len(Pending) /\ i + Released \in 1 .. Used
      BY <2>3, <1>3
    <3>2. Place(i + Released) \in Slots /\ Place(i + Released) # enqueue_next
      <4>1. Place(i + Released) \in Slots /\ InUse(Place(i + Released))
        BY <3>1, PlaceFacts DEF IInv
      <4>. QED  BY <4>1, <1>2 DEF InUse, Slots
    <3>3. Pending[i] = msgqueue[Place(i + Released)].pMsg
      BY <1>3, <3>1 DEF Pending
    <3>4. Append(Pending, m)[i] = Pending[i]
      BY <1>3, <3>1
    <3>. QED  BY <2>1, <3>2, <3>3, <3>4, <1>5
  <2>. QED  BY <2>2, <2>3
<1>7. Pending' = Append(Pending, m)
  <2>1. /\ Append(Pending, m) \in Seq(Messages) /\ Len(Append(Pending, m)) = Len(Pending) + 1
        /\ Len(Pending') = Len(Pending) + 1
    BY <1>3, <1>4
  <2>. QED  BY <2>1, <1>3, <1>6, SeqEqual
<1>8. Len(Pending) < Size - 1
  BY <1>3, <1>4
<1>. QED  BY <1>1, <1>7, <1>8 DEF Contract!Accept

(* The message that is signalled leaves at the head.                        *)
LEMMA SignalRefines ==
  ASSUME IInv, IInv', NEW ok \in BOOLEAN, NEW acked \in BOOLEAN, NEW result \in BOOLEAN,
         SendDone(ok), IsOldest(serial), Signal(result, acked)
  PROVE  Contract!HandBack
<1>. USE QueueAssumption
<1>1. /\ UNCHANGED <<msgqueue, enqueue_next, dequeue_next>> /\ event = NoEvent
      /\ event' = [message |-> serial, own |-> TRUE, success |-> result,
                   address |-> Oldest.address, acked |-> acked, tried |-> tries[serial]]
      /\ serial # NoMsg
  BY DEF SendDone, Signal
<1>2. Released = 0 /\ Released' = 1
  <2>1. Oldest \in Entries /\ serial = Oldest.pMsg /\ serial \in Messages
    BY <1>1 DEF IInv, TypeOK, Oldest, IsOldest, Entries
  <2>2. event' \in Events /\ event'.own
    BY <1>1, <2>1 DEF IInv, TypeOK, Events, Entries
  <2>. QED  BY <1>1, <2>2, EventAssumption DEF Released, Signalled
<1>3. Used' = Used /\ \A i \in 1 .. Used : Place(i)' = Place(i)
  BY <1>1 DEF Used, Place
<1>4. /\ Pending \in Seq(Messages) /\ Len(Pending) = Used
      /\ Pending' \in Seq(Messages) /\ Len(Pending') = Used - 1
      /\ Used \in 1 .. Size - 1
  BY <1>2, <1>3, PendingIsSeq, PendingIsSeqNext
<1>5. /\ Pending # <<>> /\ Tail(Pending) \in Seq(Messages)
      /\ Len(Tail(Pending)) = Used - 1
      /\ \A i \in 1 .. Used - 1 : Tail(Pending)[i] = Pending[i + 1]
  <2>1. Pending # <<>>
    BY <1>4
  <2>. QED  BY <2>1, <1>4, HeadTailProperties
<1>8. Pending' = [i \in 1 .. Used - 1 |-> msgqueue[Place(i + 1)].pMsg]
  BY <1>1, <1>2, <1>3 DEF Pending, Place
<1>9. Pending = [i \in 1 .. Used |-> msgqueue[Place(i)].pMsg]
  <2>1. \A i \in 1 .. Used : i + Released = i
    BY <1>2
  <2>2. Used - Released = Used
    BY <1>2, <1>4
  <2>. QED  BY <2>1, <2>2 DEF Pending
<1>6. ASSUME NEW i \in 1 .. Used - 1 PROVE Pending'[i] = Tail(Pending)[i]
  <2>1. i + 1 \in 1 .. Used
    BY <1>4
  <2>2. Pending'[i] = msgqueue[Place(i + 1)].pMsg
    BY <1>2, <1>8
  <2>3. Pending[i + 1] = msgqueue[Place(i + 1)].pMsg
    BY <1>9, <2>1
  <2>. QED  BY <1>5, <2>2, <2>3
<1>7. Pending' = Tail(Pending)
  BY <1>4, <1>5, <1>6, SeqEqual
<1>. QED  BY <1>5, <1>7 DEF Contract!HandBack
(* The mapping depends on the ring and on whether the head is signalled.    *)
LEMMA PendingSame ==
  ASSUME UNCHANGED <<msgqueue, enqueue_next, dequeue_next>>, Signalled' = Signalled
  PROVE  Pending' = Pending
<1>1. Released' = Released
  BY DEF Released
<1>2. Used' = Used
  BY DEF Used
<1>. QED  BY <1>1, <1>2 DEF Pending, Place

(* The entry of a message that was signalled is released unnoticed.         *)
LEMMA ReleaseRefines ==
  ASSUME IInv, IInv', EventReturns PROVE Pending' = Pending
<1>. USE QueueAssumption
<1>1. CASE ~event.own
  <2>1. ~Signalled /\ ~Signalled'
    BY <1>1 DEF EventReturns, Signalled
  <2>2. UNCHANGED <<msgqueue, enqueue_next, dequeue_next>>
    BY <1>1 DEF EventReturns
  <2>3. Released = 0 /\ Released' = 0
    BY <2>1 DEF Released
  <2>4. Used' = Used
    BY <2>2 DEF Used
  <2>. QED  BY <2>2, <2>3, <2>4 DEF Pending, Place
<1>2. CASE event.own
  <2>1. /\ event # NoEvent /\ event' = NoEvent
        /\ msgqueue' = ReleasedEntry
        /\ dequeue_next' = After(dequeue_next)
        /\ enqueue_next' = enqueue_next
    BY <1>2 DEF EventReturns
  <2>2. Released = 1 /\ Released' = 0
    BY <2>1, <1>2 DEF Released, Signalled
  <2>3. /\ dequeue_next \in Slots /\ enqueue_next \in Slots
        /\ dequeue_next' = IF dequeue_next + 1 = Size THEN 0 ELSE dequeue_next + 1
    BY <2>1, AfterIs DEF IInv, TypeOK
  <2>4. Used \in 1 .. Size - 1
    BY <2>2, PendingIsSeq
  <2>5. Used' = Used - 1
    BY <2>1, <2>3, <2>4 DEF Used, Slots
  <2>6. ASSUME NEW i \in 1 .. Used - 1
        PROVE  /\ Place(i)' = Place(i + 1)
               /\ msgqueue'[Place(i + 1)].pMsg = msgqueue[Place(i + 1)].pMsg
    <3>1. Place(i)' = Place(i + 1)
      BY <2>3, <2>4 DEF Place, Slots
    <3>2. Place(i + 1) \in Slots /\ Place(i + 1) # dequeue_next
      BY <2>3, <2>4 DEF Place, Slots
    <3>3. msgqueue'[Place(i + 1)] = msgqueue[Place(i + 1)]
      BY <2>1, <3>2 DEF ReleasedEntry, IInv, TypeOK
    <3>. QED  BY <3>1, <3>3
  <2>7. Pending = [i \in 1 .. Used - 1 |-> msgqueue[Place(i + 1)].pMsg]
    BY <2>2 DEF Pending
  <2>8. Pending' = [i \in 1 .. Used - 1 |-> msgqueue'[Place(i)'].pMsg]
    <3>1. \A i \in 1 .. Used - 1 : i + 0 = i
      BY <2>4
    <3>2. Used' - Released' = Used - 1
      BY <2>2, <2>4, <2>5
    <3>. QED  BY <3>1, <3>2, <2>2 DEF Pending, Place
  <2>. QED  BY <2>6, <2>7, <2>8
<1>. QED  BY <1>1, <1>2

(* A retransmission changes the counter of the head and no message.         *)
LEMMA RetransmitRefines ==
  ASSUME IInv, IInv', NEW ok \in BOOLEAN, NEW acked \in BOOLEAN, SendDoneRetransmits(ok, acked)
  PROVE  Pending' = Pending
<1>1. /\ UNCHANGED <<enqueue_next, dequeue_next, event>>
      /\ msgqueue' = [msgqueue EXCEPT ![dequeue_next].xmit_count = @ + 1]
  BY DEF SendDoneRetransmits, SendDone
<1>2. Released' = Released /\ Used' = Used /\ \A i \in Nat : Place(i)' = Place(i)
  BY <1>1 DEF Released, Signalled, Used, Place
<1>3. \A s \in Slots : msgqueue'[s].pMsg = msgqueue[s].pMsg
  BY <1>1 DEF IInv, TypeOK, Entries
<1>4. \A i \in 1 .. Used - Released : Place(i + Released) \in Slots
  <2>1. \A i \in 1 .. Used - Released : i + Released \in 1 .. Used
    BY PendingIsSeq
  <2>. QED  BY <2>1, PlaceFacts DEF IInv
<1>5. \A i \in 1 .. Used - Released : Place(i + Released)' = Place(i + Released)
  BY <1>1, <1>2 DEF Place
<1>. QED  BY <1>2, <1>3, <1>4, <1>1 DEF Pending, Place

LEMMA OtherRefines ==
  ASSUME TaskStep \/ ForeignSend \/ (\E t \in Tasks : PostOther(t)) \/ UNCHANGED vars
  PROVE  Pending' = Pending
<1>1. UNCHANGED <<msgqueue, enqueue_next, dequeue_next, event>>
  BY DEF TaskStep, RunTask, ServiceTests, SerialSendMsg_send, SerialSendMsg_sendRefused,
         ServiceIdles, TaskEnds, ForeignSend, PostOther, ringVars, vars
<1>2. Signalled' = Signalled
  BY <1>1 DEF Signalled
<1>. QED  BY <1>1, <1>2, PendingSame

LEMMA FilteredRefines ==
  ASSUME NEW ok \in BOOLEAN, SendDoneFiltered(ok) PROVE Pending' = Pending
<1>1. ~Signalled /\ ~Signalled'
  BY DEF SendDoneFiltered, SendDone, Signalled
<1>2. UNCHANGED <<msgqueue, enqueue_next, dequeue_next>>
  BY DEF SendDoneFiltered, SendDone
<1>3. Released = 0 /\ Released' = 0 /\ Used' = Used
  BY <1>1, <1>2 DEF Released, Used
<1>. QED  BY <1>2, <1>3 DEF Pending, Place

(* QueuedSend hands messages back in the order in which it accepted them,   *)
(* each once, and never holds more than Size - 1 (send, sendDone).          *)
THEOREM ImplementsSendQueue == Safety => Contract!QueueSafety
<1>1. Init => Contract!QueueInit
  <2>. SUFFICES ASSUME Init PROVE Contract!QueueInit
    OBVIOUS
  <2>1. Used = 0 /\ Released = 0
    BY DEF Init, Used, Released, Signalled
  <2>2. Pending \in Seq(Messages) /\ Len(Pending) = 0
    BY <2>1, InitInv, PendingIsSeq
  <2>. QED  BY <2>2, EmptySeq DEF Contract!QueueInit
<1>2. IInv /\ IInv' /\ [Next]_vars => [Contract!QueueNext]_Pending
  <2>. SUFFICES ASSUME IInv, IInv', [Next]_vars
                PROVE  [Contract!QueueNext]_Pending
    OBVIOUS
  <2>1. CASE TaskStep \/ UNCHANGED vars
    BY <2>1, OtherRefines
  <2>2. CASE EventReturns
    BY <2>2, ReleaseRefines
  <2>3. CASE SerialStep
    <3>. PICK ok \in BOOLEAN, acked \in BOOLEAN :
           \/ SendDoneFiltered(ok)
           \/ SendDoneFinished(ok, acked)
           \/ SendDoneRetransmits(ok, acked)
           \/ SendDoneGivesUp(ok, acked)
      BY <2>3 DEF SerialStep
    <3>1. CASE SendDoneFiltered(ok)
      BY <3>1, FilteredRefines
    <3>2. CASE SendDoneFinished(ok, acked)
      <4>1. Contract!HandBack
        BY <3>2, SignalRefines DEF SendDoneFinished
      <4>. QED  BY <4>1 DEF Contract!QueueNext
    <3>3. CASE SendDoneRetransmits(ok, acked)
      BY <3>3, RetransmitRefines
    <3>4. CASE SendDoneGivesUp(ok, acked)
      <4>1. Contract!HandBack
        BY <3>4, SignalRefines DEF SendDoneGivesUp
      <4>. QED  BY <4>1 DEF Contract!QueueNext
    <3>. QED  BY <3>1, <3>2, <3>3, <3>4
  <2>4. CASE ClientStep
    <3>1. ASSUME NEW m \in Messages, NEW to \in Destinations, QueueSendMsg_send(m, to)
          PROVE  Contract!QueueNext
      BY <3>1, SendRefines DEF Contract!QueueNext
    <3>. QED  BY <3>1, <2>4, OtherRefines DEF ClientStep
  <2>. QED  BY <2>1, <2>2, <2>3, <2>4 DEF Next
<1>3. Safety => []IInv
  BY InitInv, StepInv, PTL DEF Safety
<1>. QED  BY <1>1, <1>2, <1>3, PTL DEF Safety, Contract!QueueSafety
-----------------------------------------------------------------------------
(* An entry in use whose message has not been handed back.                  *)
Live(s) == InUse(s) /\ ~(Signalled /\ s = dequeue_next)

(* No message is in two live entries, none has been acknowledged, and the   *)
(* head has been with AM once more than its counter says while AM holds it. *)
Counted ==
  /\ \A s, u \in Slots : Live(s) /\ Live(u) /\ msgqueue[s].pMsg = msgqueue[u].pMsg => s = u
  /\ \A s \in Slots : Live(s) =>
       /\ ~ack[msgqueue[s].pMsg]
       /\ tries[msgqueue[s].pMsg] =
            msgqueue[s].xmit_count + IF OwnSerial /\ s = dequeue_next THEN 1 ELSE 0

HInv == IInv /\ Counted /\ HonestReport

LEMMA LiveIsMessage ==
  ASSUME IInv
  PROVE  /\ \A s \in Slots : Live(s) => msgqueue[s].pMsg \in Messages
         /\ \A s \in Slots : msgqueue[s].xmit_count \in 0 .. MaxRetransmit
  BY DEF IInv, TypeOK, Filled, Live, Entries

LEMMA CountedStays ==
  ASSUME HInv, UNCHANGED <<msgqueue, enqueue_next, dequeue_next, ack, tries>>,
         OwnSerial' <=> OwnSerial, Signalled' <=> Signalled
  PROVE  Counted'
<1>1. \A s \in Slots : Live(s)' <=> Live(s)
  BY DEF Live, InUse
<1>. QED  BY <1>1 DEF HInv, Counted

(* While nothing is signalled there is nothing to be honest about.          *)
LEMMA QuietIsHonest == ASSUME ~Signalled' PROVE HonestReport'
BY DEF HonestReport

LEMMA HonestStays == ASSUME HInv, event' = event PROVE HonestReport'
BY DEF HInv, HonestReport, Signalled

LEMMA SerialSendMsg_sendHonest ==
  ASSUME HInv, IInv', SerialSendMsg_send PROVE Counted' /\ HonestReport'
<1>1. /\ UNCHANGED <<event, ack, msgqueue, enqueue_next, dequeue_next>>
      /\ event = NoEvent /\ serial' = Oldest.pMsg /\ at = "send" /\ serial = NoMsg
      /\ tries' = [tries EXCEPT ![Oldest.pMsg] = @ + 1]
  BY DEF SerialSendMsg_send, ringVars
<1>2. /\ dequeue_next \in Slots /\ Oldest = msgqueue[dequeue_next]
      /\ Oldest.pMsg \in Messages /\ InUse(dequeue_next)
      /\ tries \in [Messages -> Nat]
  BY <1>1 DEF HInv, IInv, TypeOK, Positions, Oldest, Entries, Filled
<1>3. ~OwnSerial /\ OwnSerial' /\ ~Signalled /\ ~Signalled'
  BY <1>1, <1>2, QueueAssumption DEF OwnSerial, Signalled
<1>4. \A s \in Slots : (Live(s)' <=> InUse(s)) /\ (Live(s) <=> InUse(s))
  BY <1>1, <1>3 DEF Live, InUse
<1>5. \A s \in Slots : InUse(s) => msgqueue[s].pMsg \in Messages
  BY <1>4, LiveIsMessage DEF HInv
<1>6. \A s \in Slots : InUse(s) /\ s # dequeue_next => msgqueue[s].pMsg # Oldest.pMsg
  BY <1>2, <1>4 DEF HInv, Counted
<1>7. \A s \in Slots : InUse(s) => tries[msgqueue[s].pMsg] = msgqueue[s].xmit_count
  BY <1>3, <1>4, LiveIsMessage DEF HInv, Counted
<1>8. ASSUME NEW s \in Slots, InUse(s)
      PROVE  tries'[msgqueue[s].pMsg] =
               msgqueue[s].xmit_count + IF s = dequeue_next THEN 1 ELSE 0
  <2>1. CASE s = dequeue_next
    <3>1. tries'[Oldest.pMsg] = tries[Oldest.pMsg] + 1
      BY <1>1, <1>2
    <3>. QED  BY <2>1, <3>1, <1>2, <1>7
  <2>2. CASE s # dequeue_next
    <3>1. tries'[msgqueue[s].pMsg] = tries[msgqueue[s].pMsg]
      BY <1>1, <1>2, <1>5, <1>6, <1>8, <2>2
    <3>2. msgqueue[s].xmit_count \in Nat
      BY LiveIsMessage, QueueAssumption DEF HInv
    <3>. QED  BY <2>2, <3>1, <3>2, <1>7, <1>8
  <2>. QED  BY <2>1, <2>2
<1>9. Counted'
  BY <1>1, <1>3, <1>4, <1>8 DEF HInv, Counted
<1>. QED  BY <1>1, <1>9, HonestStays

LEMMA QueueSendMsg_sendHonest ==
  ASSUME HInv, IInv', NEW m \in Messages, NEW to \in Destinations, QueueSendMsg_send(m, to)
  PROVE  Counted' /\ HonestReport'
<1>. USE QueueAssumption
<1>1. /\ UNCHANGED <<event, serial, dequeue_next>>
      /\ msgqueue' = [msgqueue EXCEPT ![enqueue_next] =
                        [pMsg |-> m, address |-> to, xmit_count |-> 0]]
      /\ enqueue_next' = After(enqueue_next)
      /\ After(enqueue_next) # dequeue_next
      /\ ack' = [ack EXCEPT ![m] = FALSE]
      /\ tries' = [tries EXCEPT ![m] = 0]
      /\ \A i \in 1 .. Len(Pending) : Pending[i] # m
  BY DEF QueueSendMsg_send, Full, AckCleared
<1>2. /\ dequeue_next \in Slots /\ enqueue_next \in Slots
      /\ enqueue_next' = IF enqueue_next + 1 = Size THEN 0 ELSE enqueue_next + 1
      /\ enqueue_next' # dequeue_next
      /\ msgqueue \in [Slots -> Entries]
      /\ ack \in [Messages -> BOOLEAN] /\ tries \in [Messages -> Nat]
  BY <1>1, AfterIs DEF HInv, IInv, TypeOK
<1>3. (OwnSerial' <=> OwnSerial) /\ (Signalled' <=> Signalled)
  BY <1>1 DEF OwnSerial, Signalled
<1>4. \A s \in Slots : InUse(s)' <=> InUse(s) \/ s = enqueue_next
  BY <1>1, <1>2 DEF InUse, Slots
<1>5. ~InUse(enqueue_next)
  BY <1>2 DEF InUse, Slots
<1>6. enqueue_next = dequeue_next => ~OwnSerial /\ ~Signalled
  <2>1. Signalled => enqueue_next # dequeue_next
    BY DEF HInv, IInv, Positions
  <2>2. OwnSerial => InUse(dequeue_next)
    BY <1>2 DEF HInv, IInv, NoInternalError, IsOldest, Oldest, OwnSerial, Filled
  <2>. QED  BY <1>5, <2>1, <2>2
<1>7. \A s \in Slots : Live(s)' <=> Live(s) \/ s = enqueue_next
  BY <1>1, <1>3, <1>4, <1>6 DEF Live
<1>8. ASSUME NEW s \in Slots, Live(s) PROVE msgqueue[s].pMsg # m /\ s # enqueue_next
  <2>1. InUse(s) /\ s # enqueue_next
    BY <1>5, <1>8 DEF Live
  <2>2. PICK i \in 1 .. Used : s = Place(i)
    BY <2>1, PlaceFacts DEF HInv, IInv
  <2>3. Place(1) = dequeue_next
    BY <1>2 DEF Place, Slots
  <2>4. /\ Released \in 0 .. 1 /\ Released <= Used /\ Used \in 0 .. Size - 1
        /\ Len(Pending) = Used - Released
    BY PendingIsSeq DEF HInv
  <2>5. i - Released \in 1 .. Used - Released /\ (i - Released) + Released = i
    <3>1. Released = 1 => i # 1
      BY <1>8, <2>2, <2>3 DEF Live, Released
    <3>. QED  BY <2>4, <3>1
  <2>6. Pending[i - Released] = msgqueue[s].pMsg
    <3>1. Pending[i - Released] = msgqueue[Place((i - Released) + Released)].pMsg
      BY <2>5 DEF Pending
    <3>. QED  BY <2>2, <2>5, <3>1
  <2>. QED  BY <1>1, <2>1, <2>4, <2>5, <2>6
<1>9. /\ msgqueue'[enqueue_next] = [pMsg |-> m, address |-> to, xmit_count |-> 0]
      /\ \A s \in Slots : s # enqueue_next => msgqueue'[s] = msgqueue[s]
  BY <1>1, <1>2
<1>10. ASSUME NEW s \in Slots, NEW u \in Slots, Live(s)', Live(u)',
              msgqueue'[s].pMsg = msgqueue'[u].pMsg
       PROVE  s = u
  <2>1. msgqueue'[enqueue_next].pMsg = m
    BY <1>9
  <2>. QED  BY <1>7, <1>8, <1>9, <1>10, <2>1 DEF HInv, Counted
<1>11. ASSUME NEW s \in Slots, Live(s)'
       PROVE  /\ ~ack'[msgqueue'[s].pMsg]
              /\ tries'[msgqueue'[s].pMsg] =
                   msgqueue'[s].xmit_count + IF OwnSerial' /\ s = dequeue_next' THEN 1 ELSE 0
  <2>1. CASE s = enqueue_next
    <3>1. msgqueue'[s].pMsg = m /\ msgqueue'[s].xmit_count = 0
      BY <1>9, <2>1
    <3>2. ~ack'[m] /\ tries'[m] = 0
      BY <1>1, <1>2
    <3>3. ~(OwnSerial' /\ s = dequeue_next')
      BY <1>1, <1>3, <1>6, <2>1
    <3>. QED  BY <3>1, <3>2, <3>3
  <2>2. CASE s # enqueue_next
    <3>1. Live(s) /\ msgqueue'[s] = msgqueue[s] /\ msgqueue[s].pMsg # m
      BY <1>7, <1>8, <1>9, <1>11, <2>2
    <3>2. msgqueue[s].pMsg \in Messages
      BY <3>1, LiveIsMessage DEF HInv
    <3>3. ack'[msgqueue[s].pMsg] = ack[msgqueue[s].pMsg]
      BY <1>1, <1>2, <3>1, <3>2
    <3>4. tries'[msgqueue[s].pMsg] = tries[msgqueue[s].pMsg]
      BY <1>1, <1>2, <3>1, <3>2
    <3>. QED  BY <1>1, <1>3, <3>1, <3>3, <3>4 DEF HInv, Counted
  <2>. QED  BY <2>1, <2>2
<1>12. Counted'
  BY <1>10, <1>11 DEF Counted
<1>. QED  BY <1>1, <1>12, HonestStays
(* What AM's event for the head may rely on.                                *)
LEMMA HeadIsCounted ==
  ASSUME HInv, NEW ok \in BOOLEAN, SendDone(ok), IsOldest(serial)
  PROVE  /\ serial \in Messages /\ serial = msgqueue[dequeue_next].pMsg
         /\ OwnSerial /\ ~OwnSerial' /\ ~Signalled /\ dequeue_next \in Slots
         /\ InUse(dequeue_next) /\ Live(dequeue_next)
         /\ ~ack[serial]
         /\ tries[serial] = msgqueue[dequeue_next].xmit_count + 1
<1>1. /\ event = NoEvent /\ serial # NoMsg /\ serial' = NoMsg /\ ~Signalled
      /\ serial = msgqueue[dequeue_next].pMsg
  BY DEF SendDone, Signalled, IsOldest, Oldest
<1>2. /\ dequeue_next \in Slots /\ InUse(dequeue_next) /\ serial \in Messages
      /\ OwnSerial /\ ~OwnSerial'
  BY <1>1, QueueAssumption DEF HInv, IInv, TypeOK, Filled, Entries, OwnSerial
<1>3. Live(dequeue_next)
  BY <1>1, <1>2 DEF Live
<1>4. /\ ~ack[serial]
      /\ tries[serial] = msgqueue[dequeue_next].xmit_count + 1
  BY <1>1, <1>2, <1>3 DEF HInv, Counted
<1>. QED  BY <1>1, <1>2, <1>3, <1>4

(* The head leaves the live entries; the others are untouched.              *)
LEMMA SignalCounted ==
  ASSUME HInv, NEW ok \in BOOLEAN, NEW acked \in BOOLEAN, NEW result \in BOOLEAN,
         NEW a \in BOOLEAN, SendDone(ok), IsOldest(serial), Signal(result, acked),
         ack' = [ack EXCEPT ![serial] = a]
  PROVE  /\ Counted' /\ event' # NoEvent
         /\ event' = [message |-> serial, own |-> TRUE, success |-> result,
                      address |-> Oldest.address, acked |-> acked, tried |-> tries[serial]]
<1>1. /\ UNCHANGED <<msgqueue, enqueue_next, dequeue_next, tries>>
      /\ event' = [message |-> serial, own |-> TRUE, success |-> result,
                   address |-> Oldest.address, acked |-> acked, tried |-> tries[serial]]
  BY DEF SendDone, Signal
<1>2. /\ serial \in Messages /\ serial = msgqueue[dequeue_next].pMsg
      /\ ~OwnSerial' /\ ~Signalled /\ dequeue_next \in Slots /\ Live(dequeue_next)
  BY HeadIsCounted
<1>3. event' \in Events /\ event'.own
  <2>1. Oldest.address \in Destinations /\ tries[serial] \in Nat
    BY <1>2 DEF HInv, IInv, TypeOK, Oldest, Entries
  <2>. QED  BY <1>1, <1>2, <2>1 DEF Events
<1>4. Signalled'
  BY <1>3, EventAssumption DEF Signalled
<1>5. \A s \in Slots : Live(s)' <=> Live(s) /\ s # dequeue_next
  BY <1>1, <1>2, <1>4 DEF Live, InUse
<1>6. ASSUME NEW s \in Slots, Live(s), s # dequeue_next
      PROVE  /\ ~ack'[msgqueue[s].pMsg]
             /\ tries[msgqueue[s].pMsg] = msgqueue[s].xmit_count
  <2>1. msgqueue[s].pMsg # serial
    BY <1>2, <1>6 DEF HInv, Counted
  <2>2. msgqueue[s].pMsg \in Messages /\ msgqueue[s].xmit_count \in Nat
    BY <1>6, LiveIsMessage, QueueAssumption DEF HInv
  <2>3. ack'[msgqueue[s].pMsg] = ack[msgqueue[s].pMsg]
    BY <2>1, <2>2 DEF HInv, IInv, TypeOK
  <2>4. ~ack[msgqueue[s].pMsg] /\ tries[msgqueue[s].pMsg] = msgqueue[s].xmit_count + 0
    BY <1>6 DEF HInv, Counted
  <2>. QED  BY <2>2, <2>3, <2>4
<1>7. Counted'
  <2>1. ASSUME NEW s \in Slots, NEW u \in Slots, Live(s)', Live(u)',
               msgqueue'[s].pMsg = msgqueue'[u].pMsg
        PROVE  s = u
    BY <1>1, <1>5, <2>1 DEF HInv, Counted
  <2>2. ASSUME NEW s \in Slots, Live(s)'
        PROVE  /\ ~ack'[msgqueue'[s].pMsg]
               /\ tries'[msgqueue'[s].pMsg] =
                    msgqueue'[s].xmit_count + IF OwnSerial' /\ s = dequeue_next' THEN 1 ELSE 0
    <3>1. msgqueue[s].xmit_count \in Nat
      BY LiveIsMessage, QueueAssumption DEF HInv
    <3>. QED  BY <1>1, <1>2, <1>5, <1>6, <2>2, <3>1
  <2>. QED  BY <2>1, <2>2 DEF Counted
<1>. QED  BY <1>1, <1>3, <1>7, EventAssumption

LEMMA AckIsBoolean ==
  ASSUME HInv, serial \in Messages, NEW ok \in BOOLEAN, NEW acked \in BOOLEAN
  PROVE  AckAfter(ok, acked) \in BOOLEAN
BY DEF AckAfter, HInv, IInv, TypeOK

LEMMA SendDoneFinishedHonest ==
  ASSUME HInv, NEW ok \in BOOLEAN, NEW acked \in BOOLEAN, SendDoneFinished(ok, acked)
  PROVE  Counted' /\ HonestReport'
<1>1. /\ SendDone(ok) /\ IsOldest(serial) /\ Signal(ok, acked)
      /\ ack' = [ack EXCEPT ![serial] = AckAfter(ok, acked)]
      /\ ~Retransmit \/ AckAfter(ok, acked) \/ Oldest.address = "uart"
  BY DEF SendDoneFinished, Finished
<1>2. serial \in Messages /\ ~ack[serial] /\ AckAfter(ok, acked) \in BOOLEAN
  BY <1>1, HeadIsCounted, AckIsBoolean
<1>3. Counted' /\ event'.acked = acked /\ event'.address = Oldest.address
  <2>1. PICK a \in BOOLEAN : a = AckAfter(ok, acked)
    BY <1>2
  <2>2. ack' = [ack EXCEPT ![serial] = a]
    BY <1>1, <2>1
  <2>3. /\ Counted'
        /\ event' = [message |-> serial, own |-> TRUE, success |-> ok,
                     address |-> Oldest.address, acked |-> acked, tried |-> tries[serial]]
    BY <1>1, <2>2, SignalCounted
  <2>. QED  BY <2>3
<1>4. AckAfter(ok, acked) => acked
  BY <1>2 DEF AckAfter
<1>5. Retransmit /\ event'.address = "radio" => event'.acked
  BY <1>1, <1>3, <1>4
<1>6. HonestReport'
  BY <1>5 DEF HonestReport
<1>. QED  BY <1>3, <1>6

LEMMA SendDoneGivesUpHonest ==
  ASSUME HInv, NEW ok \in BOOLEAN, NEW acked \in BOOLEAN, SendDoneGivesUp(ok, acked)
  PROVE  Counted' /\ HonestReport'
<1>1. /\ SendDone(ok) /\ IsOldest(serial) /\ Signal(FALSE, acked)
      /\ ack' = [ack EXCEPT ![serial] = AckAfter(ok, acked)]
      /\ msgqueue[dequeue_next].xmit_count + 1 > MaxRetransmit
  BY DEF SendDoneGivesUp, GivesUp, Oldest
<1>2. /\ serial \in Messages /\ dequeue_next \in Slots
      /\ tries[serial] = msgqueue[dequeue_next].xmit_count + 1
      /\ AckAfter(ok, acked) \in BOOLEAN
  BY <1>1, HeadIsCounted, AckIsBoolean
<1>3. /\ Counted'
      /\ event' = [message |-> serial, own |-> TRUE, success |-> FALSE,
                   address |-> Oldest.address, acked |-> acked, tried |-> tries[serial]]
  <2>1. PICK result \in BOOLEAN : result = FALSE
    OBVIOUS
  <2>2. Signal(result, acked)
    BY <1>1, <2>1
  <2>3. /\ Counted'
        /\ event' = [message |-> serial, own |-> TRUE, success |-> result,
                     address |-> Oldest.address, acked |-> acked, tried |-> tries[serial]]
    BY <1>1, <1>2, <2>2, SignalCounted
  <2>. QED  BY <2>1, <2>3
<1>4. ~event'.success /\ event'.tried = tries[serial]
  BY <1>3
<1>5. tries[serial] = MaxRetransmit + 1
  <2>1. msgqueue[dequeue_next].xmit_count \in 0 .. MaxRetransmit
    BY <1>2, LiveIsMessage DEF HInv
  <2>. QED  BY <1>1, <1>2, <2>1, QueueAssumption
<1>6. HonestReport'
  BY <1>4, <1>5 DEF HonestReport
<1>. QED  BY <1>3, <1>6

LEMMA SendDoneRetransmitsHonest ==
  ASSUME HInv, NEW ok \in BOOLEAN, NEW acked \in BOOLEAN, SendDoneRetransmits(ok, acked)
  PROVE  Counted' /\ HonestReport'
<1>1. /\ SendDone(ok) /\ IsOldest(serial) /\ event' = event
      /\ UNCHANGED <<enqueue_next, dequeue_next, tries>>
      /\ ack' = [ack EXCEPT ![serial] = AckAfter(ok, acked)]
      /\ ~AckAfter(ok, acked)
      /\ msgqueue' = [msgqueue EXCEPT ![dequeue_next].xmit_count = @ + 1]
  BY DEF SendDoneRetransmits, SendDone, Finished
<1>2. /\ serial \in Messages /\ dequeue_next \in Slots /\ ~Signalled /\ ~OwnSerial'
      /\ ~ack[serial] /\ serial = msgqueue[dequeue_next].pMsg
      /\ tries[serial] = msgqueue[dequeue_next].xmit_count + 1
      /\ Live(dequeue_next)
  BY <1>1, HeadIsCounted
<1>3. ~Signalled'
  BY <1>1, <1>2 DEF Signalled
<1>4. \A s \in Slots : Live(s)' <=> Live(s)
  BY <1>1, <1>2, <1>3 DEF Live, InUse
<1>5. /\ msgqueue \in [Slots -> Entries] /\ ack \in [Messages -> BOOLEAN]
      /\ \A s \in Slots : msgqueue'[s].pMsg = msgqueue[s].pMsg
      /\ \A s \in Slots : s # dequeue_next => msgqueue'[s].xmit_count = msgqueue[s].xmit_count
      /\ msgqueue'[dequeue_next].xmit_count = msgqueue[dequeue_next].xmit_count + 1
  BY <1>1, <1>2 DEF HInv, IInv, TypeOK, Entries
<1>6. \A m \in Messages : ~ack[m] => ~ack'[m]
  BY <1>1, <1>5
<1>7. ASSUME NEW s \in Slots, Live(s)
      PROVE  ~ack'[msgqueue[s].pMsg] /\ tries[msgqueue[s].pMsg] = msgqueue'[s].xmit_count
  <2>1. ~ack'[msgqueue[s].pMsg]
    BY <1>6, <1>7, LiveIsMessage DEF HInv, Counted
  <2>2. CASE s = dequeue_next
    BY <1>2, <1>5, <2>1, <2>2
  <2>3. CASE s # dequeue_next
    <3>1. msgqueue[s].xmit_count \in Nat
      BY LiveIsMessage, QueueAssumption DEF HInv
    <3>. QED  BY <1>5, <1>7, <2>1, <2>3, <3>1 DEF HInv, Counted
  <2>. QED  BY <2>2, <2>3
<1>8. \A s \in Slots : msgqueue'[s].xmit_count \in Nat
  BY <1>5, LiveIsMessage, QueueAssumption DEF HInv
<1>9. Counted'
  <2>1. ASSUME NEW s \in Slots, NEW u \in Slots, Live(s)', Live(u)',
               msgqueue'[s].pMsg = msgqueue'[u].pMsg
        PROVE  s = u
    BY <1>4, <1>5, <2>1 DEF HInv, Counted
  <2>2. ASSUME NEW s \in Slots, Live(s)'
        PROVE  /\ ~ack'[msgqueue'[s].pMsg]
               /\ tries'[msgqueue'[s].pMsg] =
                    msgqueue'[s].xmit_count + IF OwnSerial' /\ s = dequeue_next' THEN 1 ELSE 0
    BY <1>1, <1>2, <1>4, <1>5, <1>7, <1>8, <2>2
  <2>. QED  BY <2>1, <2>2 DEF Counted
<1>. QED  BY <1>3, <1>9, QuietIsHonest

(* The event is another client's: AM held nothing of the queue.             *)
LEMMA SendDoneFilteredHonest ==
  ASSUME HInv, NEW ok \in BOOLEAN, SendDoneFiltered(ok) PROVE Counted' /\ HonestReport'
<1>1. /\ UNCHANGED <<msgqueue, enqueue_next, dequeue_next, ack, tries>>
      /\ event = NoEvent /\ serial' = NoMsg /\ ~IsOldest(serial)
      /\ event' = [message |-> serial, own |-> FALSE, success |-> ok,
                   address |-> Oldest.address, acked |-> FALSE, tried |-> 0]
  BY DEF SendDoneFiltered, SendDone
<1>2. ~OwnSerial /\ ~OwnSerial' /\ ~Signalled /\ ~Signalled'
  <2>1. ~event'.own
    BY <1>1
  <2>. QED  BY <1>1, <2>1, QueueAssumption DEF HInv, IInv, NoInternalError, OwnSerial, Signalled
<1>. QED  BY <1>1, <1>2, CountedStays, QuietIsHonest

LEMMA EventReturnsHonest ==
  ASSUME HInv, IInv', EventReturns PROVE Counted' /\ HonestReport'
<1>. USE QueueAssumption
<1>1. /\ event # NoEvent /\ event' = NoEvent
      /\ UNCHANGED <<serial, ack, tries, enqueue_next>>
      /\ event.own => msgqueue' = ReleasedEntry /\ dequeue_next' = After(dequeue_next)
      /\ ~event.own => UNCHANGED <<msgqueue, dequeue_next>>
  BY DEF EventReturns
<1>2. ~Signalled' /\ (OwnSerial' <=> OwnSerial)
  BY <1>1 DEF Signalled, OwnSerial
<1>3. CASE ~event.own
  BY <1>1, <1>2, <1>3, CountedStays, QuietIsHonest DEF Signalled
<1>4. CASE event.own
  <2>1. Signalled /\ ~OwnSerial /\ dequeue_next # enqueue_next
    BY <1>1, <1>4 DEF Signalled, HInv, IInv, OneServer, Positions
  <2>2. /\ dequeue_next \in Slots /\ enqueue_next \in Slots
        /\ dequeue_next' = IF dequeue_next + 1 = Size THEN 0 ELSE dequeue_next + 1
    BY <1>1, <1>4, AfterIs DEF HInv, IInv, TypeOK
  <2>3. \A s \in Slots : Live(s)' <=> Live(s)
    BY <1>1, <1>2, <2>1, <2>2 DEF Live, InUse, Slots
  <2>4. \A s \in Slots : Live(s) => msgqueue'[s] = msgqueue[s]
    BY <1>1, <1>4, <2>1, <2>2 DEF Live, ReleasedEntry, HInv, IInv, TypeOK
  <2>5. Counted'
    BY <1>1, <1>2, <2>1, <2>3, <2>4 DEF HInv, Counted
  <2>. QED  BY <1>2, <2>5, QuietIsHonest
<1>. QED  BY <1>3, <1>4

LEMMA InitHonest == Init => HInv
<1>. SUFFICES ASSUME Init PROVE HInv
  OBVIOUS
<1>1. \A s \in Slots : ~Live(s)
  BY QueueAssumption DEF Init, Live, InUse, Slots
<1>2. HonestReport
  BY DEF Init, HonestReport, Signalled
<1>. QED  BY <1>1, <1>2, InitInv DEF HInv, Counted

LEMMA StepHonest == HInv /\ [Next]_vars => HInv'
<1>. SUFFICES ASSUME HInv, [Next]_vars PROVE HInv'
  OBVIOUS
<1>1. IInv'
  BY StepInv DEF HInv
<1>2. ASSUME UNCHANGED <<msgqueue, enqueue_next, dequeue_next, ack, tries, event>>,
             OwnSerial' <=> OwnSerial
      PROVE  Counted' /\ HonestReport'
  <2>1. Signalled' <=> Signalled
    BY <1>2 DEF Signalled
  <2>. QED  BY <1>2, <2>1, CountedStays, HonestStays
<1>3. ASSUME TaskStep PROVE Counted' /\ HonestReport'
  <2>1. CASE SerialSendMsg_send
    BY <1>1, <2>1, SerialSendMsg_sendHonest
  <2>2. ASSUME RunTask \/ ServiceTests \/ SerialSendMsg_sendRefused \/ ServiceIdles \/ TaskEnds
        PROVE  Counted' /\ HonestReport'
    <3>1. UNCHANGED <<msgqueue, enqueue_next, dequeue_next, ack, tries, event, serial>>
      BY <2>2 DEF RunTask, ServiceTests, SerialSendMsg_sendRefused, ServiceIdles, TaskEnds, ringVars
    <3>. QED  BY <1>2, <3>1 DEF OwnSerial
  <2>. QED  BY <1>3, <2>1, <2>2 DEF TaskStep
<1>4. ASSUME SerialStep PROVE Counted' /\ HonestReport'
  BY <1>4, SendDoneFilteredHonest, SendDoneFinishedHonest, SendDoneRetransmitsHonest,
     SendDoneGivesUpHonest DEF SerialStep
<1>5. ASSUME EventReturns PROVE Counted' /\ HonestReport'
  BY <1>1, <1>5, EventReturnsHonest
<1>6. ASSUME ClientStep PROVE Counted' /\ HonestReport'
  <2>1. ASSUME NEW m \in Messages, NEW to \in Destinations, QueueSendMsg_send(m, to)
        PROVE  Counted' /\ HonestReport'
    BY <1>1, <2>1, QueueSendMsg_sendHonest
  <2>2. CASE ForeignSend
    <3>1. /\ UNCHANGED <<msgqueue, enqueue_next, dequeue_next, ack, tries, event>>
          /\ serial = NoMsg /\ serial' = Foreign
      BY <2>2 DEF ForeignSend, ringVars
    <3>. QED  BY <1>2, <3>1, QueueAssumption DEF OwnSerial
  <2>3. CASE \E t \in Tasks : PostOther(t)
    <3>1. UNCHANGED <<msgqueue, enqueue_next, dequeue_next, ack, tries, event, serial>>
      BY <2>3 DEF PostOther, ringVars
    <3>. QED  BY <1>2, <3>1 DEF OwnSerial
  <2>. QED  BY <1>6, <2>1, <2>2, <2>3 DEF ClientStep
<1>7. ASSUME UNCHANGED vars PROVE Counted' /\ HonestReport'
  BY <1>2, <1>7 DEF vars, ringVars, OwnSerial
<1>8. Counted' /\ HonestReport'
  BY <1>3, <1>4, <1>5, <1>6, <1>7 DEF Next
<1>. QED  BY <1>1, <1>8 DEF HInv

(* With retransmission a message is reported sent over the radio only when  *)
(* it was acknowledged, and dropped only after MaxRetransmit + 1            *)
(* transmissions: the counter of the entry and the ack of the buffer always *)
(* speak of this message (QueuedSendM.nc:145, 146, 170, 179).               *)
THEOREM HonestReportAlways == Safety => []HonestReport
<1>1. HInv => HonestReport
  BY DEF HInv
<1>. QED  BY <1>1, InitHonest, StepHonest, PTL DEF Safety
=============================================================================
