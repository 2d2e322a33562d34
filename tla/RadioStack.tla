----------------------------- MODULE RadioStack -----------------------------
(***************************************************************************)
(* The send and receive path of a MicaZ mote: the Active Message layer,    *)
(* src/tos/system/AMPromiscuous.nc, over the CC2420 packet layer, with     *)
(* clients that send from tasks, from receive events and from sendDone     *)
(* events, in task or in interrupt context.                                *)
(***************************************************************************)
EXTENDS CC2420Radio

VARIABLES
  state,    \* AM is busy with a message
  buffer,   \* that message
  owed      \* history: the sendDone events each message is owed

amVars == <<state, buffer, owed>>
vars == <<moteVars, radioVars, amVars>>

AMTypeOK ==
  /\ state \in BOOLEAN
  /\ buffer \in Messages \cup {NoMsg}
  /\ owed \in [Messages -> 0 .. 1]

TypeOK == MoteTypeOK /\ RadioTypeOK /\ AMTypeOK

Init ==
  /\ MoteInit
  /\ RadioInit
  /\ state = FALSE
  /\ buffer = NoMsg
  /\ owed = [m \in Messages |-> 0]
-----------------------------------------------------------------------------
(* SendMsg.send(to, length, m), called by a client that holds m.  Nothing   *)
(* interferes with it: a handler that calls it has found AM busy.           *)
SendMsg_send(m, to) ==
  /\ ClientRuns
  /\ owed[m] = 0
  /\ IF ~state /\ HasRoom
     THEN /\ Post("sendTask")
          /\ state' = TRUE
          /\ buffer' = m
          /\ addr' = [addr EXCEPT ![m] = to]
          /\ framed' = [framed EXCEPT ![m] = 0]
          /\ owed' = [owed EXCEPT ![m] = @ + 1]
     ELSE UNCHANGED <<tasks, running, addr, framed, amVars>>
  /\ UNCHANGED <<at, isr, up, ack, radioVars>>

(* task sendTask: RadioSend.send(buffer), accepted ...                      *)
SendTaskAccepted ==
  /\ TaskAt("sendTask", "start")
  /\ SendBegin(buffer)
  /\ at' = "arm"
  /\ UNCHANGED <<tasks, running, isr, up, amVars>>

(* ... or refused, and reported at once.                                    *)
SendTaskRefused ==
  /\ TaskAt("sendTask", "start")
  /\ RadioState # "IDLE"
  /\ Signal("task", buffer, FALSE)
  /\ at' = "return"
  /\ UNCHANGED <<tasks, running, isr, msgVars, radioVars, amVars>>

(* RadioSend.sendDone and reportSendDone, up to the client's event.         *)
reportSendDone(c) ==
  /\ up[c] # NoEvent
  /\ ~up[c].delivered
  /\ c = "task" => isr = "none"
  /\ state' = FALSE
  /\ owed' = [owed EXCEPT ![up[c].message] = @ - 1]
  /\ up' = [up EXCEPT ![c] = Delivered(up[c])]
  /\ UNCHANGED <<tasks, running, at, isr, msgVars, radioVars, buffer>>

(* Mutated: without the test of state.                                      *)
Control_stopAlways ==
  /\ ClientTask \/ ClientEvent("task")
  /\ RadioStop
  /\ UNCHANGED <<moteVars, amVars>>

(* Control.stop, which a client may call from a task; AM refuses when busy. *)
Control_stop ==
  /\ ClientTask \/ ClientEvent("task")
  /\ ~state
  /\ RadioStop
  /\ UNCHANGED <<moteVars, amVars>>

(* Control.start, called at boot and after a stop.  It forgets the message  *)
(* AM is busy with; callers do not start with one under way.                *)
Control_start ==
  /\ ClientTask \/ ClientEvent("task")
  /\ ~state
  /\ RadioStart
  /\ state' = FALSE
  /\ UNCHANGED <<moteVars, buffer, owed>>
-----------------------------------------------------------------------------
Outcomes == {"inactive", "stuck", "sent"}

(* The steps of the tasks.                                                  *)
TaskStep ==
  \/ RunTask /\ UNCHANGED <<radioVars, amVars>>
  \/ TaskEnds /\ UNCHANGED <<radioVars, amVars>>
  \/ OtherTask /\ UNCHANGED <<radioVars, amVars>>
  \/ OtherTaskDone /\ UNCHANGED <<radioVars, amVars>>
  \/ EventReturns("task") /\ UNCHANGED <<radioVars, amVars>>
  \/ SendTaskAccepted
  \/ SendTaskRefused
  \/ SendArm /\ UNCHANGED amVars
  \/ SendCount /\ UNCHANGED amVars
  \/ PacketSent /\ UNCHANGED amVars
  \/ PacketRcvd /\ UNCHANGED amVars
  \/ ReceiveReturns /\ UNCHANGED amVars
  \/ reportSendDone("task")

(* A transmission attempt that is not refused by the chip.                  *)
Attempt ==
  \/ ClearChannel("stuck") /\ UNCHANGED amVars
  \/ ClearChannel("sent") /\ UNCHANGED amVars
  \/ BusyChannel /\ UNCHANGED amVars

(* The steps of the Timer2 compare handler.                                 *)
HandlerStep ==
  \/ \E o \in Outcomes \cup {"notLoaded"} : InitialFired(o) /\ UNCHANGED amVars
  \/ ClearChannel("inactive") /\ UNCHANGED amVars
  \/ Attempt
  \/ SentBroadcast /\ UNCHANGED amVars
  \/ \E a \in BOOLEAN : SentUnicast(a) /\ UNCHANGED amVars
  \/ SetAckTimer /\ UNCHANGED amVars
  \/ AckFired /\ UNCHANGED amVars
  \/ StaleFired /\ UNCHANGED amVars
  \/ SendAborted /\ UNCHANGED amVars
  \/ reportSendDone("interrupt")
  \/ EventReturns("interrupt") /\ UNCHANGED <<radioVars, amVars>>

TimerStep == TimerFire /\ UNCHANGED amVars

(* What clients, other components and the air may do at any time.           *)
EnvironmentStep ==
  \/ \E t \in Tasks : PostOther(t) /\ UNCHANGED <<radioVars, amVars>>
  \/ \E m \in Messages, to \in {"unicast", "broadcast"} : SendMsg_send(m, to)
  \/ Control_stop
  \/ Control_start
  \/ \E d \in Dsns : FIFOPAck(d) /\ UNCHANGED amVars
  \/ FIFOPData /\ UNCHANGED amVars

Next == TaskStep \/ HandlerStep \/ TimerStep \/ EnvironmentStep

Safety == Init /\ [][Next]_vars

(* Tasks and handlers run to completion and a timer that is set expires.    *)
(* The chip does not refuse the strobe of a clear channel for ever.  Of     *)
(* clients, other components and the air nothing is assumed.                *)
Spec ==
  /\ Safety
  /\ WF_vars(TaskStep)
  /\ WF_vars(HandlerStep)
  /\ WF_vars(TimerStep)
  /\ SF_vars(Attempt)

-----------------------------------------------------------------------------
(* Where the message AM is busy with is: on its way to the radio, in the    *)
(* radio, or on its way back.                                               *)
OnTheWay ==
  \/ Queued("sendTask")
  \/ running = "sendTask" /\ at = "start"

InRadio == RadioState \in TxSequence

OnTheWayBack == \E c \in Contexts : up[c] # NoEvent /\ ~up[c].delivered

(* AM is busy exactly while a message it accepted is in one of these        *)
(* places.  "If SUCCESS, a sendDone should be expected, if FAIL, the event  *)
(* should not be expected" (BareSendMsg.nc:32-34): a message that is in     *)
(* none of them is never handed back, and AM refuses all others for ever.   *)
NoLostSendDone == state => OnTheWay \/ InRadio \/ OnTheWayBack

(* sendDone is signalled for the message that is owed one, never for a      *)
(* message that the client already has back.                                *)
SendDoneOwed ==
  \A c \in Contexts :
    up[c] # NoEvent /\ ~up[c].delivered =>
      /\ state
      /\ up[c].message = buffer
      /\ owed[buffer] = 1

(* When the client gets its buffer back, the length field is the one it     *)
(* gave: header and footer sizes are added and removed in pairs, whichever  *)
(* way the transmission ends.                                               *)
PayloadLength == \A m \in Messages : owed[m] = 0 => framed[m] = 0

(* A message that is backing off or being sent is not preceded by the       *)
(* PacketSent of an earlier one, which would end it before its time: the    *)
(* duplicates that the race in FIFOPIntr leaves in the queue are gone.      *)
NoStalePacketSent ==
  RadioState \in {"PRE_TX", "TX"} => ~Pending("PacketSent")

(* A stopped radio has no transmission timer pending, though stop does not  *)
(* stop the timer: nothing is transmitted with the radio off.               *)
StoppedIsQuiet ==
  RadioState = "DISABLED" => stateTimer \notin {"INITIAL", "BACKOFF"}

(* The receive buffer is locked exactly while one PacketRcvd owns it.       *)
PacketRcvdHolds ==
  \/ Queued("PacketRcvd")
  \/ running = "PacketRcvd" /\ at \in {"start", "client"}

OnePacketRcvd ==
  /\ bRxBufLocked <=> PacketRcvdHolds
  /\ Once("PacketRcvd")
  /\ Queued("PacketRcvd") => ~(running = "PacketRcvd" /\ at \in {"start", "client"})

(* Outside the handler, a radio that is idle or waits for an ack hears.     *)
NotDeaf == RadioState \in {"IDLE", "POST_TX"} /\ isr = "none" => fifop

(* A unicast that is reported as sent and acknowledged was acknowledged by  *)
(* its receiver: an ack that comes late is not taken for the next frame's.  *)
AckTruth ==
  \A c \in Contexts :
    LET e == up[c] IN
      e # NoEvent /\ ~e.delivered /\ e.success /\ addr[e.message] = "unicast" =>
        (ack[e.message] => answered)

(* The number of busy-channel backoffs is bounded: once send has returned   *)
(* the counter, which the last attempt of the previous message left at      *)
(* 255, is at most SEND_RETRY_COUNT.                                        *)
RetryBound ==
  RadioState \in {"PRE_TX", "TX"} /\ at \notin {"arm", "count"} /\ isr = "none" =>
    cnttryToSend <= RetryCount

(* "TIMER_ACK: no ack came" (CC2420RadioM.nc:649).                          *)
NoAckCame ==
  isr = "fired" /\ stateTimer = "ACK" /\ RadioState = "POST_TX" =>
    ~ack[txbufptr]

Contract == INSTANCE SplitPhase

(* AM hands every message back once, in the end.                            *)
SplitPhaseContract == Contract!SplitSpec
=============================================================================
