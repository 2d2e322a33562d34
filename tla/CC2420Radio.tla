----------------------------- MODULE CC2420Radio -----------------------------
(***************************************************************************)
(* The CC2420 packet layer, src/tos/radio/cc2420/CC2420RadioM.nc, with its *)
(* one-shot backoff and acknowledgement timer, TimerJiffyAsyncM.nc, as     *)
(* compiled into the MicaZ application: manual acknowledgements, no        *)
(* immediate-send mode, the default MAC backoff.                           *)
(*                                                                         *)
(* Three contexts run its code.  The tasks; the Timer2 compare handler     *)
(* (TOSH_INTERRUPT: interrupts stay on), which preempts them; the FIFOP    *)
(* handler (TOSH_SIGNAL: interrupts off, one step), which preempts both    *)
(* whenever it is enabled.                                                 *)
(***************************************************************************)
EXTENDS Mote, Integers

CONSTANTS
  NoMsg,        \* txbufptr before the first send
  RetryCount,   \* SEND_RETRY_COUNT
  ByteMod,      \* cnttryToSend is a uint8_t: 256
  DsnMod,       \* currentDSN is a uint8_t: 256
  LoadCanFail   \* may the CC2420 answer a TXFIFO access with status 0 ?

ASSUME RadioAssumption ==
  /\ NoMsg \notin Messages
  /\ ByteMod \in Nat \ {0}
  /\ DsnMod \in Nat \ {0}
  /\ RetryCount \in 0 .. ByteMod - 1
  /\ LoadCanFail \in BOOLEAN

VARIABLES
  RadioState,    \* what the packet layer is doing
  stateTimer,    \* what the one-shot timer was last set for
  bSet,          \* the one-shot timer is set
  cnttryToSend,  \* busy-channel backoffs left
  currentDSN,    \* sequence number of the last frame
  txbufptr,      \* the message being sent
  bRxBufLocked,  \* the receive buffer holds a packet
  fifop,         \* the FIFOP interrupt is enabled
  airAcks,       \* the acknowledgements on the air or in the RXFIFO, by DSN
  answered       \* history: the receiver acknowledged the last frame

radioVars ==
  <<RadioState, stateTimer, bSet, cnttryToSend, currentDSN, txbufptr,
    bRxBufLocked, fifop, airAcks, answered>>

TxSequence == {"PRE_TX", "TX", "POST_TX"}

Dsns == 0 .. DsnMod - 1

RadioTypeOK ==
  /\ RadioState \in {"DISABLED", "IDLE"} \cup TxSequence
  /\ stateTimer \in {"IDLE", "INITIAL", "BACKOFF", "ACK"}
  /\ bSet \in BOOLEAN
  /\ cnttryToSend \in 0 .. ByteMod - 1
  /\ currentDSN \in Dsns
  /\ txbufptr \in Messages \cup {NoMsg}
  /\ bRxBufLocked \in BOOLEAN
  /\ fifop \in BOOLEAN
  /\ airAcks \subseteq Dsns
  /\ answered \in BOOLEAN

(* StdControl.init, and the cleared statics.                                *)
RadioInit ==
  /\ RadioState = "DISABLED"
  /\ stateTimer = "IDLE"
  /\ bSet = FALSE
  /\ cnttryToSend = 0
  /\ currentDSN = 0
  /\ txbufptr = NoMsg
  /\ bRxBufLocked = FALSE
  /\ fifop = FALSE
  /\ airAcks = {}
  /\ answered = FALSE
-----------------------------------------------------------------------------
(* Restoring the length field that Send.send has adjusted.  NotRestored is  *)
(* a mutated form of Restored, as are the other definitions marked          *)
(* "mutated" below of the ones that follow them: slips that this code could *)
(* contain.                                                                 *)
NotRestored(m) == framed

Restored(m) == [framed EXCEPT ![m] = @ - 1]

(* Mutated: the state machine is reset and nobody told.                     *)
fSendAbortedSilently(s) ==
  /\ isr' = "abort"
  /\ RadioState' = IF s \in TxSequence THEN "IDLE" ELSE s
  /\ framed' = IF s \in TxSequence THEN Restored(txbufptr) ELSE framed
  /\ UNCHANGED up

(* fSendAborted with RadioState = s, called by the timer handler.  After    *)
(* the event it signals, and in any case last, it enables FIFOP.            *)
fSendAborted(s) ==
  /\ isr' = "abort"
  /\ IF s \in TxSequence
     THEN /\ RadioState' = "IDLE"
          /\ framed' = Restored(txbufptr)
          /\ Signal("interrupt", txbufptr, FALSE)
     ELSE /\ RadioState' = s
          /\ UNCHANGED <<framed, up>>

(* Mutated: without the call marked "check if this is required ????".       *)
SendAbortedDeaf ==
  /\ IsrAt("abort")
  /\ isr' = "none"
  /\ UNCHANGED <<tasks, running, at, up, msgVars, RadioState, stateTimer, bSet,
                 cnttryToSend, currentDSN, txbufptr, bRxBufLocked, fifop, airAcks,
                 answered>>

(* The end of fSendAborted, once sendDone has returned.                     *)
SendAborted ==
  /\ IsrAt("abort")
  /\ isr' = "none"
  /\ fifop' = TRUE
  /\ UNCHANGED <<tasks, running, at, up, msgVars, RadioState, stateTimer, bSet,
                 cnttryToSend, currentDSN, txbufptr, bRxBufLocked, airAcks, answered>>

(* Mutated: the result of the post is ignored.                              *)
PostPacketSentUnchecked ==
  /\ IF HasRoom THEN Post("PacketSent") ELSE UNCHANGED <<tasks, running>>
  /\ isr' = "none"
  /\ UNCHANGED <<up, framed, RadioState>>

(* post PacketSent(), or fSendAborted() when the task queue is full.        *)
PostPacketSent ==
  IF HasRoom
  THEN /\ Post("PacketSent")
       /\ isr' = "none"
       /\ UNCHANGED <<up, framed, RadioState>>
  ELSE /\ fSendAborted(RadioState)
       /\ UNCHANGED <<tasks, running>>
-----------------------------------------------------------------------------
(* Send.send(m) of an idle radio, up to the start of the initial backoff.   *)
(* With the radio in another state it returns FAIL and changes nothing.     *)
SendBegin(m) ==
  /\ RadioState = "IDLE"
  /\ RadioState' = "PRE_TX"
  /\ framed' = [framed EXCEPT ![m] = @ + 1]
  /\ currentDSN' = (currentDSN + 1) % DsnMod
  /\ txbufptr' = m
  /\ stateTimer' = "INITIAL"
  /\ answered' = FALSE
  /\ airAcks' = airAcks \ {currentDSN'}   \* no ack outlives DsnMod frames
  /\ UNCHANGED <<addr, ack, bSet, cnttryToSend, bRxBufLocked, fifop>>

(* setInitialTimer's setOneShot ...                                         *)
SendArm ==
  /\ TaskAt("sendTask", "arm")
  /\ bSet' = TRUE
  /\ at' = "count"
  /\ UNCHANGED <<tasks, running, isr, up, msgVars, RadioState, stateTimer, cnttryToSend,
                 currentDSN, txbufptr, bRxBufLocked, fifop, airAcks, answered>>

(* ... and only then the retry count, after which Send.send returns.        *)
SendCount ==
  /\ TaskAt("sendTask", "count")
  /\ cnttryToSend' = RetryCount
  /\ at' = "return"
  /\ UNCHANGED <<tasks, running, isr, up, msgVars, RadioState, stateTimer, bSet,
                 currentDSN, txbufptr, bRxBufLocked, fifop, airAcks, answered>>
-----------------------------------------------------------------------------
(* The Timer2 compare interrupt: TimerJiffyAsyncM.Timer.fire up to the      *)
(* signal of BackoffTimerJiffy.fired.                                       *)
TimerFire ==
  /\ isr = "none"
  /\ bSet
  /\ bSet' = FALSE
  /\ isr' = "fired"
  /\ UNCHANGED <<tasks, running, at, up, msgVars, RadioState, stateTimer, cnttryToSend,
                 currentDSN, txbufptr, bRxBufLocked, fifop, airAcks, answered>>

(* The outcomes of sendPacket up to the point where the frame is on the     *)
(* air and FIFOP enabled again; s is RadioState, receiving says whether the *)
(* caller enables FIFOP afterwards.  The strobe is refused, the SFD pin     *)
(* never rises, or the frame goes out.                                      *)
sendPacket(outcome, s, receiving) ==
  CASE outcome = "inactive" ->
         /\ RadioState' = s
         /\ stateTimer' = "BACKOFF"
         /\ bSet' = TRUE
         /\ fifop' = receiving
         /\ isr' = "none"
         /\ UNCHANGED <<up, ack, framed>>
    [] outcome = "stuck" ->
         /\ fSendAborted(s)
         /\ stateTimer' = "IDLE"
         /\ fifop' = FALSE
         /\ UNCHANGED <<ack, bSet>>
    [] outcome = "sent" ->
         /\ stateTimer' = "IDLE"
         /\ fifop' = TRUE
         /\ IF s \in {"PRE_TX", "TX"}
            THEN /\ RadioState' = "POST_TX"
                 /\ ack' = [ack EXCEPT ![txbufptr] = TRUE]
                 /\ isr' = "sent"
            ELSE /\ RadioState' = "IDLE"
                 /\ isr' = "none"
                 /\ UNCHANGED ack
         /\ UNCHANGED <<bSet, up, framed>>

(* fired, TIMER_INITIAL: FIFOP off, the header loaded into the TXFIFO.      *)
InitialFired(outcome) ==
  /\ IsrAt("fired")
  /\ stateTimer = "INITIAL"
  /\ IF outcome = "notLoaded"
     THEN /\ LoadCanFail
          /\ fSendAborted("IDLE")
          /\ stateTimer' = "IDLE"
          /\ fifop' = FALSE
          /\ UNCHANGED <<ack, bSet>>
     ELSE sendPacket(outcome, RadioState, TRUE)
  /\ UNCHANGED <<tasks, running, at, addr, cnttryToSend, currentDSN, txbufptr,
                 bRxBufLocked, airAcks, answered>>

(* fired, TIMER_BACKOFF: tryToSend with a clear channel.                    *)
ClearChannel(outcome) ==
  /\ IsrAt("fired")
  /\ stateTimer = "BACKOFF"
  /\ RadioState \in {"PRE_TX", "TX"}
  /\ sendPacket(outcome, "TX", FALSE)
  /\ UNCHANGED <<tasks, running, at, addr, cnttryToSend, currentDSN, txbufptr,
                 bRxBufLocked, airAcks, answered>>

(* Mutated: the counter is an int; the test is cnttryToSend-- < 0, which an *)
(* unsigned counter never passes.                                           *)
CountDownSigned == cnttryToSend - 1
OutOfRetriesNever == FALSE

(* cnttryToSend-- <= 0: the old value is tested and the new one wraps.      *)
CountDown == (cnttryToSend - 1) % ByteMod
OutOfRetries == cnttryToSend = 0

(* fired, TIMER_BACKOFF: tryToSend with a busy channel.                     *)
BusyChannel ==
  /\ IsrAt("fired")
  /\ stateTimer = "BACKOFF"
  /\ RadioState \in {"PRE_TX", "TX"}
  /\ cnttryToSend' = CountDown
  /\ IF OutOfRetries
     THEN /\ fSendAborted(RadioState)
          /\ stateTimer' = "IDLE"
          /\ UNCHANGED bSet
     ELSE /\ stateTimer' = "BACKOFF"
          /\ bSet' = TRUE
          /\ isr' = "none"
          /\ UNCHANGED <<RadioState, up, framed>>
  /\ UNCHANGED <<tasks, running, at, addr, ack, currentDSN, txbufptr, bRxBufLocked, fifop,
                 airAcks, answered>>

(* The rest of sendPacket for a broadcast: nothing to wait for.             *)
SentBroadcast ==
  /\ IsrAt("sent")
  /\ addr[txbufptr] = "broadcast"
  /\ PostPacketSent
  /\ UNCHANGED <<at, addr, ack, stateTimer, bSet, cnttryToSend, currentDSN, txbufptr,
                 bRxBufLocked, fifop, airAcks, answered>>

(* The rest of sendPacket for a unicast: no ack yet, wait for the end of    *)
(* the frame, which the receiver acknowledges or not ...                    *)
SentUnicast(acknowledged) ==
  /\ IsrAt("sent")
  /\ addr[txbufptr] = "unicast"
  /\ ack' = [ack EXCEPT ![txbufptr] = FALSE]
  /\ isr' = "wait"
  /\ answered' = acknowledged
  /\ airAcks' = IF acknowledged THEN airAcks \cup {currentDSN} ELSE airAcks
  /\ UNCHANGED <<tasks, running, at, up, addr, framed, RadioState, stateTimer, bSet,
                 cnttryToSend, currentDSN, txbufptr, bRxBufLocked, fifop>>

(* ... then setAckTimer.                                                    *)
SetAckTimer ==
  /\ IsrAt("wait")
  /\ stateTimer' = "ACK"
  /\ bSet' = TRUE
  /\ isr' = "none"
  /\ UNCHANGED <<tasks, running, at, up, msgVars, RadioState, cnttryToSend, currentDSN,
                 txbufptr, bRxBufLocked, fifop, airAcks, answered>>

(* fired, TIMER_ACK, of a frame still waiting for its ack.                  *)
AckFired ==
  /\ IsrAt("fired")
  /\ stateTimer = "ACK"
  /\ RadioState = "POST_TX"
  /\ stateTimer' = "IDLE"
  /\ ack' = [ack EXCEPT ![txbufptr] = FALSE]
  /\ PostPacketSent
  /\ UNCHANGED <<at, addr, bSet, cnttryToSend, currentDSN, txbufptr, bRxBufLocked, fifop,
                 airAcks, answered>>

(* fired with nothing to do: a timer that outlived its purpose.             *)
StaleFired ==
  /\ IsrAt("fired")
  /\ \/ stateTimer = "IDLE"
     \/ stateTimer = "BACKOFF" /\ RadioState \notin {"PRE_TX", "TX"}
     \/ stateTimer = "ACK" /\ RadioState # "POST_TX"
  /\ stateTimer' = "IDLE"
  /\ isr' = "none"
  /\ UNCHANGED <<tasks, running, at, up, msgVars, RadioState, bSet, cnttryToSend,
                 currentDSN, txbufptr, bRxBufLocked, fifop, airAcks, answered>>
-----------------------------------------------------------------------------
(* Mutated: a duplicate is not recognised.                                  *)
PacketSentUnchecked ==
  /\ TaskAt("PacketSent", "start")
  /\ at' = "return"
  /\ RadioState' = "IDLE"
  /\ framed' = Restored(txbufptr)
  /\ Signal("task", txbufptr, TRUE)
  /\ UNCHANGED <<tasks, running, isr, addr, ack, stateTimer, bSet, cnttryToSend, currentDSN,
                 txbufptr, bRxBufLocked, fifop, airAcks, answered>>

(* task PacketSent: immedPacketSent.  A duplicate finds another state.      *)
PacketSent ==
  /\ TaskAt("PacketSent", "start")
  /\ at' = "return"
  /\ IF RadioState = "POST_TX"
     THEN /\ RadioState' = "IDLE"
          /\ framed' = Restored(txbufptr)
          /\ Signal("task", txbufptr, TRUE)
     ELSE UNCHANGED <<RadioState, framed, up>>
  /\ UNCHANGED <<tasks, running, isr, addr, ack, stateTimer, bSet, cnttryToSend, currentDSN,
                 txbufptr, bRxBufLocked, fifop, airAcks, answered>>

(* task PacketRcvd: immedPacketRcvd signals receive, which AM hands to the  *)
(* client if it is addressed to it ...                                      *)
PacketRcvd ==
  /\ TaskAt("PacketRcvd", "start")
  /\ at' = "client"
  /\ UNCHANGED <<tasks, running, isr, up, msgVars, radioVars>>

(* ... and then frees the receive buffer and enables FIFOP.                 *)
ReceiveReturns ==
  /\ ClientTask
  /\ running = "PacketRcvd"
  /\ at' = "return"
  /\ bRxBufLocked' = FALSE
  /\ fifop' = TRUE
  /\ UNCHANGED <<tasks, running, isr, up, msgVars, RadioState, stateTimer, bSet,
                 cnttryToSend, currentDSN, txbufptr, airAcks, answered>>
-----------------------------------------------------------------------------
(* Mutated: without the test of RadioState; without the test of the DSN.    *)
AckAwaitedInAnyState(d) == ~bRxBufLocked /\ d = currentDSN
AckAwaitedOfAnyFrame(d) == ~bRxBufLocked /\ RadioState = "POST_TX"

(* An ack is the one the radio waits for.                                   *)
AckAwaited(d) ==
  /\ ~bRxBufLocked
  /\ d = currentDSN
  /\ RadioState = "POST_TX"

(* FIFOPIntr reads an ack frame: the awaited one ends the transmission, any *)
(* other is dropped (or flushed, when the receive buffer is locked).        *)
FIFOPAck(d) ==
  /\ fifop
  /\ d \in airAcks
  /\ airAcks' = airAcks \ {d}
  /\ IF AckAwaited(d)
     THEN /\ ack' = [ack EXCEPT ![txbufptr] = TRUE]
          /\ IF HasRoom
             THEN Post("PacketSent") /\ bSet' = FALSE
             ELSE UNCHANGED <<tasks, running, bSet>>
     ELSE UNCHANGED <<tasks, running, ack, bSet>>
  /\ UNCHANGED <<at, isr, up, addr, framed, RadioState, stateTimer, cnttryToSend, currentDSN,
                 txbufptr, bRxBufLocked, fifop, answered>>

(* Mutated: without the test of the lock.                                   *)
FIFOPDataUnlocked ==
  /\ fifop
  /\ bRxBufLocked' = TRUE
  /\ Post("PacketRcvd")
  /\ UNCHANGED <<at, isr, up, msgVars, RadioState, stateTimer, bSet, cnttryToSend,
                 currentDSN, txbufptr, fifop, airAcks, answered>>

(* FIFOPIntr reads a data frame into the free receive buffer.  Everything   *)
(* else it reads (bad length or CRC, any frame while the buffer is locked)  *)
(* it drops, changing nothing; so does a full task queue.                   *)
FIFOPData ==
  /\ fifop
  /\ ~bRxBufLocked
  /\ bRxBufLocked' = TRUE
  /\ Post("PacketRcvd")
  /\ UNCHANGED <<at, isr, up, msgVars, RadioState, stateTimer, bSet, cnttryToSend,
                 currentDSN, txbufptr, fifop, airAcks, answered>>
-----------------------------------------------------------------------------
(* StdControl.stop.  Neither the timer nor FIFOP is touched.                *)
RadioStop ==
  /\ RadioState' = "DISABLED"
  /\ UNCHANGED <<stateTimer, bSet, cnttryToSend, currentDSN, txbufptr,
                 bRxBufLocked, fifop, airAcks, answered>>

(* StdControl.start.  CC2420ControlM's start enables FIFOP.                 *)
RadioStart ==
  /\ IF RadioState = "DISABLED"
     THEN RadioState' = "IDLE" /\ fifop' = TRUE
     ELSE UNCHANGED <<RadioState, fifop>>
  /\ UNCHANGED <<stateTimer, bSet, cnttryToSend, currentDSN, txbufptr,
                 bRxBufLocked, airAcks, answered>>
=============================================================================
