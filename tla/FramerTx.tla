-------------------------------- MODULE FramerTx -------------------------------
(***************************************************************************)
(* The sending half of the serial framer, src/tos/platform/micaz/FramerM.nc*)
(* over UARTM.nc: one frame at a time, either the packet of the client or  *)
(* the token that acknowledges a packet received.                          *)
(*                                                                         *)
(* Frames are started by tasks only.  The UART interrupt asks for the next *)
(* byte; it may come inside a task, but all that a task and the handler    *)
(* share is gTxState, so its steps may be taken before the task's.         *)
(* Not reached in this build: frames of an unknown protocol (the receiver  *)
(* drops what it does not know) and a byte the UART reports as lost.       *)
(***************************************************************************)
EXTENDS Hdlc

CONSTANTS
  Messages,       \* the buffers of the client of BareSendMsg
  NoMsg,          \* NULL
  Tokens,
  DataBytes,      \* the bytes of a packet
  Reserved        \* task slots its clients leave to the framer

(* The tasks of the sending half, of FramerAckM and of AM.                  *)
TxTasks == {"PacketSent", "SendAckTask", "sendTask"}

ASSUME FramerTxAssumption ==
  /\ NoMsg \notin Messages
  /\ DataBytes \in Nat \ {0}
  /\ Reserved \in 0 .. MaxTasks
  /\ TxTasks \subseteq Tasks

VARIABLES
  gTxState,
  gPrevTxState,   \* IDLE when gTxState is not ESC
  gFlags,         \* which of the two are to be sent
  gTxProto,       \* the kind of frame last started
  left,           \* gTxLength - gTxByteCnt
  gpTxMsg,
  gTxTokenBuf,
  uart,           \* UARTM.state: a byte is on its way out
  owed            \* history: the message accepted and not answered yet

senderVars == <<tasks, running, gTxState, gPrevTxState, gFlags, gTxProto, left, gpTxMsg,
          gTxTokenBuf, uart, owed>>

TxStates ==
  {"IDLE", "PROTO", "INFO", "ESC", "FCS1", "FCS2", "ENDFLAG", "FINISH", "ERROR"}

Flags == {"TOKENPEND", "DATAPEND"}

TxTypeOK ==
  /\ FifoTypeOK
  /\ gTxState \in TxStates
  /\ gPrevTxState \in TxStates
  /\ gFlags \subseteq Flags
  /\ gTxProto \in {PROTO_ACK, PROTO_PACKET_NOACK}
  /\ left \in 0 .. DataBytes
  /\ gpTxMsg \in Messages \cup {NoMsg}
  /\ gTxTokenBuf \in Tokens \cup {0}
  /\ uart \in BOOLEAN
  /\ owed \in Messages \cup {NoMsg}

TxInit ==
  /\ FifoInit
  /\ gTxState = "IDLE"
  /\ gPrevTxState = "IDLE"
  /\ gFlags = {}
  /\ gTxProto = PROTO_ACK
  /\ left = 0
  /\ gpTxMsg = NoMsg
  /\ gTxTokenBuf = 0
  /\ uart = FALSE
  /\ owed = NoMsg
-----------------------------------------------------------------------------
(* Mutated: every flag is cleared.                                          *)
ToggleAll(flags, f) == IF f \in flags THEN {} ELSE flags \cup {f}

Toggle(flags, f) == IF f \in flags THEN flags \ {f} ELSE flags \cup {f}

(* StartTx at the end of a task, where state and flags are the values of    *)
(* gTxState and gFlags.                                                     *)
StartTx(state, flags) ==
  IF state # "IDLE" \/ flags = {}
  THEN /\ gTxState' = state
       /\ UNCHANGED <<gTxProto, left, uart, tasks>>
  ELSE /\ \/ /\ "TOKENPEND" \in flags
             /\ gTxProto' = PROTO_ACK
             /\ left' = 1
          \/ /\ "TOKENPEND" \notin flags
             /\ gTxProto' = PROTO_PACKET_NOACK
             /\ left' = DataBytes
       /\ uart' = TRUE
       /\ IF uart
          THEN gTxState' = "ERROR" /\ tasks' = Posted("PacketSent")
          ELSE gTxState' = "PROTO" /\ UNCHANGED tasks

(* The task is over.                                                        *)
Return == running' = NoTask

(* BareSendMsg.send, called from the task of the client.                    *)
BareSendMsg_send(m) ==
  /\ running = "sendTask"
  /\ owed = NoMsg
  /\ Return
  /\ \/ /\ "DATAPEND" \notin gFlags
        /\ gFlags' = gFlags \cup {"DATAPEND"}
        /\ gpTxMsg' = m
        /\ owed' = m
        /\ StartTx(gTxState, gFlags')
     \/ /\ "DATAPEND" \in gFlags
        /\ UNCHANGED <<gTxState, gTxProto, left, uart, tasks, gFlags, gpTxMsg,
                       owed>>
  /\ UNCHANGED <<gPrevTxState, gTxTokenBuf>>

(* TokenReceiveMsg.ReflectToken, called from SendAckTask.                   *)
ReflectToken(token) ==
  /\ running = "SendAckTask"
  /\ Return
  /\ \/ /\ "TOKENPEND" \notin gFlags
        /\ gFlags' = gFlags \cup {"TOKENPEND"}
        /\ gTxTokenBuf' = token
        /\ StartTx(gTxState, gFlags')
     \/ /\ "TOKENPEND" \in gFlags
        /\ UNCHANGED <<gTxState, gTxProto, left, uart, tasks, gFlags,
                       gTxTokenBuf>>
  /\ UNCHANGED <<gPrevTxState, gpTxMsg, owed>>

(* The task PacketSent takes gTxProto for the kind of the frame it was      *)
(* posted for.                                                              *)
StateSeen == IF gTxState = "ERROR" THEN "IDLE" ELSE gTxState

TokenSent ==
  /\ running = "PacketSent"
  /\ gTxProto = PROTO_ACK
  /\ Return
  /\ gFlags' = Toggle(gFlags, "TOKENPEND")
  /\ StartTx(StateSeen, gFlags')
  /\ UNCHANGED <<gPrevTxState, gpTxMsg, gTxTokenBuf, owed>>

DataSent ==
  /\ running = "PacketSent"
  /\ gTxProto # PROTO_ACK
  /\ Return
  /\ gFlags' = Toggle(gFlags, "DATAPEND")
  /\ owed' = IF gpTxMsg = owed THEN NoMsg ELSE owed
  /\ gpTxMsg' = NoMsg
  /\ StartTx(StateSeen, gFlags')
  /\ UNCHANGED <<gPrevTxState, gTxTokenBuf>>
-----------------------------------------------------------------------------
(* Mutated: the state to go on in is not kept.                              *)
TxArbitraryByteForgets(next) ==
  \/ gTxState' = next /\ UNCHANGED gPrevTxState
  \/ gTxState' = "ESC" /\ UNCHANGED gPrevTxState

(* TxArbitraryByte: a byte that looks like a flag is preceded by an escape. *)
TxArbitraryByte(next) ==
  \/ gTxState' = next /\ UNCHANGED gPrevTxState
  \/ gTxState' = "ESC" /\ gPrevTxState' = next

(* The interrupt for a byte sent: putDone, txDone and txByteReady.          *)
ByteSent ==
  /\ uart
  /\ \/ /\ gTxState = "PROTO"
        /\ gTxState' = "INFO"
        /\ UNCHANGED <<gPrevTxState, left>>
     \/ /\ gTxState = "INFO"
        /\ left' = left - 1
        /\ TxArbitraryByte(IF left = 1 THEN "FCS1" ELSE "INFO")
     \/ /\ gTxState = "ESC"
        /\ gTxState' = gPrevTxState
        /\ gPrevTxState' = "IDLE"
        /\ UNCHANGED left
     \/ /\ gTxState = "FCS1"
        /\ TxArbitraryByte("FCS2")
        /\ UNCHANGED left
     \/ /\ gTxState = "FCS2"
        /\ TxArbitraryByte("ENDFLAG")
        /\ UNCHANGED left
     \/ /\ gTxState = "ENDFLAG"
        /\ gTxState' = "FINISH"
        /\ UNCHANGED <<gPrevTxState, left>>
  /\ UNCHANGED <<tasks, running, gFlags, gTxProto, gpTxMsg, gTxTokenBuf, uart,
                 owed>>

FrameSent ==
  /\ uart
  /\ gTxState = "FINISH"
  /\ uart' = FALSE
  /\ gTxState' = "IDLE"
  /\ tasks' = Posted("PacketSent")
  /\ UNCHANGED <<running, gPrevTxState, gFlags, gTxProto, left, gpTxMsg,
                 gTxTokenBuf, owed>>
-----------------------------------------------------------------------------
txVars == <<gTxState, gPrevTxState, gFlags, gTxProto, left, gpTxMsg,
            gTxTokenBuf, uart, owed>>

(* AM posts its task for the message it has accepted, FramerAckM one for    *)
(* each packet that asks for an acknowledgement.                            *)
ClientPosts ==
  /\ owed = NoMsg
  /\ running # "sendTask"
  /\ ~Queued("sendTask")
  /\ Len(tasks) + Reserved < MaxTasks
  /\ Post("sendTask")
  /\ UNCHANGED txVars

AckPosts ==
  /\ Len(tasks) + Reserved < MaxTasks
  /\ Post("SendAckTask")
  /\ UNCHANGED txVars

TxTaskStep ==
  \/ RunNext /\ UNCHANGED txVars
  \/ \E m \in Messages : BareSendMsg_send(m)
  \/ \E token \in Tokens : ReflectToken(token)
  \/ TokenSent
  \/ DataSent

Interrupt == ByteSent \/ FrameSent

TxNext == TxTaskStep \/ Interrupt \/ ClientPosts \/ AckPosts

TxSafety == TxInit /\ [][TxNext]_senderVars

(* The main loop never stops and the UART sends what it is given.           *)
TxSpec == TxSafety /\ WF_senderVars(TxTaskStep) /\ WF_senderVars(Interrupt)
-----------------------------------------------------------------------------
(* A message accepted and not yet answered is still to be sent, however     *)
(* often PacketSent took the frame of a token for its own: send and         *)
(* PacketSent agree on gFlags and gpTxMsg.                                  *)
MessageKept == owed # NoMsg => owed = gpTxMsg /\ "DATAPEND" \in gFlags

(* "If SUCCESS, a sendDone should be expected" (BareSendMsg.nc:33): it comes*)
(* when the host asks for no more acknowledgements.  A stream of them can   *)
(* put it off for ever: a token started between txDone and PacketSent takes *)
(* the place of the message in PacketSent, and the message is sent again.   *)
AcksStop == <>[](~Queued("SendAckTask") /\ running # "SendAckTask")

Answered == AcksStop => (owed # NoMsg ~> owed = NoMsg)
=============================================================================
