-------------------------------- MODULE FramerRx -------------------------------
(***************************************************************************)
(* The receiving half of the serial framer, src/tos/platform/micaz/        *)
(* FramerM.nc: the UART interrupt puts the bytes of a frame in the buffer  *)
(* at the head of a table of two, and the task PacketRcvd hands the buffer *)
(* at its tail to the client, who gives one in return.  FramerAckM, between*)
(* the two, has the token of a packet sent back from a task of its own.    *)
(*                                                                         *)
(* A byte is known by what the receiver makes of it; a payload or token    *)
(* byte is one of Tags, and a payload stands for its last byte.  Whether   *)
(* the checksum is right is left open.                                     *)
(***************************************************************************)
EXTENDS Hdlc

CONSTANTS
  Tags,           \* the values of payload and token bytes
  HDLC_MTU,       \* the bytes of a frame (29 + 7 in the build)
  MinLength,      \* the length from which a frame is handed on (5)
  EmptyFrames     \* do frames without any payload come ?

(* The tasks of the receiving half and of FramerAckM; MaxTasks is the room  *)
(* the rest of the program leaves them.                                     *)
RxTasks == {"PacketRcvd", "SendAckTask"}

Slots == 0 .. 1   \* HDLC_QUEUESIZE is 2

Buffers == 0 .. 2 \* gMsgRcvBuf[0] and [1] and the client's
NoBuffer == 3

ASSUME FramerRxAssumption ==
  /\ RxTasks \subseteq Tasks
  /\ HDLC_MTU \in Nat
  /\ MinLength \in Nat \ {0}
  /\ EmptyFrames \in BOOLEAN
  /\ Tags \subseteq 1 .. 31

VARIABLES
  gRxState,
  gMsgRcvTbl,     \* per slot, Length (0 for a free one), Proto, Token, pMsg
  gRxHeadIndex,   \* the slot being filled
  gRxTailIndex,   \* the slot to be handed on next
  gRxByteCnt,
  gpRxBuf,        \* the buffer being filled
  content,        \* the payload in each buffer
  at,             \* how far PacketRcvd is
  pBuf,           \* its local variable
  held,           \* the buffer the client keeps
  gTokenBuf,      \* FramerAckM: the token to send back
  arrived         \* history: the frames received and not handed on yet

rxVars == <<gRxState, gMsgRcvTbl, gRxHeadIndex, gRxTailIndex, gRxByteCnt,
            gpRxBuf, content>>
rcvdVars == <<at, pBuf, held, gTokenBuf>>

vars == <<tasks, running, rxVars, rcvdVars, arrived>>

Protos == {PROTO_PACKET_ACK, PROTO_PACKET_NOACK}

Mixed == 255

(* What is in the token field: nothing, the mark of an escape, a token, or  *)
(* the exclusive or of two of them.                                         *)
TokenFields == {0, 32, Mixed} \cup Tags

TypeOK ==
  /\ FifoTypeOK
  /\ gRxState \in {"NOSYNC", "PROTO", "TOKEN", "INFO", "ESC"}
  /\ gMsgRcvTbl \in [Slots -> [Length : 0 .. HDLC_MTU, Proto : Protos,
                                Token : TokenFields, pMsg : Buffers]]
  /\ gRxHeadIndex \in Slots
  /\ gRxTailIndex \in Slots
  /\ gRxByteCnt \in 0 .. HDLC_MTU + 1
  /\ gpRxBuf \in Buffers
  /\ content \in [Buffers -> Tags \cup {0}]
  /\ at \in {"none", "rcvd"}
  /\ pBuf \in Buffers \cup {NoBuffer}
  /\ held \in Buffers
  /\ gTokenBuf \in TokenFields
  /\ arrived \in Seq([Proto : Protos, Token : TokenFields, payload : Tags \cup {0}])

(* HDLCInitialize.                                                          *)
Init ==
  /\ FifoInit
  /\ gRxState = "NOSYNC"
  /\ gMsgRcvTbl = [s \in Slots |-> [Length |-> 0, Proto |-> PROTO_PACKET_NOACK,
                                    Token |-> 0, pMsg |-> s]]
  /\ gpRxBuf = 0
  /\ held = 2
  /\ gRxHeadIndex = 0
  /\ gRxTailIndex = 0
  /\ gRxByteCnt = 0
  /\ content = [b \in Buffers |-> 0]
  /\ at = "none"
  /\ pBuf = NoBuffer
  /\ gTokenBuf = 0
  /\ arrived = << >>
-----------------------------------------------------------------------------
AfterSlot(s) == (s + 1) % 2

Head_ == gMsgRcvTbl[gRxHeadIndex]

(* Mutated: the slot is used whether it is free or not.                     *)
FreeAlways(slot) == TRUE

Free(slot) == slot.Length = 0

Rx(state) ==
  /\ gRxState = state
  /\ UNCHANGED <<running, gRxTailIndex, rcvdVars>>

(* The frame is given up: the slot is free and the next flag is awaited.    *)
GiveUp ==
  /\ gRxState' = "NOSYNC"
  /\ gRxByteCnt' = 0
  /\ gMsgRcvTbl' = [gMsgRcvTbl EXCEPT ![gRxHeadIndex].Length = 0,
                                      ![gRxHeadIndex].Token = 0]
  /\ UNCHANGED <<tasks, gRxHeadIndex, gpRxBuf, content, arrived>>

To(state) ==
  /\ gRxState' = state
  /\ UNCHANGED <<tasks, gRxHeadIndex, gpRxBuf, content, arrived>>

(* A flag between frames starts one if there is room for it.                *)
RxSync ==
  /\ Rx("NOSYNC")
  /\ Free(Head_)
  /\ gRxState' = "PROTO"
  /\ gMsgRcvTbl' = [gMsgRcvTbl EXCEPT ![gRxHeadIndex].Token = 0]
  /\ gRxByteCnt' = 0
  /\ gpRxBuf' = Head_.pMsg
  /\ UNCHANGED <<tasks, gRxHeadIndex, content, arrived>>

(* The byte after the flag.  Anything but the two kinds of packet, of which *)
(* the acknowledgement is one, ends the frame.                              *)
RxProto(byte) ==
  /\ Rx("PROTO")
  /\ UNCHANGED gRxByteCnt
  /\ \/ /\ byte \in Protos
        /\ To(IF byte = PROTO_PACKET_ACK THEN "TOKEN" ELSE "INFO")
        /\ gMsgRcvTbl' = [gMsgRcvTbl EXCEPT ![gRxHeadIndex].Proto = byte]
     \/ byte = PROTO_ACK /\ To("NOSYNC") /\ UNCHANGED gMsgRcvTbl

Xor(old, tag) == IF old \in {0, 32} THEN tag ELSE Mixed

RxToken(byte) ==
  /\ Rx("TOKEN")
  /\ UNCHANGED gRxByteCnt
  /\ \/ byte = HDLC_FLAG_BYTE /\ To("NOSYNC") /\ UNCHANGED gMsgRcvTbl
     \/ /\ byte = HDLC_CTLESC_BYTE
        /\ To("TOKEN")
        /\ gMsgRcvTbl' = [gMsgRcvTbl EXCEPT ![gRxHeadIndex].Token = 32]
     \/ /\ byte \in Tags
        /\ To("INFO")
        /\ gMsgRcvTbl' = [gMsgRcvTbl EXCEPT ![gRxHeadIndex].Token = Xor(@, byte)]

Stored(tag) ==
  /\ content' = [content EXCEPT ![gpRxBuf] = tag]
  /\ gRxByteCnt' = gRxByteCnt + 1
  /\ gRxState' = "INFO"
  /\ UNCHANGED <<tasks, gMsgRcvTbl, gRxHeadIndex, gpRxBuf, arrived>>

RxInfo(byte) ==
  /\ Rx("INFO")
  /\ \/ gRxByteCnt > HDLC_MTU /\ GiveUp
     \/ /\ gRxByteCnt <= HDLC_MTU
        /\ \/ byte = HDLC_CTLESC_BYTE /\ To("ESC") /\ UNCHANGED <<gMsgRcvTbl, gRxByteCnt>>
           \/ byte \in Tags /\ Stored(byte)

RxEscaped(byte) ==
  /\ Rx("ESC")
  /\ \/ byte = HDLC_FLAG_BYTE /\ GiveUp
     \/ byte \in Tags /\ Stored(byte)

(* The flag after a frame that is too short or whose checksum is wrong ...  *)
RxBadFrame ==
  /\ Rx("INFO")
  /\ gRxByteCnt <= HDLC_MTU
  /\ GiveUp

(* ... and after a good one: the slot is taken, the next one is used if it  *)
(* is free, and the flag may start a frame.                                 *)
RxGoodFrame ==
  /\ Rx("INFO")
  /\ gRxByteCnt \in (IF EmptyFrames THEN 2 ELSE 3) .. HDLC_MTU
  /\ gMsgRcvTbl' = [gMsgRcvTbl EXCEPT ![gRxHeadIndex].Length = gRxByteCnt - 2]
  /\ tasks' = Posted("PacketRcvd")
  /\ gRxHeadIndex' = AfterSlot(gRxHeadIndex)
  /\ gRxByteCnt' = 0
  /\ LET next == gMsgRcvTbl'[AfterSlot(gRxHeadIndex)]
     IN  IF Free(next)
         THEN gRxState' = "PROTO" /\ gpRxBuf' = next.pMsg
         ELSE gRxState' = "NOSYNC" /\ UNCHANGED gpRxBuf
  /\ arrived' = IF gRxByteCnt - 2 >= MinLength
                THEN Append(arrived, [Proto |-> Head_.Proto, Token |-> Head_.Token,
                                      payload |-> content[gpRxBuf]])
                ELSE arrived
  /\ UNCHANGED content

Bytes == {HDLC_FLAG_BYTE, HDLC_CTLESC_BYTE, PROTO_ACK} \cup Protos \cup Tags

RxByte ==
  \/ RxSync
  \/ \E byte \in Bytes : RxProto(byte) \/ RxToken(byte) \/ RxInfo(byte) \/ RxEscaped(byte)
  \/ RxBadFrame
  \/ RxGoodFrame
-----------------------------------------------------------------------------
Tail_ == gMsgRcvTbl[gRxTailIndex]

(* What PacketRcvd hands to the client.                                     *)
Delivered ==
  [Proto |-> Tail_.Proto, Token |-> Tail_.Token, payload |-> content[Tail_.pMsg]]

(* The first part of PacketRcvd: the client takes the buffer and returns it *)
(* or the one it had.  What was in it is of no use any more.  FramerAckM    *)
(* sees the packets that ask for an acknowledgement.                        *)
Receive ==
  /\ running = "PacketRcvd"
  /\ at = "none"
  /\ at' = "rcvd"
  /\ \/ /\ Tail_.Length >= MinLength
        /\ \/ pBuf' = Tail_.pMsg /\ UNCHANGED held
           \/ pBuf' = held /\ held' = Tail_.pMsg
        /\ arrived' = Tail(arrived)
        /\ content' = [content EXCEPT ![Tail_.pMsg] = 0]
        /\ IF Tail_.Proto = PROTO_PACKET_ACK
           THEN gTokenBuf' = Tail_.Token /\ tasks' = Posted("SendAckTask")
           ELSE UNCHANGED <<gTokenBuf, tasks>>
     \/ /\ Tail_.Length < MinLength
        /\ pBuf' = Tail_.pMsg
        /\ UNCHANGED <<tasks, held, gTokenBuf, arrived, content>>
  /\ UNCHANGED <<running, gRxState, gMsgRcvTbl, gRxHeadIndex, gRxTailIndex,
                 gRxByteCnt, gpRxBuf>>

(* Mutated: the slot keeps its buffer.                                      *)
FreedSlotKeepsBuffer == [Tail_ EXCEPT !.Length = 0, !.Token = 0]

(* The slot gets the buffer the client gave and is free.                    *)
FreedSlot == [Tail_ EXCEPT !.pMsg = pBuf, !.Length = 0, !.Token = 0]

(* The second part frees the slot.                                          *)
PacketRcvdEnds ==
  /\ running = "PacketRcvd"
  /\ at = "rcvd"
  /\ running' = NoTask
  /\ at' = "none"
  /\ pBuf' = NoBuffer
  /\ gMsgRcvTbl' = [gMsgRcvTbl EXCEPT ![gRxTailIndex] = FreedSlot]
  /\ gRxTailIndex' = AfterSlot(gRxTailIndex)
  /\ UNCHANGED <<tasks, gRxState, gRxHeadIndex, gRxByteCnt, gpRxBuf, content,
                 held, gTokenBuf, arrived>>

(* ReflectToken gives gTokenBuf to the sending half.                        *)
SendAckTask ==
  /\ running = "SendAckTask"
  /\ running' = NoTask
  /\ UNCHANGED <<tasks, rxVars, rcvdVars, arrived>>

TaskStep ==
  \/ RunNext /\ UNCHANGED <<rxVars, rcvdVars, arrived>>
  \/ Receive
  \/ PacketRcvdEnds
  \/ SendAckTask

Next == TaskStep \/ RxByte

Safety == Init /\ [][Next]_vars

(* The main loop never stops; the host may.                                 *)
Spec == Safety /\ WF_vars(TaskStep)
-----------------------------------------------------------------------------
(* PacketRcvd hands on the frames as they came, each with its own token and *)
(* payload, whatever the interrupt has done to the table since.             *)
HandedOnAsReceived ==
  running = "PacketRcvd" /\ at = "none" /\ Tail_.Length >= MinLength
    => arrived # << >> /\ Delivered = Head(arrived)

Filling == gRxState \in {"PROTO", "TOKEN", "INFO", "ESC"}

(* A buffer has one user: the interrupt fills the buffer of the slot at the *)
(* head, which neither the client nor the other slot has.                   *)
OneUser ==
  /\ Filling => gpRxBuf = Head_.pMsg /\ Head_.Length = 0
  /\ gMsgRcvTbl[0].pMsg # gMsgRcvTbl[1].pMsg
  /\ at = "none" => \A s \in Slots : gMsgRcvTbl[s].pMsg # held
  /\ Filling => gpRxBuf # held

(* A slot that is taken is freed: the link does not go deaf.                *)
SlotsFreed == \A s \in Slots : gMsgRcvTbl[s].Length # 0 ~> gMsgRcvTbl[s].Length = 0
=============================================================================
