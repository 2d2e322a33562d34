---------------------------- MODULE Framer_proofs ----------------------------
(***************************************************************************)
(* The receive table of the serial framer gives a buffer one user and      *)
(* hands frames on as they came, for any task queue, length of a frame and *)
(* set of bytes, as long as every frame has a payload (EmptyFrames is      *)
(* FALSE): a frame without one takes a slot whose Length stays 0, which is *)
(* how the code knows a free slot.                                         *)
(*                                                                         *)
(* Neither invariant is inductive.  That PacketRcvd finds a taken slot at  *)
(* the tail, which the interrupt does not fill, needs that the slots taken *)
(* are those from tail to head and that PacketRcvd is posted at most once  *)
(* for each; a post that fails leaves it posted less often, which does no  *)
(* harm to either.                                                         *)
(*                                                                         *)
(* The sending half, at the end, keeps a message until it is reported and  *)
(* never gives the UART a frame while it sends another, for any messages,  *)
(* tokens and length of a packet.                                          *)
(***************************************************************************)
EXTENDS FramerRx, FramerTx, TaskFifo_proofs

Taken(s) == gMsgRcvTbl[s].Length # 0

(* The slots taken are those from the tail to the head.                     *)
SlotsInOrder ==
  IF gRxTailIndex = gRxHeadIndex
  THEN Taken(0) <=> Taken(1)
  ELSE Taken(gRxTailIndex) /\ ~Taken(gRxHeadIndex)

(* t is not posted three times.                                             *)
AtMostTwice(t) ==
  \A i, j, k \in 1 .. Len(tasks) :
    tasks[i] = t /\ tasks[j] = t /\ tasks[k] = t => i = j \/ j = k \/ i = k

(* PacketRcvd is posted or running at most once for each slot taken.        *)
TaskPerSlot ==
  /\ \/ Taken(0) /\ Taken(1)
     \/ Taken(gRxTailIndex) /\ Once("PacketRcvd")
     \/ ~Queued("PacketRcvd") /\ running # "PacketRcvd"
  /\ AtMostTwice("PacketRcvd")
  /\ running = "PacketRcvd" =>
       /\ Once("PacketRcvd")
       /\ (Taken(0) /\ Taken(1)) \/ ~Queued("PacketRcvd")
  /\ at = "rcvd" => running = "PacketRcvd"

(* The three buffers are in three places.  While PacketRcvd has had the     *)
(* client's in exchange, the slot at the tail still points to the old one.  *)
BuffersApart ==
  /\ gMsgRcvTbl[0].pMsg # gMsgRcvTbl[1].pMsg
  /\ at = "none" => \A s \in Slots : gMsgRcvTbl[s].pMsg # held
  /\ at = "rcvd" =>
       /\ pBuf \in Buffers
       /\ pBuf # held
       /\ gMsgRcvTbl[AfterSlot(gRxTailIndex)].pMsg \notin {pBuf, held}
       /\ gMsgRcvTbl[gRxTailIndex].pMsg \in {pBuf, held}

(* The interrupt fills the buffer of the free slot at the head.             *)
FillsHead ==
  /\ Filling => gpRxBuf = Head_.pMsg /\ ~Taken(gRxHeadIndex)
  /\ gRxState = "ESC" => gRxByteCnt <= HDLC_MTU

Frame(s) == [Proto |-> gMsgRcvTbl[s].Proto, Token |-> gMsgRcvTbl[s].Token,
             payload |-> content[gMsgRcvTbl[s].pMsg]]

(* The frame at the tail, unless PacketRcvd has handed it on, and the one   *)
(* behind it.                                                               *)
AtTail == gMsgRcvTbl[gRxTailIndex].Length >= MinLength /\ at = "none"

Behind ==
  /\ Taken(gRxTailIndex)
  /\ gMsgRcvTbl[AfterSlot(gRxTailIndex)].Length >= MinLength

Waiting ==
  IF AtTail
  THEN IF Behind THEN <<Frame(gRxTailIndex), Frame(AfterSlot(gRxTailIndex))>>
       ELSE <<Frame(gRxTailIndex)>>
  ELSE IF Behind THEN <<Frame(AfterSlot(gRxTailIndex))>> ELSE << >>

IInv ==
  /\ TypeOK
  /\ SlotsInOrder
  /\ TaskPerSlot
  /\ BuffersApart
  /\ FillsHead
  /\ arrived = Waiting
-----------------------------------------------------------------------------
Slot == [Length : 0 .. HDLC_MTU, Proto : Protos, Token : TokenFields, pMsg : Buffers]

LEMMA SlotFacts == AfterSlot(0) = 1 /\ AfterSlot(1) = 0
BY DEF AfterSlot

LEMMA PairOfAppend ==
  ASSUME NEW a, NEW b
  PROVE  Append(<<a>>, b) = <<a, b>>
<1>. DEFINE S == {a, b}
<1>1. <<a>> \in Seq(S) /\ Len(<<a>>) = 1 /\ <<a>>[1] = a
  OBVIOUS
<1>2. <<a, b>> \in Seq(S) /\ Len(<<a, b>>) = 2 /\ <<a, b>>[1] = a /\ <<a, b>>[2] = b
  OBVIOUS
<1>3. b \in S
  OBVIOUS
<1>4. /\ Append(<<a>>, b) \in Seq(S) /\ Len(Append(<<a>>, b)) = 2
      /\ Append(<<a>>, b)[1] = a /\ Append(<<a>>, b)[2] = b
  <2>. HIDE DEF S
  <2>. QED  BY <1>1, <1>3, AppendProperties
<1>5. \A i \in 1 .. 2 : Append(<<a>>, b)[i] = <<a, b>>[i]
  BY <1>2, <1>4
<1>. QED
  <2>. DEFINE s == Append(<<a>>, b)
              t == <<a, b>>
  <2>1. s \in Seq(S) /\ t \in Seq(S) /\ Len(s) = Len(t) /\ \A i \in 1 .. Len(s) : s[i] = t[i]
    BY <1>2, <1>4, <1>5
  <2>. HIDE DEF S, s, t
  <2>2. s = t
    BY <2>1, SeqEqual
  <2>. QED  BY <2>2 DEF s, t

LEMMA TailOfPair ==
  ASSUME NEW a, NEW b
  PROVE  /\ Head(<<a, b>>) = a /\ Tail(<<a, b>>) = <<b>> /\ <<a, b>> # << >>
         /\ Head(<<a>>) = a /\ Tail(<<a>>) = << >> /\ <<a>> # << >>
OBVIOUS

LEMMA TaskFacts ==
  /\ "PacketRcvd" \in Tasks /\ "SendAckTask" \in Tasks
  /\ NoTask # "PacketRcvd" /\ NoTask # "SendAckTask"
BY FramerRxAssumption, FifoAssumption DEF RxTasks

(* A task posted at most once is posted at most twice, also when it is      *)
(* posted again or the oldest task is run.                                  *)
LEMMA OnceIsAtMostTwice ==
  ASSUME NEW u, Once(u)
  PROVE  AtMostTwice(u)
BY DEF Once, AtMostTwice

LEMMA PostTwice ==
  ASSUME FifoTypeOK, NEW t \in Tasks, Post(t), NEW u, AtMostTwice(u), u = t => Once(u)
  PROVE  AtMostTwice(u)'
<1>1. /\ Len(tasks) \in Nat
      /\ Len(tasks') = Len(tasks) + 1
      /\ \A i \in 1 .. Len(tasks) : tasks'[i] = tasks[i]
      /\ tasks'[Len(tasks) + 1] = t
  BY DEF FifoTypeOK, Post
<1>. QED  BY <1>1 DEF AtMostTwice, Once

LEMMA RunTwice ==
  ASSUME FifoTypeOK, RunNext, NEW u, AtMostTwice(u)
  PROVE  /\ AtMostTwice(u)'
         /\ u = running' => Once(u)'
<1>1. /\ Len(tasks) \in Nat \ {0}
      /\ Len(tasks') = Len(tasks) - 1
      /\ \A i \in 1 .. Len(tasks') : tasks'[i] = tasks[i + 1]
      /\ running' = tasks[1]
  BY HeadTailProperties DEF FifoTypeOK, RunNext
<1>2. AtMostTwice(u)'
  <2>. SUFFICES ASSUME NEW i \in 1 .. Len(tasks'), NEW j \in 1 .. Len(tasks'),
                       NEW k \in 1 .. Len(tasks'),
                       tasks'[i] = u, tasks'[j] = u, tasks'[k] = u
                PROVE  i = j \/ j = k \/ i = k
    BY DEF AtMostTwice
  <2>1. /\ i + 1 \in 1 .. Len(tasks) /\ tasks[i + 1] = u
        /\ j + 1 \in 1 .. Len(tasks) /\ tasks[j + 1] = u
        /\ k + 1 \in 1 .. Len(tasks) /\ tasks[k + 1] = u
    BY <1>1
  <2>2. i + 1 = j + 1 \/ j + 1 = k + 1 \/ i + 1 = k + 1
    BY <2>1 DEF AtMostTwice
  <2>. QED  BY <2>2
<1>3. ASSUME u = running' PROVE Once(u)'
  <2>. SUFFICES ASSUME NEW i \in 1 .. Len(tasks'), NEW j \in 1 .. Len(tasks'),
                       tasks'[i] = u, tasks'[j] = u
                PROVE  i = j
    BY DEF Once
  <2>1. /\ i + 1 \in 1 .. Len(tasks) /\ tasks[i + 1] = u
        /\ j + 1 \in 1 .. Len(tasks) /\ tasks[j + 1] = u
        /\ 1 \in 1 .. Len(tasks) /\ tasks[1] = u
    BY <1>1, <1>3
  <2>2. i + 1 = j + 1 \/ j + 1 = 1 \/ i + 1 = 1
    BY <2>1 DEF AtMostTwice
  <2>. QED  BY <2>2
<1>. QED  BY <1>2, <1>3

(* post t, accepted or not.                                                 *)
LEMMA PostedQueue ==
  ASSUME FifoTypeOK, NEW t \in Tasks, tasks' = Posted(t), UNCHANGED running, NEW u
  PROVE  /\ FifoTypeOK'
         /\ u # t => /\ Queued(u)' <=> Queued(u)
                     /\ Once(u) => Once(u)'
                     /\ AtMostTwice(u) => AtMostTwice(u)'
         /\ ~Queued(u) => Once(u)'
         /\ Once(u) => AtMostTwice(u)'
<1>1. CASE HasRoom
  <2>1. Post(t)
    BY <1>1 DEF Posted, Post
  <2>2. ~Queued(u) => Once(u)
    BY DEF Queued, Once
  <2>. QED  BY <2>1, <2>2, PostQueue, PostTwice, OnceIsAtMostTwice
<1>2. CASE ~HasRoom
  <2>1. tasks' = tasks
    BY <1>2 DEF Posted
  <2>. QED  BY <2>1, OnceIsAtMostTwice DEF FifoTypeOK, Queued, Once, AtMostTwice
<1>. QED  BY <1>1, <1>2
-----------------------------------------------------------------------------
LEMMA InitInv == Init => IInv
<1>. SUFFICES ASSUME Init PROVE IInv
  OBVIOUS
<1>1. FifoTypeOK
  BY FifoAssumption DEF Init, FifoInit, FifoTypeOK
<1>2. TypeOK
  BY <1>1, FramerRxAssumption
  DEF Init, TypeOK, Slots, Buffers, TokenFields, Protos, NoBuffer, PROTO_PACKET_NOACK,
      PROTO_PACKET_ACK
<1>3. SlotsInOrder
  BY DEF Init, SlotsInOrder, Taken, Slots
<1>4. TaskPerSlot
  BY TaskFacts DEF Init, FifoInit, TaskPerSlot, Queued, AtMostTwice
<1>5. BuffersApart
  BY DEF Init, BuffersApart, Slots
<1>6. FillsHead
  BY DEF Init, FillsHead, Filling
<1>7. arrived = Waiting
  BY SlotFacts, FramerRxAssumption DEF Init, Waiting, AtTail, Behind, Slots, Taken
<1>. QED  BY <1>2, <1>3, <1>4, <1>5, <1>6, <1>7 DEF IInv

(* Between the flags the interrupt changes the free slot at the head and the *)
(* buffer it fills, and nothing else.                                       *)
FillStep ==
  /\ gRxState \in {"NOSYNC", "PROTO", "TOKEN", "INFO", "ESC"}
  /\ gRxState' \in {"NOSYNC", "PROTO", "TOKEN", "INFO", "ESC"}
  /\ \E slot \in Slot :
       /\ slot.Length = 0
       /\ slot.pMsg = Head_.pMsg
       /\ gMsgRcvTbl' = [gMsgRcvTbl EXCEPT ![gRxHeadIndex] = slot]
  /\ gpRxBuf' \in Buffers
  /\ gRxState' # "NOSYNC" => gpRxBuf' = Head_.pMsg
  /\ ~Taken(gRxHeadIndex)
  /\ \E tag \in Tags \cup {0} :
       content' = content \/ content' = [content EXCEPT ![Head_.pMsg] = tag]
  /\ gRxByteCnt' \in 0 .. HDLC_MTU + 1
  /\ gRxState' = "ESC" => gRxByteCnt' <= HDLC_MTU
  /\ UNCHANGED <<tasks, running, gRxHeadIndex, gRxTailIndex, rcvdVars, arrived>>

LEMMA FillSteps ==
  ASSUME IInv, RxByte
  PROVE  FillStep \/ RxGoodFrame
<1>0. /\ gRxHeadIndex \in Slots /\ Head_ \in Slot /\ TypeOK
      /\ gMsgRcvTbl \in [Slots -> Slot]
  BY DEF IInv, TypeOK, Head_, Slot
<1>1. /\ Filling => gpRxBuf = Head_.pMsg /\ Head_.Length = 0
      /\ gRxState = "ESC" => gRxByteCnt <= HDLC_MTU
      /\ HDLC_MTU \in Nat
  BY FramerRxAssumption DEF IInv, FillsHead, Taken, Head_
<1>2. CASE RxSync
  <2>. DEFINE slot == [Head_ EXCEPT !.Token = 0]
  <2>1. slot \in Slot /\ slot.Length = Head_.Length /\ slot.pMsg = Head_.pMsg
    BY <1>0 DEF Slot, TokenFields
  <2>2. gMsgRcvTbl' = [gMsgRcvTbl EXCEPT ![gRxHeadIndex] = slot]
    BY <1>2 DEF RxSync, Head_
  <2>3. Head_.Length = 0 /\ Head_.pMsg \in Buffers
    BY <1>0, <1>2 DEF RxSync, Free, Slot
  <2>4. \E sl \in Slot : /\ sl.Length = 0
                         /\ sl.pMsg = Head_.pMsg
                         /\ gMsgRcvTbl' = [gMsgRcvTbl EXCEPT ![gRxHeadIndex] = sl]
    BY <2>1, <2>2, <2>3
  <2>5. 0 \in 0 .. HDLC_MTU + 1
    BY <1>1
  <2>. HIDE DEF slot
  <2>. QED
    BY <1>1, <1>2, <2>3, <2>4, <2>5 DEF RxSync, Rx, FillStep, Taken, Head_, rcvdVars
<1>3. ASSUME Filling, GiveUp, UNCHANGED <<running, gRxTailIndex, rcvdVars>> PROVE FillStep
  <2>. DEFINE mid == [Head_ EXCEPT !.Length = 0]
              slot == [mid EXCEPT !.Token = 0]
  <2>1. mid \in Slot /\ mid.Length = 0 /\ mid.pMsg = Head_.pMsg
    BY <1>0, <1>1 DEF Slot
  <2>2. slot \in Slot /\ slot.Length = 0 /\ slot.pMsg = Head_.pMsg
    <3>. HIDE DEF mid
    <3>. QED  BY <2>1 DEF Slot, TokenFields
  <2>3. gMsgRcvTbl' = [gMsgRcvTbl EXCEPT ![gRxHeadIndex] = slot]
    BY <1>3 DEF GiveUp, Head_
  <2>4. gpRxBuf \in Buffers
    BY <1>0 DEF TypeOK
  <2>5. \E sl \in Slot : /\ sl.Length = 0
                         /\ sl.pMsg = Head_.pMsg
                         /\ gMsgRcvTbl' = [gMsgRcvTbl EXCEPT ![gRxHeadIndex] = sl]
    BY <2>2, <2>3
  <2>6. 0 \in 0 .. HDLC_MTU + 1
    BY <1>1
  <2>. HIDE DEF slot
  <2>. QED
    BY <1>1, <1>3, <2>4, <2>5, <2>6 DEF FillStep, GiveUp, Taken, Head_, rcvdVars, Filling
<1>4. ASSUME Filling, NEW tag \in Tags, Stored(tag), gRxByteCnt <= HDLC_MTU,
             UNCHANGED <<running, gRxTailIndex, rcvdVars>>
      PROVE  FillStep
  <2>1. gMsgRcvTbl' = [gMsgRcvTbl EXCEPT ![gRxHeadIndex] = Head_]
    BY <1>0, <1>4 DEF Stored, Head_
  <2>2. gRxByteCnt' \in 0 .. HDLC_MTU + 1
    BY <1>0, <1>1, <1>4 DEF Stored, TypeOK
  <2>. QED
    BY <1>0, <1>1, <1>4, <2>1, <2>2
    DEF FillStep, Stored, TypeOK, Taken, Head_, rcvdVars, Filling
<1>5. ASSUME Filling, NEW s \in {"NOSYNC", "TOKEN", "INFO", "ESC"}, To(s), NEW slot \in Slot,
             slot.Length = Head_.Length, slot.pMsg = Head_.pMsg,
             gMsgRcvTbl' = [gMsgRcvTbl EXCEPT ![gRxHeadIndex] = slot],
             s = "ESC" => gRxByteCnt <= HDLC_MTU,
             UNCHANGED <<running, gRxTailIndex, gRxByteCnt, rcvdVars>>
      PROVE  FillStep
  BY <1>0, <1>1, <1>5 DEF FillStep, To, TypeOK, Taken, Head_, rcvdVars, Filling
<1>6. ASSUME Filling, NEW s \in {"NOSYNC", "TOKEN", "INFO", "ESC"}, To(s),
             UNCHANGED <<gMsgRcvTbl, running, gRxTailIndex, gRxByteCnt, rcvdVars>>,
             s = "ESC" => gRxByteCnt <= HDLC_MTU
      PROVE  FillStep
  <2>1. gMsgRcvTbl' = [gMsgRcvTbl EXCEPT ![gRxHeadIndex] = Head_]
    BY <1>0, <1>6 DEF Head_
  <2>. QED  BY <1>0, <1>5, <1>6, <2>1
<1>7. ASSUME NEW byte \in Bytes, RxProto(byte) PROVE FillStep
  <2>1. Filling /\ UNCHANGED <<running, gRxTailIndex, gRxByteCnt, rcvdVars>>
    BY <1>7 DEF RxProto, Rx, Filling
  <2>2. CASE byte = PROTO_ACK /\ To("NOSYNC") /\ UNCHANGED gMsgRcvTbl
    BY <2>1, <2>2, <1>6
  <2>3. CASE /\ byte \in Protos
             /\ To(IF byte = PROTO_PACKET_ACK THEN "TOKEN" ELSE "INFO")
             /\ gMsgRcvTbl' = [gMsgRcvTbl EXCEPT ![gRxHeadIndex].Proto = byte]
    <3>1. [Head_ EXCEPT !.Proto = byte] \in Slot
      BY <1>0, <2>3 DEF Slot
    <3>2. gMsgRcvTbl' = [gMsgRcvTbl EXCEPT ![gRxHeadIndex] = [Head_ EXCEPT !.Proto = byte]]
      BY <2>3 DEF Head_
    <3>3. /\ [Head_ EXCEPT !.Proto = byte].Length = Head_.Length
          /\ [Head_ EXCEPT !.Proto = byte].pMsg = Head_.pMsg
      BY <1>0 DEF Slot
    <3>. QED  BY <2>1, <2>3, <3>1, <3>2, <3>3, <1>5
  <2>. QED  BY <1>7, <2>2, <2>3 DEF RxProto
<1>8. ASSUME NEW byte \in Bytes, RxToken(byte) PROVE FillStep
  <2>1. Filling /\ UNCHANGED <<running, gRxTailIndex, gRxByteCnt, rcvdVars>>
    BY <1>8 DEF RxToken, Rx, Filling
  <2>2. CASE byte = HDLC_FLAG_BYTE /\ To("NOSYNC") /\ UNCHANGED gMsgRcvTbl
    BY <2>1, <2>2, <1>6
  <2>3. ASSUME NEW token \in TokenFields, NEW s \in {"TOKEN", "INFO"}, To(s),
               gMsgRcvTbl' = [gMsgRcvTbl EXCEPT ![gRxHeadIndex].Token = token]
        PROVE  FillStep
    <3>1. [Head_ EXCEPT !.Token = token] \in Slot
      BY <1>0 DEF Slot
    <3>2. gMsgRcvTbl' = [gMsgRcvTbl EXCEPT ![gRxHeadIndex] = [Head_ EXCEPT !.Token = token]]
      BY <2>3 DEF Head_
    <3>3. /\ [Head_ EXCEPT !.Token = token].Length = Head_.Length
          /\ [Head_ EXCEPT !.Token = token].pMsg = Head_.pMsg
      BY <1>0 DEF Slot
    <3>. QED  BY <2>1, <2>3, <3>1, <3>2, <3>3, <1>5
  <2>4. CASE /\ byte \in Tags
             /\ To("INFO")
             /\ gMsgRcvTbl' = [gMsgRcvTbl EXCEPT ![gRxHeadIndex].Token = Xor(@, byte)]
    <3>1. Xor(Head_.Token, byte) \in TokenFields
      BY <2>4 DEF Xor, TokenFields
    <3>2. gMsgRcvTbl' = [gMsgRcvTbl EXCEPT ![gRxHeadIndex].Token = Xor(Head_.Token, byte)]
      BY <2>4 DEF Head_
    <3>. QED  BY <2>3, <2>4, <3>1, <3>2
  <2>5. 32 \in TokenFields
    BY DEF TokenFields
  <2>. QED  BY <1>8, <2>2, <2>3, <2>4, <2>5 DEF RxToken
<1>9. ASSUME NEW byte \in Bytes, RxInfo(byte) PROVE FillStep
  <2>1. Filling /\ UNCHANGED <<running, gRxTailIndex, rcvdVars>>
    BY <1>9 DEF RxInfo, Rx, Filling
  <2>. QED  BY <1>9, <2>1, <1>3, <1>4, <1>6 DEF RxInfo
<1>10. ASSUME NEW byte \in Bytes, RxEscaped(byte) PROVE FillStep
  <2>1. Filling /\ UNCHANGED <<running, gRxTailIndex, rcvdVars>> /\ gRxByteCnt <= HDLC_MTU
    BY <1>1, <1>10 DEF RxEscaped, Rx, Filling
  <2>. QED  BY <1>10, <2>1, <1>3, <1>4 DEF RxEscaped
<1>11. CASE RxBadFrame
  <2>1. Filling /\ UNCHANGED <<running, gRxTailIndex, rcvdVars>>
    BY <1>11 DEF RxBadFrame, Rx, Filling
  <2>. QED  BY <1>11, <2>1, <1>3 DEF RxBadFrame
<1>. QED  BY <1>2, <1>7, <1>8, <1>9, <1>10, <1>11 DEF RxByte

(* What these steps do to the table: the slots taken stay as they are.      *)
LEMMA FillKeeps ==
  ASSUME IInv, FillStep
  PROVE  /\ gMsgRcvTbl' \in [Slots -> Slot]
         /\ content' \in [Buffers -> Tags \cup {0}]
         /\ \A s \in Slots : /\ Taken(s)' <=> Taken(s)
                             /\ gMsgRcvTbl'[s].pMsg = gMsgRcvTbl[s].pMsg
                             /\ gMsgRcvTbl'[s].Length = gMsgRcvTbl[s].Length
                             /\ Taken(s) => Frame(s)' = Frame(s)
<1>1. /\ gMsgRcvTbl \in [Slots -> Slot] /\ gRxHeadIndex \in Slots
      /\ content \in [Buffers -> Tags \cup {0}]
  BY DEF IInv, TypeOK, Slot
<1>2. PICK slot \in Slot : /\ slot.Length = 0
                           /\ slot.pMsg = Head_.pMsg
                           /\ gMsgRcvTbl' = [gMsgRcvTbl EXCEPT ![gRxHeadIndex] = slot]
  BY DEF FillStep
<1>3. ~Taken(gRxHeadIndex) /\ Head_.Length = 0
  BY DEF FillStep, Taken, Head_
<1>4. gMsgRcvTbl' \in [Slots -> Slot] /\ content' \in [Buffers -> Tags \cup {0}]
  BY <1>1, <1>2 DEF FillStep
<1>5. \A s \in Slots : s # gRxHeadIndex => gMsgRcvTbl'[s] = gMsgRcvTbl[s]
  BY <1>1, <1>2
<1>6. gMsgRcvTbl'[gRxHeadIndex] = slot
  BY <1>1, <1>2
<1>7. \A b \in Buffers : b # Head_.pMsg => content'[b] = content[b]
  BY <1>1 DEF FillStep
<1>8. ASSUME NEW s \in Slots, s # gRxHeadIndex
      PROVE  gMsgRcvTbl[s].pMsg # Head_.pMsg /\ gMsgRcvTbl[s].pMsg \in Buffers
  BY <1>1, <1>8 DEF IInv, BuffersApart, Slots, Head_, Slot
<1>. QED
  BY <1>2, <1>3, <1>4, <1>5, <1>6, <1>7, <1>8 DEF Taken, Frame, Head_

LEMMA FillInv ==
  ASSUME IInv, FillStep
  PROVE  IInv'
<1>1. /\ gRxTailIndex \in Slots /\ gRxHeadIndex \in Slots
      /\ AfterSlot(gRxTailIndex) \in Slots /\ TypeOK /\ 0 \in Slots /\ 1 \in Slots
  BY SlotFacts DEF IInv, TypeOK, Slots
<1>2. TypeOK'
  BY <1>1, FillKeeps DEF TypeOK, FillStep, FifoTypeOK, rcvdVars, Slot
<1>3. SlotsInOrder' /\ TaskPerSlot'
  <2>1. Taken(0)' <=> Taken(0)
    BY <1>1, FillKeeps
  <2>2. Taken(1)' <=> Taken(1)
    BY <1>1, FillKeeps
  <2>3. UNCHANGED <<gRxTailIndex, gRxHeadIndex, tasks, running, at>>
    BY DEF FillStep, rcvdVars
  <2>4. (Taken(gRxTailIndex)' <=> Taken(gRxTailIndex)) /\ (Taken(gRxHeadIndex)' <=> Taken(gRxHeadIndex))
    BY <1>1, <2>1, <2>2, <2>3 DEF Slots
  <2>5. SlotsInOrder'
    BY <2>1, <2>2, <2>3, <2>4 DEF IInv, SlotsInOrder
  <2>6. TaskPerSlot'
    BY <2>1, <2>2, <2>3, <2>4, SameQueue DEF IInv, TaskPerSlot, AtMostTwice
  <2>. QED  BY <2>5, <2>6
<1>4. BuffersApart'
  BY <1>1, FillKeeps DEF IInv, BuffersApart, FillStep, rcvdVars
<1>5. FillsHead'
  BY <1>1, FillKeeps DEF FillsHead, FillStep, Filling, Head_, Taken
<1>6. arrived' = Waiting'
  <2>1. UNCHANGED <<gRxTailIndex, at, arrived>>
    BY DEF FillStep, rcvdVars
  <2>2. (AtTail' <=> AtTail) /\ (Behind' <=> Behind)
    BY <1>1, <2>1, FillKeeps DEF AtTail, Behind, Taken
  <2>3. AtTail => Frame(gRxTailIndex)' = Frame(gRxTailIndex)
    BY <1>1, <2>1, FillKeeps, FramerRxAssumption DEF AtTail, Taken, Frame
  <2>4. Behind => Frame(AfterSlot(gRxTailIndex))' = Frame(AfterSlot(gRxTailIndex))
    <3>1. Behind => Taken(AfterSlot(gRxTailIndex))
      BY FramerRxAssumption DEF Behind, Taken
    <3>. QED  BY <1>1, <2>1, <3>1, FillKeeps DEF Frame
  <2>. QED  BY <2>1, <2>2, <2>3, <2>4 DEF IInv, Waiting
<1>. QED  BY <1>2, <1>3, <1>4, <1>5, <1>6 DEF IInv

(* A good frame: the slot at the head is taken and nothing else changes in  *)
(* the table.                                                               *)
LEMMA GoodFrameTable ==
  ASSUME IInv, EmptyFrames = FALSE, RxGoodFrame, NEW h \in Slots, h = gRxHeadIndex
  PROVE  /\ gMsgRcvTbl' \in [Slots -> Slot]
         /\ gMsgRcvTbl'[h].Length = gRxByteCnt - 2
         /\ ~Taken(h) /\ Taken(h)'
         /\ \A s \in Slots : s # h => gMsgRcvTbl'[s] = gMsgRcvTbl[s]
         /\ \A s \in Slots : gMsgRcvTbl'[s].pMsg = gMsgRcvTbl[s].pMsg
         /\ Frame(h)' = [Proto |-> Head_.Proto, Token |-> Head_.Token,
                         payload |-> content[gpRxBuf]]
<1>1. /\ gMsgRcvTbl \in [Slots -> Slot] /\ HDLC_MTU \in Nat
      /\ gRxByteCnt \in 3 .. HDLC_MTU
  BY FramerRxAssumption DEF IInv, TypeOK, Slot, RxGoodFrame
<1>2. gpRxBuf = Head_.pMsg /\ ~Taken(h)
  BY DEF IInv, FillsHead, Filling, RxGoodFrame, Rx
<1>. DEFINE slot == [Head_ EXCEPT !.Length = gRxByteCnt - 2]
<1>3. gMsgRcvTbl' = [gMsgRcvTbl EXCEPT ![h] = slot]
  BY DEF RxGoodFrame, Head_
<1>4. /\ slot \in Slot /\ slot.Length = gRxByteCnt - 2 /\ slot.pMsg = Head_.pMsg
      /\ slot.Proto = Head_.Proto /\ slot.Token = Head_.Token
  BY <1>1 DEF Slot, Head_
<1>5. gRxByteCnt - 2 # 0
  BY <1>1
<1>. HIDE DEF slot
<1>6. gMsgRcvTbl' \in [Slots -> Slot] /\ gMsgRcvTbl'[h] = slot
  BY <1>1, <1>3, <1>4
<1>7. \A s \in Slots : s # h => gMsgRcvTbl'[s] = gMsgRcvTbl[s]
  BY <1>1, <1>3
<1>8. Frame(h)' = [Proto |-> slot.Proto, Token |-> slot.Token, payload |-> content[slot.pMsg]]
  BY <1>6 DEF Frame, RxGoodFrame
<1>. QED  BY <1>2, <1>4, <1>5, <1>6, <1>7, <1>8 DEF Taken, Head_

LEMMA GoodFrameInv ==
  ASSUME IInv, EmptyFrames = FALSE, RxGoodFrame
  PROVE  IInv'
<1>1. PICK h0 \in Slots, t0 \in Slots, o0 \in Slots :
        /\ h0 = gRxHeadIndex /\ t0 = gRxTailIndex /\ o0 = AfterSlot(h0)
        /\ gRxHeadIndex' = o0 /\ gRxTailIndex' = t0
        /\ h0 # o0 /\ Slots = {h0, o0} /\ AfterSlot(o0) = h0
  BY SlotFacts DEF IInv, TypeOK, Slots, RxGoodFrame, Rx
<1>2. /\ gMsgRcvTbl' \in [Slots -> Slot]
      /\ gMsgRcvTbl'[h0].Length = gRxByteCnt - 2
      /\ ~Taken(h0) /\ Taken(h0)'
      /\ gMsgRcvTbl'[o0] = gMsgRcvTbl[o0]
      /\ \A s \in Slots : gMsgRcvTbl'[s].pMsg = gMsgRcvTbl[s].pMsg
      /\ Frame(h0)' = [Proto |-> Head_.Proto, Token |-> Head_.Token,
                       payload |-> content[gpRxBuf]]
  BY <1>1, GoodFrameTable
<1>3. Taken(o0)' <=> Taken(o0)
  BY <1>2 DEF Taken
<1>4. /\ FifoTypeOK /\ tasks' = Posted("PacketRcvd") /\ UNCHANGED <<running, at, pBuf, held, gTokenBuf, content>>
  BY DEF IInv, TypeOK, RxGoodFrame, Rx, rcvdVars
<1>5. /\ FifoTypeOK'
      /\ ~Queued("PacketRcvd") => Once("PacketRcvd")'
      /\ Once("PacketRcvd") => AtMostTwice("PacketRcvd")'
  BY <1>4, PostedQueue, TaskFacts
<1>6. \/ t0 = h0 /\ ~Taken(o0)
      \/ t0 = o0 /\ Taken(o0)
  BY <1>1, <1>2 DEF IInv, SlotsInOrder, Slots
<1>7. Taken(gRxTailIndex)' /\ (Taken(gRxHeadIndex)' <=> Taken(o0)) /\ Taken(h0)'
  BY <1>1, <1>2, <1>3, <1>6 DEF Taken
<1>8. ((Taken(0) /\ Taken(1))' <=> Taken(o0)) /\ ~(Taken(0) /\ Taken(1))
  BY <1>1, <1>2, <1>3 DEF Slots
<1>9. TypeOK'
  <2>1. /\ gRxState' \in {"PROTO", "NOSYNC"}
        /\ gpRxBuf' \in Buffers
    BY <1>1, <1>2 DEF RxGoodFrame, IInv, TypeOK, Slot
  <2>2. [Proto |-> Head_.Proto, Token |-> Head_.Token, payload |-> content[gpRxBuf]]
          \in [Proto : Protos, Token : TokenFields, payload : Tags \cup {0}]
    BY DEF Head_, IInv, TypeOK
  <2>3. arrived' \in Seq([Proto : Protos, Token : TokenFields, payload : Tags \cup {0}])
    BY <2>2, AppendProperties DEF RxGoodFrame, IInv, TypeOK
  <2>4. 0 \in 0 .. HDLC_MTU + 1
    BY FramerRxAssumption
  <2>. QED
    BY <1>1, <1>2, <1>4, <1>5, <2>1, <2>3, <2>4 DEF TypeOK, Slot, IInv, RxGoodFrame
<1>10. SlotsInOrder'
  BY <1>1, <1>2, <1>3, <1>6, <1>7 DEF SlotsInOrder, Slots
<1>11. TaskPerSlot'
  <2>1. CASE t0 = h0 /\ ~Taken(o0)
    <3>1. ~Queued("PacketRcvd") /\ running # "PacketRcvd" /\ at # "rcvd"
      BY <1>1, <1>2, <1>8, <2>1 DEF IInv, TaskPerSlot
    <3>2. Once("PacketRcvd") 
      BY <3>1 DEF Once, Queued
    <3>. QED  BY <1>4, <1>5, <1>7, <3>1, <3>2 DEF TaskPerSlot
  <2>2. CASE t0 = o0 /\ Taken(o0)
    <3>1. Once("PacketRcvd") /\ (running = "PacketRcvd" => ~Queued("PacketRcvd"))
      BY <1>8 DEF IInv, TaskPerSlot, Once, Queued
    <3>2. at = "rcvd" => running = "PacketRcvd"
      BY DEF IInv, TaskPerSlot
    <3>. QED  BY <1>4, <1>5, <1>8, <2>2, <3>1, <3>2 DEF TaskPerSlot
  <2>. QED  BY <1>6, <2>1, <2>2
<1>12. BuffersApart'
  BY <1>1, <1>2, <1>4 DEF IInv, BuffersApart, Slots
<1>13. FillsHead'
  BY <1>1, <1>2, <1>3 DEF FillsHead, RxGoodFrame, Filling, Free, Head_, Taken
<1>14. arrived' = Waiting'
  <2>. DEFINE new == [Proto |-> Head_.Proto, Token |-> Head_.Token,
                      payload |-> content[gpRxBuf]]
  <2>1. (gMsgRcvTbl'[h0].Length >= MinLength <=> gRxByteCnt - 2 >= MinLength)
    BY <1>2
  <2>2. ~(gMsgRcvTbl[h0].Length >= MinLength)
    BY <1>2, FramerRxAssumption DEF Taken
  <2>3. arrived' = IF gRxByteCnt - 2 >= MinLength THEN Append(arrived, new) ELSE arrived
    BY DEF RxGoodFrame
  <2>4. CASE t0 = h0 /\ ~Taken(o0)
    <3>1. at = "none"
      BY <1>1, <1>2, <1>8, <2>4 DEF IInv, TaskPerSlot, TypeOK
    <3>2. ~AtTail /\ ~Behind
      BY <1>1, <1>2, <2>2, <2>4 DEF AtTail, Behind
    <3>3. arrived = << >>
      BY <3>2 DEF IInv, Waiting
    <3>4. ~Behind'
      BY <1>1, <1>2, <2>4, FramerRxAssumption DEF Behind, Taken
    <3>5. AtTail' <=> gRxByteCnt - 2 >= MinLength
      BY <1>1, <1>4, <2>1, <2>4, <3>1 DEF AtTail
    <3>6. Frame(gRxTailIndex)' = new
      BY <1>1, <1>2, <2>4 DEF Frame
    <3>7. Append(<< >>, new) = <<new>>
      OBVIOUS
    <3>. QED  BY <2>3, <3>3, <3>4, <3>5, <3>6, <3>7 DEF Waiting
  <2>5. CASE t0 = o0 /\ Taken(o0)
    <3>1. ~Behind
      BY <1>1, <2>2, <2>5 DEF Behind
    <3>2. AtTail' <=> AtTail
      BY <1>1, <1>2, <1>4, <2>5 DEF AtTail
    <3>3. Frame(gRxTailIndex)' = Frame(gRxTailIndex)
      BY <1>1, <1>2, <1>4, <2>5 DEF Frame
    <3>4. Behind' <=> gRxByteCnt - 2 >= MinLength
      BY <1>1, <1>7, <2>1, <2>5 DEF Behind
    <3>5. Frame(AfterSlot(gRxTailIndex))' = new
      BY <1>1, <1>2, <2>5 DEF Frame
    <3>6. Append(<<Frame(gRxTailIndex)>>, new) = <<Frame(gRxTailIndex), new>>
      BY PairOfAppend
    <3>7. Append(<< >>, new) = <<new>>
      OBVIOUS
    <3>8. arrived = IF AtTail THEN <<Frame(gRxTailIndex)>> ELSE << >>
      BY <3>1 DEF IInv, Waiting
    <3>. HIDE DEF new
    <3>. QED  BY <2>3, <3>2, <3>3, <3>4, <3>5, <3>6, <3>7, <3>8 DEF Waiting
  <2>. QED  BY <1>6, <2>4, <2>5
<1>. QED  BY <1>9, <1>10, <1>11, <1>12, <1>13, <1>14 DEF IInv
-----------------------------------------------------------------------------
LEMMA RunInv ==
  ASSUME IInv, RunNext, UNCHANGED <<rxVars, rcvdVars, arrived>>
  PROVE  IInv'
<1>1. /\ FifoTypeOK' /\ running' \in Tasks /\ running = NoTask
      /\ AtMostTwice("PacketRcvd")'
      /\ running' = "PacketRcvd" => Once("PacketRcvd")'
      /\ Queued("PacketRcvd") <=> Queued("PacketRcvd")' \/ "PacketRcvd" = running'
      /\ Once("PacketRcvd") =>
           Once("PacketRcvd")' /\ ("PacketRcvd" = running' => ~Queued("PacketRcvd")')
  BY RunQueue, RunTwice DEF IInv, TypeOK, TaskPerSlot, RunNext
<1>2. TaskPerSlot'
  BY <1>1, TaskFacts DEF IInv, TaskPerSlot, Taken, rxVars, rcvdVars
<1>. QED
  BY <1>1, <1>2
  DEF IInv, TypeOK, SlotsInOrder, BuffersApart, FillsHead, Filling, Waiting, AtTail, Behind,
      Frame, Taken, Head_, rxVars, rcvdVars

LEMMA SendAckInv ==
  ASSUME IInv, SendAckTask
  PROVE  IInv'
<1>1. FifoTypeOK' /\ running' # "PacketRcvd" /\ at # "rcvd"
  BY TaskFacts DEF IInv, TypeOK, FifoTypeOK, TaskPerSlot, SendAckTask
<1>2. TaskPerSlot'
  BY <1>1, SameQueue
  DEF IInv, TaskPerSlot, Taken, rxVars, rcvdVars, SendAckTask, AtMostTwice
<1>. QED
  BY <1>1, <1>2
  DEF IInv, TypeOK, SlotsInOrder, BuffersApart, FillsHead, Filling, Waiting, AtTail, Behind,
      Frame, Taken, Head_, rxVars, rcvdVars, SendAckTask

(* While PacketRcvd runs the slot at the tail is taken: the interrupt fills *)
(* the other one.                                                           *)
LEMMA RunningTail ==
  ASSUME IInv, running = "PacketRcvd", NEW t \in Slots, t = gRxTailIndex
  PROVE  /\ Taken(t)
         /\ Filling => gRxHeadIndex = AfterSlot(t)
         /\ AfterSlot(t) \in Slots /\ AfterSlot(t) # t /\ Slots = {t, AfterSlot(t)}
         /\ AfterSlot(AfterSlot(t)) = t
<1>1. AfterSlot(t) \in Slots /\ AfterSlot(t) # t /\ Slots = {t, AfterSlot(t)}
      /\ AfterSlot(AfterSlot(t)) = t
  BY SlotFacts DEF Slots
<1>2. Taken(t)
  BY DEF IInv, TaskPerSlot, Slots
<1>3. Filling => gRxHeadIndex # t /\ gRxHeadIndex \in Slots
  BY <1>2 DEF IInv, TypeOK, FillsHead
<1>. QED  BY <1>1, <1>2, <1>3

LEMMA ReceiveInv ==
  ASSUME IInv, Receive
  PROVE  IInv'
<1>1. PICK t \in Slots, o \in Slots :
        /\ t = gRxTailIndex /\ o = AfterSlot(gRxTailIndex)
        /\ t # o /\ Slots = {t, o} /\ Taken(t)
        /\ Filling => gRxHeadIndex = o
  BY RunningTail DEF IInv, TypeOK, Receive
<1>2. /\ UNCHANGED <<running, gRxState, gMsgRcvTbl, gRxHeadIndex, gRxTailIndex, gRxByteCnt, gpRxBuf>>
      /\ running = "PacketRcvd" /\ at = "none" /\ at' = "rcvd"
  BY DEF Receive
<1>3. /\ FifoTypeOK' /\ (Queued("PacketRcvd")' <=> Queued("PacketRcvd"))
      /\ Once("PacketRcvd")' /\ AtMostTwice("PacketRcvd")'
  <2>0. FifoTypeOK /\ Once("PacketRcvd") /\ AtMostTwice("PacketRcvd")
    BY <1>2 DEF IInv, TypeOK, TaskPerSlot
  <2>1. CASE tasks' = Posted("SendAckTask")
    BY <1>2, <2>0, <2>1, PostedQueue, TaskFacts
  <2>2. CASE UNCHANGED tasks
    BY <1>2, <2>0, <2>2 DEF FifoTypeOK, Queued, Once, AtMostTwice
  <2>. QED  BY <2>1, <2>2 DEF Receive
<1>4. /\ gMsgRcvTbl[t].pMsg \in Buffers /\ gMsgRcvTbl[o].pMsg \in Buffers
      /\ gMsgRcvTbl[t].pMsg # gMsgRcvTbl[o].pMsg
      /\ gMsgRcvTbl[t].pMsg # held /\ gMsgRcvTbl[o].pMsg # held /\ held \in Buffers
      /\ gMsgRcvTbl[t].Length \in Nat
      /\ gMsgRcvTbl[t].Token \in TokenFields
  BY <1>1, <1>2 DEF IInv, TypeOK, BuffersApart, Slots
<1>5. /\ \/ pBuf' = gMsgRcvTbl[t].pMsg /\ held' = held
         \/ pBuf' = held /\ held' = gMsgRcvTbl[t].pMsg
      /\ gTokenBuf' \in TokenFields
      /\ content' \in [Buffers -> Tags \cup {0}]
      /\ content'[gMsgRcvTbl[o].pMsg] = content[gMsgRcvTbl[o].pMsg]
  BY <1>1, <1>4 DEF Receive, Tail_, IInv, TypeOK
<1>6. arrived' = Waiting'
  <2>1. ~AtTail'
    BY <1>2 DEF AtTail
  <2>2. (Behind' <=> Behind) /\ Frame(AfterSlot(gRxTailIndex))' = Frame(AfterSlot(gRxTailIndex))
    BY <1>1, <1>2, <1>5 DEF Behind, Taken, Frame
  <2>3. CASE AtTail /\ arrived' = Tail(arrived)
    BY <2>1, <2>2, <2>3, TailOfPair DEF IInv, Waiting
  <2>4. CASE ~AtTail /\ UNCHANGED arrived
    BY <2>1, <2>2, <2>4 DEF IInv, Waiting
  <2>5. AtTail <=> Tail_.Length >= MinLength
    BY <1>2 DEF AtTail, Tail_
  <2>6. ~(Tail_.Length >= MinLength) <=> Tail_.Length < MinLength
    BY <1>1, <1>4, FramerRxAssumption DEF Tail_
  <2>. QED  BY <2>3, <2>4, <2>5, <2>6 DEF Receive
<1>7. arrived' \in Seq([Proto : Protos, Token : TokenFields, payload : Tags \cup {0}])
  <2>1. CASE arrived' = Tail(arrived) /\ Tail_.Length >= MinLength
    <3>1. arrived # << >>
      BY <1>2, <2>1, TailOfPair DEF IInv, Waiting, AtTail, Tail_
    <3>. QED  BY <2>1, <3>1, HeadTailProperties DEF IInv, TypeOK
  <2>. QED  BY <2>1 DEF Receive, IInv, TypeOK
<1>8. TypeOK'
  BY <1>2, <1>3, <1>4, <1>5, <1>7 DEF TypeOK, IInv
<1>9. SlotsInOrder' /\ FillsHead'
  BY <1>2 DEF IInv, SlotsInOrder, FillsHead, Filling, Taken, Head_
<1>10. TaskPerSlot'
  BY <1>1, <1>2, <1>3 DEF IInv, TaskPerSlot, Taken
<1>11. BuffersApart'
  BY <1>1, <1>2, <1>4, <1>5 DEF IInv, BuffersApart
<1>. QED  BY <1>6, <1>8, <1>9, <1>10, <1>11 DEF IInv

LEMMA PacketRcvdEndsInv ==
  ASSUME IInv, PacketRcvdEnds
  PROVE  IInv'
<1>1. PICK t \in Slots, o \in Slots :
        /\ t = gRxTailIndex /\ o = AfterSlot(gRxTailIndex) /\ AfterSlot(o) = t
        /\ t # o /\ Slots = {t, o} /\ Taken(t)
        /\ Filling => gRxHeadIndex = o
  BY RunningTail DEF IInv, TypeOK, PacketRcvdEnds
<1>2. /\ UNCHANGED <<tasks, gRxState, gRxHeadIndex, gRxByteCnt, gpRxBuf, content, held,
                     gTokenBuf, arrived>>
      /\ running = "PacketRcvd" /\ at = "rcvd" /\ at' = "none"
      /\ running' = NoTask /\ pBuf' = NoBuffer /\ gRxTailIndex' = o
  BY <1>1 DEF PacketRcvdEnds
<1>3. gMsgRcvTbl \in [Slots -> Slot] /\ pBuf \in Buffers
  BY <1>2 DEF IInv, TypeOK, BuffersApart, Slot
<1>4. /\ gMsgRcvTbl' \in [Slots -> Slot] /\ gMsgRcvTbl'[o] = gMsgRcvTbl[o]
      /\ gMsgRcvTbl'[t].pMsg = pBuf /\ gMsgRcvTbl'[t].Length = 0
  <2>. DEFINE mid == [Tail_ EXCEPT !.pMsg = pBuf]
              low == [mid EXCEPT !.Length = 0]
              slot == [low EXCEPT !.Token = 0]
  <2>1. mid \in Slot /\ mid.pMsg = pBuf
    BY <1>1, <1>3 DEF Slot, Tail_
  <2>2. low \in Slot /\ low.pMsg = pBuf /\ low.Length = 0
    <3>1. 0 \in 0 .. HDLC_MTU
      BY FramerRxAssumption
    <3>. HIDE DEF mid
    <3>. QED  BY <2>1, <3>1 DEF Slot
  <2>3. slot \in Slot /\ slot.pMsg = pBuf /\ slot.Length = 0
    <3>. HIDE DEF low
    <3>. QED  BY <2>2 DEF Slot, TokenFields
  <2>4. gMsgRcvTbl' = [gMsgRcvTbl EXCEPT ![t] = slot]
    BY <1>1 DEF PacketRcvdEnds, FreedSlot
  <2>. HIDE DEF slot
  <2>. QED  BY <1>1, <1>3, <2>3, <2>4
<1>5. ~Taken(t)' /\ (Taken(o)' <=> Taken(o))
  BY <1>4 DEF Taken
<1>6. TypeOK'
  <2>1. FifoTypeOK'
    BY <1>2 DEF IInv, TypeOK, FifoTypeOK
  <2>2. gMsgRcvTbl' \in [Slots -> [Length : 0 .. HDLC_MTU, Proto : Protos,
                                   Token : TokenFields, pMsg : Buffers]]
    BY <1>4 DEF Slot
  <2>. QED  BY <1>1, <1>2, <2>1, <2>2 DEF IInv, TypeOK
<1>7. SlotsInOrder'
  BY <1>1, <1>2, <1>5 DEF IInv, SlotsInOrder, TypeOK, Slots, Taken
<1>8. TaskPerSlot'
  <2>1. (Taken(0) /\ Taken(1)) <=> Taken(o)
    BY <1>1 DEF Slots
  <2>2. Taken(gRxTailIndex)' <=> Taken(o)
    BY <1>2, <1>5 DEF Taken
  <2>3. AtMostTwice("PacketRcvd")' /\ Once("PacketRcvd")'
        /\ (Taken(o) \/ ~Queued("PacketRcvd")')
    BY <1>2, <2>1, SameQueue DEF IInv, TaskPerSlot, AtMostTwice
  <2>. QED  BY <1>2, <2>2, <2>3, TaskFacts DEF TaskPerSlot
<1>9. BuffersApart'
  BY <1>1, <1>2, <1>4 DEF IInv, BuffersApart, Slots
<1>10. FillsHead'
  BY <1>1, <1>2, <1>4, <1>5 DEF IInv, FillsHead, Filling, Taken, Head_
<1>11. arrived' = Waiting'
  <2>1. ~AtTail
    BY <1>2 DEF AtTail
  <2>2. AtTail' <=> Behind
    BY <1>1, <1>2, <1>4 DEF AtTail, Behind
  <2>3. ~Behind'
    BY <1>1, <1>2, <1>4, FramerRxAssumption DEF Behind
  <2>4. Frame(gRxTailIndex)' = Frame(AfterSlot(gRxTailIndex))
    BY <1>1, <1>2, <1>4 DEF Frame
  <2>. QED  BY <1>2, <2>1, <2>2, <2>3, <2>4 DEF IInv, Waiting
<1>. QED  BY <1>6, <1>7, <1>8, <1>9, <1>10, <1>11 DEF IInv

LEMMA StutterInv ==
  ASSUME IInv, UNCHANGED vars
  PROVE  IInv'
BY SameQueue
DEF IInv, TypeOK, FifoTypeOK, SlotsInOrder, TaskPerSlot, AtMostTwice, BuffersApart, FillsHead,
    Filling, Waiting, AtTail, Behind, Frame, Taken, Head_, vars, rxVars, rcvdVars

LEMMA StepInv ==
  ASSUME IInv, EmptyFrames = FALSE, [Next]_vars
  PROVE  IInv'
<1>1. CASE RxByte
  BY <1>1, FillSteps, FillInv, GoodFrameInv
<1>2. CASE TaskStep
  BY <1>2, RunInv, ReceiveInv, PacketRcvdEndsInv, SendAckInv DEF TaskStep
<1>3. CASE UNCHANGED vars
  BY <1>3, StutterInv
<1>. QED  BY <1>1, <1>2, <1>3 DEF Next

LEMMA Invariance == EmptyFrames = FALSE /\ Safety => []IInv
<1>. SUFFICES ASSUME EmptyFrames = FALSE PROVE Safety => []IInv
  OBVIOUS
<1>1. IInv /\ [Next]_vars => IInv'
  BY StepInv
<1>. QED  BY InitInv, <1>1, PTL DEF Safety
-----------------------------------------------------------------------------
(* The types of the receive table and of the interrupt's state: a frame     *)
(* never grows beyond the bytes of a buffer (FramerM.nc, RxByteReady).      *)
THEOREM TypeCorrect == EmptyFrames = FALSE /\ Safety => []TypeOK
<1>1. IInv => TypeOK
  BY DEF IInv
<1>. QED  BY Invariance, <1>1, PTL

(* The interrupt, the client and the other slot of the table never have the *)
(* same buffer, whatever the client gives back and however many posts of    *)
(* PacketRcvd fail (FramerM.nc, RxByteReady and PacketRcvd).                *)
THEOREM OneUserAlways == EmptyFrames = FALSE /\ Safety => []OneUser
<1>1. IInv => OneUser
  <2>. SUFFICES ASSUME IInv PROVE OneUser
    OBVIOUS
  <2>1. /\ Filling => gpRxBuf = Head_.pMsg /\ Head_.Length = 0
        /\ gMsgRcvTbl[0].pMsg # gMsgRcvTbl[1].pMsg
        /\ at = "none" => \A s \in Slots : gMsgRcvTbl[s].pMsg # held
    BY DEF IInv, FillsHead, BuffersApart, Taken, Head_
  <2>2. CASE at = "none"
    BY <2>1, <2>2 DEF OneUser, IInv, TypeOK, Head_
  <2>3. CASE at = "rcvd"
    <3>1. Filling => gRxHeadIndex = AfterSlot(gRxTailIndex)
      BY <2>3, RunningTail DEF IInv, TaskPerSlot, TypeOK
    <3>. QED  BY <2>1, <2>3, <3>1 DEF OneUser, IInv, BuffersApart, Head_
  <2>. QED  BY <2>2, <2>3 DEF IInv, TypeOK
<1>. QED  BY Invariance, <1>1, PTL

(* PacketRcvd hands on the frames in the order in which they came, each     *)
(* with its own token and payload (FramerM.nc, RxByteReady and PacketRcvd). *)
THEOREM HandedOnAlways == EmptyFrames = FALSE /\ Safety => []HandedOnAsReceived
<1>1. IInv => HandedOnAsReceived
  <2>. SUFFICES ASSUME IInv, at = "none", Tail_.Length >= MinLength
                PROVE  arrived # << >> /\ Delivered = Head(arrived)
    BY DEF HandedOnAsReceived
  <2>1. AtTail /\ Delivered = Frame(gRxTailIndex)
    BY DEF AtTail, Delivered, Frame, Tail_
  <2>. QED  BY <2>1, TailOfPair DEF IInv, Waiting
<1>. QED  BY Invariance, <1>1, PTL
-----------------------------------------------------------------------------
(* The sending half.                                                        *)

(* The transmitter is idle exactly while the UART has nothing to send, so   *)
(* that StartTx never meets a busy UART; and bytes are left as long as one  *)
(* is to be sent.                                                           *)
OneFrame ==
  /\ gTxState # "ERROR"
  /\ uart <=> gTxState # "IDLE"
  /\ gPrevTxState \in {"IDLE", "INFO", "FCS1", "FCS2", "ENDFLAG"}
  /\ gPrevTxState # "IDLE" <=> gTxState = "ESC"
  /\ gTxState \in {"PROTO", "INFO"} \/ gPrevTxState = "INFO" => left > 0

TxInv == TxTypeOK /\ OneFrame

LEMMA TxFacts ==
  /\ NoMsg \notin Messages /\ DataBytes \in Nat \ {0}
  /\ {"PacketSent", "SendAckTask", "sendTask"} \subseteq Tasks
  /\ NoTask \notin Tasks
BY FifoAssumption, FramerTxAssumption DEF TxTasks

LEMMA TxTasksKept ==
  ASSUME FifoTypeOK, running' \in Tasks \cup {NoTask},
         \/ tasks' = tasks
         \/ tasks' = Posted("PacketSent")
         \/ \E t \in Tasks : tasks' = Append(tasks, t) /\ Len(tasks) < MaxTasks
  PROVE  FifoTypeOK'
<1>1. CASE tasks' = tasks
  BY <1>1 DEF FifoTypeOK
<1>2. ASSUME NEW t \in Tasks, tasks' = Append(tasks, t), Len(tasks) < MaxTasks
      PROVE  FifoTypeOK'
  BY <1>2, FifoAssumption DEF FifoTypeOK
<1>3. CASE tasks' = Posted("PacketSent")
  BY <1>1, <1>2, <1>3, TxFacts DEF Posted, HasRoom
<1>. QED  BY <1>1, <1>2, <1>3

(* The transmitter is started only when it is idle, and then the UART is.   *)
LEMMA StartTxFacts ==
  ASSUME TxInv, NEW flags, StartTx(gTxState, flags), UNCHANGED gPrevTxState,
         running' \in Tasks \cup {NoTask}
  PROVE  /\ OneFrame'
         /\ FifoTypeOK'
         /\ gTxState' \in {gTxState, "PROTO"} /\ uart' \in BOOLEAN
         /\ gTxProto' \in {PROTO_ACK, PROTO_PACKET_NOACK}
         /\ left' \in 0 .. DataBytes
<1>. USE TxFacts DEF TxInv, OneFrame, TxTypeOK
<1>1. CASE gTxState # "IDLE" \/ flags = {}
  <2>1. UNCHANGED <<gTxState, gTxProto, left, uart, tasks>>
    BY <1>1 DEF StartTx
  <2>. QED  BY <2>1, TxTasksKept
<1>2. CASE gTxState = "IDLE" /\ flags # {}
  <2>1. /\ gTxState' = "PROTO" /\ uart' = TRUE /\ UNCHANGED tasks
        /\ \/ gTxProto' = PROTO_ACK /\ left' = 1
           \/ gTxProto' = PROTO_PACKET_NOACK /\ left' = DataBytes
    BY <1>2 DEF StartTx
  <2>. QED  BY <1>2, <2>1, TxTasksKept
<1>. QED  BY <1>1, <1>2

LEMMA TxInitInv ==
  ASSUME TxInit
  PROVE  TxInv /\ MessageKept
<1>. USE DEF TxInit
<1>1. FifoTypeOK
  BY FifoAssumption DEF FifoInit, FifoTypeOK
<1>2. OneFrame
  BY DEF OneFrame
<1>3. left \in 0 .. DataBytes /\ owed = NoMsg
  BY TxFacts
<1>4. TxTypeOK
  BY <1>1, <1>3 DEF TxTypeOK, TxStates
<1>. QED  BY <1>2, <1>3, <1>4 DEF TxInv, MessageKept

LEMMA TxStepInv == TxInv /\ [TxNext]_senderVars => TxInv'
<1>. SUFFICES ASSUME TxInv, [TxNext]_senderVars PROVE TxInv'
  OBVIOUS
<1>0. TxTypeOK /\ FifoTypeOK /\ OneFrame /\ NoTask \in Tasks \cup {NoTask}
      /\ running \in Tasks \cup {NoTask}
  BY DEF TxInv, TxTypeOK, FifoTypeOK
<1>1. ASSUME NEW m \in Messages, BareSendMsg_send(m) PROVE TxInv'
  <2>1. CASE StartTx(gTxState, gFlags')
    <3>1. UNCHANGED gPrevTxState /\ running' \in Tasks \cup {NoTask}
      BY <1>1 DEF BareSendMsg_send, Return
    <3>2. /\ gFlags' \subseteq Flags /\ gpTxMsg' \in Messages \cup {NoMsg}
          /\ owed' \in Messages \cup {NoMsg} /\ UNCHANGED gTxTokenBuf
      BY <1>0, <1>1 DEF BareSendMsg_send, TxTypeOK, Flags
    <3>. QED  BY <1>0, <2>1, <3>1, <3>2, StartTxFacts DEF TxInv, TxTypeOK, TxStates
  <2>2. CASE UNCHANGED <<gTxState, gTxProto, left, uart, tasks, gFlags, gpTxMsg, owed>>
    BY <1>0, <1>1, <2>2
    DEF BareSendMsg_send, Return, TxInv, TxTypeOK, FifoTypeOK, OneFrame
  <2>. QED  BY <1>1, <2>1, <2>2 DEF BareSendMsg_send
<1>2. ASSUME NEW token \in Tokens, ReflectToken(token) PROVE TxInv'
  <2>1. CASE StartTx(gTxState, gFlags')
    <3>1. UNCHANGED gPrevTxState /\ running' \in Tasks \cup {NoTask}
      BY <1>2 DEF ReflectToken, Return
    <3>2. /\ gFlags' \subseteq Flags /\ gTxTokenBuf' \in Tokens \cup {0}
          /\ UNCHANGED <<gpTxMsg, owed>>
      BY <1>0, <1>2 DEF ReflectToken, TxTypeOK, Flags
    <3>. QED  BY <1>0, <2>1, <3>1, <3>2, StartTxFacts DEF TxInv, TxTypeOK, TxStates
  <2>2. CASE UNCHANGED <<gTxState, gTxProto, left, uart, tasks, gFlags, gTxTokenBuf>>
    BY <1>0, <1>2, <2>2
    DEF ReflectToken, Return, TxInv, TxTypeOK, FifoTypeOK, OneFrame
  <2>. QED  BY <1>2, <2>1, <2>2 DEF ReflectToken
<1>3. CASE TokenSent \/ DataSent
  <2>1. StateSeen = gTxState
    BY <1>0 DEF StateSeen, OneFrame
  <2>2. /\ StartTx(gTxState, gFlags') /\ UNCHANGED <<gPrevTxState, gTxTokenBuf>>
        /\ running' \in Tasks \cup {NoTask}
    BY <1>3, <2>1 DEF TokenSent, DataSent, Return
  <2>3. /\ gFlags' \subseteq Flags /\ gpTxMsg' \in Messages \cup {NoMsg}
        /\ owed' \in Messages \cup {NoMsg}
    BY <1>0, <1>3 DEF TokenSent, DataSent, Toggle, TxTypeOK, Flags
  <2>. QED  BY <1>0, <2>2, <2>3, StartTxFacts DEF TxInv, TxTypeOK, TxStates
<1>4. CASE ByteSent
  <2>1. /\ uart /\ UNCHANGED <<tasks, running, gFlags, gTxProto, gpTxMsg, gTxTokenBuf, uart, owed>>
    BY <1>4 DEF ByteSent
  <2>2. /\ OneFrame' /\ gTxState' \in TxStates /\ left' \in 0 .. DataBytes
    <3>. USE <1>0, <2>1, TxFacts DEF OneFrame, TxTypeOK, TxStates
    <3>1. CASE gTxState = "PROTO" /\ gTxState' = "INFO" /\ UNCHANGED <<gPrevTxState, left>>
      BY <3>1
    <3>2. CASE gTxState = "INFO" /\ left' = left - 1
               /\ TxArbitraryByte(IF left = 1 THEN "FCS1" ELSE "INFO")
      <4>1. left \in Nat /\ left > 0 /\ left' \in 0 .. DataBytes /\ (left # 1 => left' > 0)
        BY <3>2
      <4>. QED  BY <3>2, <4>1 DEF TxArbitraryByte
    <3>3. CASE gTxState = "ESC" /\ gTxState' = gPrevTxState /\ gPrevTxState' = "IDLE"
               /\ UNCHANGED left
      BY <3>3
    <3>4. CASE gTxState = "FCS1" /\ TxArbitraryByte("FCS2") /\ UNCHANGED left
      BY <3>4 DEF TxArbitraryByte
    <3>5. CASE gTxState = "FCS2" /\ TxArbitraryByte("ENDFLAG") /\ UNCHANGED left
      BY <3>5 DEF TxArbitraryByte
    <3>6. CASE gTxState = "ENDFLAG" /\ gTxState' = "FINISH" /\ UNCHANGED <<gPrevTxState, left>>
      BY <3>6
    <3>. QED  BY <1>4, <3>1, <3>2, <3>3, <3>4, <3>5, <3>6 DEF ByteSent
  <2>3. gPrevTxState' \in TxStates
    BY <2>2 DEF OneFrame, TxStates
  <2>. QED  BY <1>0, <2>1, <2>2, <2>3 DEF TxInv, TxTypeOK, FifoTypeOK
<1>5. CASE FrameSent
  <2>1. /\ gTxState = "FINISH" /\ gTxState' = "IDLE" /\ uart' = FALSE
        /\ tasks' = Posted("PacketSent")
        /\ UNCHANGED <<running, gPrevTxState, gFlags, gTxProto, left, gpTxMsg, gTxTokenBuf, owed>>
    BY <1>5 DEF FrameSent
  <2>2. OneFrame'
    BY <1>0, <2>1 DEF OneFrame
  <2>3. FifoTypeOK'
    BY <1>0, <2>1, TxTasksKept
  <2>. QED  BY <1>0, <2>1, <2>2, <2>3 DEF TxInv, TxTypeOK, TxStates
<1>6. CASE (RunNext \/ \E t \in Tasks : Post(t)) /\ UNCHANGED txVars
  <2>1. FifoTypeOK'
    <3>1. CASE RunNext
      BY <1>0, <3>1, RunQueue
    <3>2. CASE \E t \in Tasks : Post(t)
      BY <1>0, <3>2, TxTasksKept DEF Post, HasRoom
    <3>. QED  BY <1>6, <3>1, <3>2
  <2>. QED  BY <1>0, <1>6, <2>1 DEF TxInv, TxTypeOK, OneFrame, txVars
<1>7. CASE UNCHANGED senderVars
  BY <1>0, <1>7 DEF TxInv, TxTypeOK, FifoTypeOK, OneFrame, senderVars
<1>. QED
  BY <1>1, <1>2, <1>3, <1>4, <1>5, <1>6, <1>7, TxFacts
  DEF TxNext, TxTaskStep, Interrupt, ClientPosts, AckPosts

LEMMA KeptStep == MessageKept /\ [TxNext]_senderVars => MessageKept'
<1>. SUFFICES ASSUME MessageKept, [TxNext]_senderVars PROVE MessageKept'
  OBVIOUS
<1>. USE DEF MessageKept
<1>1. ASSUME NEW m \in Messages, BareSendMsg_send(m) PROVE MessageKept'
  BY <1>1 DEF BareSendMsg_send
<1>2. ASSUME NEW token \in Tokens, ReflectToken(token) PROVE MessageKept'
  BY <1>2 DEF ReflectToken
<1>3. CASE TokenSent
  BY <1>3 DEF TokenSent, Toggle
<1>4. CASE DataSent
  BY <1>4 DEF DataSent
<1>5. CASE UNCHANGED <<gFlags, gpTxMsg, owed>>
  BY <1>5
<1>. QED
  BY <1>1, <1>2, <1>3, <1>4, <1>5
  DEF TxNext, TxTaskStep, Interrupt, ClientPosts, AckPosts, txVars, senderVars,
      ByteSent, FrameSent

LEMMA SendingAlways == TxSafety => []TxInv
BY TxInitInv, TxStepInv, PTL DEF TxSafety

(* The types of the sending half: it never takes a byte more than there     *)
(* are (FramerM.nc, txByteReady).                                           *)
THEOREM TxTypeCorrect == TxSafety => []TxTypeOK
<1>1. TxInv => TxTypeOK
  BY DEF TxInv
<1>. QED  BY <1>1, SendingAlways, PTL

(* StartTx never finds the UART busy: the state ERROR, in which FramerM     *)
(* would post PacketSent for a frame not sent, is not reached.              *)
THEOREM OneFrameAlways == TxSafety => []OneFrame
<1>1. TxInv => OneFrame
  BY DEF TxInv
<1>. QED  BY <1>1, SendingAlways, PTL

(* A message accepted and not reported is still to be sent, however often   *)
(* PacketSent takes the frame of a token for that of the message, or the    *)
(* other way round (FramerM.nc, PacketSent).                                *)
THEOREM MessageKeptAlways == TxSafety => []MessageKept
BY TxInitInv, KeptStep, PTL DEF TxSafety
=============================================================================
