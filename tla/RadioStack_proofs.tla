-------------------------- MODULE RadioStack_proofs --------------------------
(***************************************************************************)
(* AM and the CC2420 packet layer keep their books straight, for any       *)
(* number of messages and other tasks, any task queue, any retry count and *)
(* any width of the counters.  What depends on the TXFIFO being loadable   *)
(* says so in its hypothesis.                                              *)
(*                                                                         *)
(* The type invariant is not inductive, nor is any of the safety           *)
(* invariants: that nothing but the buffer's owner uses it rests on AM     *)
(* being busy exactly while its message is in exactly one place.  Token    *)
(* says so; Owner, Timing and Handlers are what it needs of the history    *)
(* variable, of the timer and of the positions in the code.  The receive   *)
(* buffer, the enabling of FIFOP, the retry counter, the ack and the       *)
(* duplicate PacketSent have an invariant each, stated where it is used.   *)
(***************************************************************************)
EXTENDS RadioStack, TaskFifo_proofs

Starting == running = "sendTask" /\ at = "start"

Signalled(c) == up[c] # NoEvent /\ ~up[c].delivered

(* The message AM is busy with is in exactly one place.                     *)
Token ==
  /\ state <=> \/ Queued("sendTask")
               \/ Starting
               \/ InRadio
               \/ Signalled("task")
               \/ Signalled("interrupt")
  /\ Once("sendTask")
  /\ Queued("sendTask") =>
       ~Starting /\ ~InRadio /\ ~Signalled("task") /\ ~Signalled("interrupt")
  /\ Starting => ~InRadio /\ ~Signalled("task") /\ ~Signalled("interrupt")
  /\ InRadio => ~Signalled("task") /\ ~Signalled("interrupt")
  /\ Signalled("task") => ~Signalled("interrupt")

(* That message is buffer, wherever it is, and no other is owed a sendDone. *)
Owner ==
  /\ state => buffer \in Messages
  /\ \A m \in Messages : owed[m] = IF state /\ m = buffer THEN 1 ELSE 0
  /\ \A m \in Messages : framed[m] = IF InRadio /\ m = buffer THEN 1 ELSE 0
  /\ InRadio => txbufptr = buffer
  /\ \A c \in Contexts : Signalled(c) => up[c].message = buffer

(* A transmission timer belongs to a transmission.                          *)
Timing ==
  /\ stateTimer = "INITIAL" => RadioState = "PRE_TX"
  /\ stateTimer = "BACKOFF" => RadioState \in {"PRE_TX", "TX"}

(* Where the contexts are when something is in progress in them.            *)
Handlers ==
  /\ isr \in {"sent", "wait"} => RadioState = "POST_TX"
  /\ up["interrupt"] # NoEvent => isr = "abort"
  /\ up["task"] # NoEvent => at = "return"
  /\ at \in {"arm", "count"} => running = "sendTask"
  /\ running = NoTask <=> at = "none"

IInv == TypeOK /\ Token /\ Owner /\ Timing /\ Handlers
-----------------------------------------------------------------------------
(* A message in the radio is AM's, and it is nowhere else.                  *)
LEMMA InRadioFacts ==
  ASSUME IInv, InRadio
  PROVE  /\ state = TRUE
         /\ buffer \in Messages
         /\ txbufptr = buffer
         /\ ~Queued("sendTask")
         /\ ~Starting
         /\ ~Signalled("task")
         /\ ~Signalled("interrupt")
BY DEF IInv, Token, Owner, TypeOK, AMTypeOK

LEMMA SignalFacts ==
  ASSUME MoteTypeOK,
         NEW c \in Contexts, NEW m \in Messages, NEW success \in BOOLEAN,
         Signal(c, m, success)
  PROVE  /\ up' \in [Contexts -> Events \cup {NoEvent}]
         /\ up'[c] # NoEvent
         /\ Signalled(c)'
         /\ up'[c].message = m
         /\ \A d \in Contexts \ {c} : up'[d] = up[d]
<1>. DEFINE e == [message |-> m, success |-> success, delivered |-> FALSE]
<1>1. ~e.delivered /\ e.message = m
  OBVIOUS
<1>2. up' = [up EXCEPT ![c] = e]
  BY DEF Signal
<1>3. up \in [Contexts -> Events \cup {NoEvent}]
  BY DEF MoteTypeOK
<1>4. e \in Events
  BY DEF Events
<1>. HIDE DEF e
<1>5. e # NoEvent
  BY <1>4, MoteAssumption
<1>6. up'[c] = e
  BY <1>2, <1>3
<1>7. /\ up' \in [Contexts -> Events \cup {NoEvent}]
      /\ \A d \in Contexts \ {c} : up'[d] = up[d]
  BY <1>2, <1>3, <1>4
<1>. QED  BY <1>1, <1>5, <1>6, <1>7 DEF Signalled

(* A message that leaves the radio is signalled, with its length restored.  *)
LEMMA MessageLeaves ==
  ASSUME IInv, InRadio, ~InRadio',
         NEW c \in Contexts, NEW success \in BOOLEAN,
         Signal(c, txbufptr, success),
         framed' = Restored(txbufptr),
         ~Queued("sendTask")', Once("sendTask")', ~Starting',
         UNCHANGED <<txbufptr, amVars>>
  PROVE  /\ up' \in [Contexts -> Events \cup {NoEvent}]
         /\ up'[c] # NoEvent
         /\ \A d \in Contexts \ {c} : up'[d] = up[d]
         /\ framed' \in [Messages -> 0 .. 1]
         /\ Token' /\ Owner'
<1>1. /\ framed \in [Messages -> 0 .. 1]
      /\ txbufptr \in Messages /\ txbufptr = buffer
      /\ \A m \in Messages : framed[m] = IF m = buffer THEN 1 ELSE 0
  BY InRadioFacts DEF IInv, TypeOK, MoteTypeOK, Owner
<1>2. /\ framed' \in [Messages -> 0 .. 1]
      /\ \A m \in Messages : framed'[m] = 0
  BY <1>1 DEF Restored
<1>3. MoteTypeOK
  BY DEF IInv, TypeOK
<1>4. /\ up' \in [Contexts -> Events \cup {NoEvent}]
      /\ up'[c] # NoEvent
      /\ Signalled(c)'
      /\ up'[c].message = buffer
      /\ \A d \in Contexts \ {c} : up'[d] = up[d]
  BY <1>1, <1>3, SignalFacts
<1>5. \A d \in Contexts \ {c} : ~Signalled(d)'
  BY <1>4, InRadioFacts DEF Signalled, Contexts
<1>6. Token'
  BY <1>4, <1>5, InRadioFacts DEF IInv, Token, Contexts, amVars
<1>7. Owner'
  BY <1>2, <1>4, <1>5, InRadioFacts DEF IInv, Owner, amVars
<1>. QED  BY <1>2, <1>4, <1>6, <1>7

(* A step that moves no message.                                            *)
LEMMA MessageStays ==
  ASSUME IInv, InRadio' <=> InRadio,
         Queued("sendTask")' <=> Queued("sendTask"), Once("sendTask")',
         Starting' <=> Starting,
         UNCHANGED <<up, framed, txbufptr, amVars>>
  PROVE  Token' /\ Owner'
<1>1. \A c : Signalled(c)' <=> Signalled(c)
  BY DEF Signalled
<1>2. Token'
  BY <1>1 DEF IInv, Token, amVars
<1>3. Owner'
  BY <1>1 DEF IInv, Owner, amVars
<1>. QED  BY <1>2, <1>3
-----------------------------------------------------------------------------
(* Every step preserves the invariant.  First the steps that move no       *)
(* message ...                                                              *)
LEMMA TaskEndsInv ==
  ASSUME IInv, TaskEnds /\ UNCHANGED <<radioVars, amVars>>
  PROVE  IInv'
<1>. USE RadioAssumption DEF TaskEnds, TaskReturns, msgVars, radioVars, amVars
<1>1. TypeOK'
  BY DEF IInv, TypeOK, MoteTypeOK, RadioTypeOK, AMTypeOK, FifoTypeOK
<1>2. (InRadio' <=> InRadio) /\ (Starting' <=> Starting)
  BY DEF IInv, Token, Owner, Handlers, Starting, InRadio, TxSequence
<1>3. Token' /\ Owner'
  BY <1>2, MessageStays, SameQueue DEF IInv, Token
<1>4. Timing' /\ Handlers'
  BY <1>2
     DEF IInv, TypeOK, MoteTypeOK, RadioTypeOK, AMTypeOK, FifoTypeOK, Timing,
         Handlers, Token, InRadio, TxSequence
<1>. QED  BY <1>1, <1>3, <1>4 DEF IInv

LEMMA OtherTaskInv ==
  ASSUME IInv, OtherTask /\ UNCHANGED <<radioVars, amVars>>
  PROVE  IInv'
<1>. USE RadioAssumption DEF OtherTask, RadioTasks, msgVars, radioVars, amVars
<1>1. TypeOK'
  BY DEF IInv, TypeOK, MoteTypeOK, RadioTypeOK, AMTypeOK, FifoTypeOK
<1>2. (InRadio' <=> InRadio) /\ (Starting' <=> Starting)
  BY DEF IInv, Token, Owner, Handlers, Starting, InRadio, TxSequence
<1>3. Token' /\ Owner'
  BY <1>2, MessageStays, SameQueue DEF IInv, Token
<1>4. Timing' /\ Handlers'
  BY <1>2
     DEF IInv, TypeOK, MoteTypeOK, RadioTypeOK, AMTypeOK, FifoTypeOK, Timing,
         Handlers, Token, InRadio, TxSequence
<1>. QED  BY <1>1, <1>3, <1>4 DEF IInv

LEMMA OtherTaskDoneInv ==
  ASSUME IInv, OtherTaskDone /\ UNCHANGED <<radioVars, amVars>>
  PROVE  IInv'
<1>. USE RadioAssumption
   DEF OtherTaskDone, ClientTask, RadioTasks, msgVars, radioVars, amVars
<1>1. TypeOK'
  BY DEF IInv, TypeOK, MoteTypeOK, RadioTypeOK, AMTypeOK, FifoTypeOK
<1>2. (InRadio' <=> InRadio) /\ (Starting' <=> Starting)
  BY DEF IInv, Token, Owner, Handlers, Starting, InRadio, TxSequence
<1>3. Token' /\ Owner'
  BY <1>2, MessageStays, SameQueue DEF IInv, Token
<1>4. Timing' /\ Handlers'
  BY <1>2
     DEF IInv, TypeOK, MoteTypeOK, RadioTypeOK, AMTypeOK, FifoTypeOK, Timing,
         Handlers, Token, InRadio, TxSequence
<1>. QED  BY <1>1, <1>3, <1>4 DEF IInv

LEMMA SendArmInv ==
  ASSUME IInv, SendArm /\ UNCHANGED amVars
  PROVE  IInv'
<1>. USE RadioAssumption DEF SendArm, TaskAt, msgVars, amVars
<1>1. TypeOK'
  BY DEF IInv, TypeOK, MoteTypeOK, RadioTypeOK, AMTypeOK, FifoTypeOK
<1>2. (InRadio' <=> InRadio) /\ (Starting' <=> Starting)
  BY DEF IInv, Token, Owner, Handlers, Starting, InRadio, TxSequence
<1>3. Token' /\ Owner'
  BY <1>2, MessageStays, SameQueue DEF IInv, Token
<1>4. Timing' /\ Handlers'
  BY <1>2
     DEF IInv, TypeOK, MoteTypeOK, RadioTypeOK, AMTypeOK, FifoTypeOK, Timing,
         Handlers, Token, InRadio, TxSequence
<1>. QED  BY <1>1, <1>3, <1>4 DEF IInv

LEMMA SendCountInv ==
  ASSUME IInv, SendCount /\ UNCHANGED amVars
  PROVE  IInv'
<1>. USE RadioAssumption DEF SendCount, TaskAt, msgVars, amVars
<1>1. TypeOK'
  BY DEF IInv, TypeOK, MoteTypeOK, RadioTypeOK, AMTypeOK, FifoTypeOK
<1>2. (InRadio' <=> InRadio) /\ (Starting' <=> Starting)
  BY DEF IInv, Token, Owner, Handlers, Starting, InRadio, TxSequence
<1>3. Token' /\ Owner'
  BY <1>2, MessageStays, SameQueue DEF IInv, Token
<1>4. Timing' /\ Handlers'
  BY <1>2
     DEF IInv, TypeOK, MoteTypeOK, RadioTypeOK, AMTypeOK, FifoTypeOK, Timing,
         Handlers, Token, InRadio, TxSequence
<1>. QED  BY <1>1, <1>3, <1>4 DEF IInv

LEMMA PacketRcvdInv ==
  ASSUME IInv, PacketRcvd /\ UNCHANGED amVars
  PROVE  IInv'
<1>. USE RadioAssumption DEF PacketRcvd, TaskAt, msgVars, radioVars, amVars
<1>1. TypeOK'
  BY DEF IInv, TypeOK, MoteTypeOK, RadioTypeOK, AMTypeOK, FifoTypeOK
<1>2. (InRadio' <=> InRadio) /\ (Starting' <=> Starting)
  BY DEF IInv, Token, Owner, Handlers, Starting, InRadio, TxSequence
<1>3. Token' /\ Owner'
  BY <1>2, MessageStays, SameQueue DEF IInv, Token
<1>4. Timing' /\ Handlers'
  BY <1>2
     DEF IInv, TypeOK, MoteTypeOK, RadioTypeOK, AMTypeOK, FifoTypeOK, Timing,
         Handlers, Token, InRadio, TxSequence
<1>. QED  BY <1>1, <1>3, <1>4 DEF IInv

LEMMA ReceiveReturnsInv ==
  ASSUME IInv, ReceiveReturns /\ UNCHANGED amVars
  PROVE  IInv'
<1>. USE RadioAssumption DEF ReceiveReturns, ClientTask, msgVars, amVars
<1>1. TypeOK'
  BY ZenonT(60) DEF IInv, TypeOK, MoteTypeOK, RadioTypeOK, AMTypeOK, FifoTypeOK
<1>2. (InRadio' <=> InRadio) /\ (Starting' <=> Starting)
  BY DEF IInv, Token, Owner, Handlers, Starting, InRadio, TxSequence
<1>3. Token' /\ Owner'
  BY <1>2, MessageStays, SameQueue DEF IInv, Token
<1>4. Timing' /\ Handlers'
  BY <1>2
     DEF IInv, TypeOK, MoteTypeOK, RadioTypeOK, AMTypeOK, FifoTypeOK, Timing,
         Handlers, Token, InRadio, TxSequence
<1>. QED  BY <1>1, <1>3, <1>4 DEF IInv

LEMMA SetAckTimerInv ==
  ASSUME IInv, SetAckTimer /\ UNCHANGED amVars
  PROVE  IInv'
<1>. USE RadioAssumption DEF SetAckTimer, IsrAt, msgVars, amVars
<1>1. TypeOK'
  BY DEF IInv, TypeOK, MoteTypeOK, RadioTypeOK, AMTypeOK, FifoTypeOK
<1>2. (InRadio' <=> InRadio) /\ (Starting' <=> Starting)
  BY DEF IInv, Token, Owner, Handlers, Starting, InRadio, TxSequence
<1>3. Token' /\ Owner'
  BY <1>2, MessageStays, SameQueue DEF IInv, Token
<1>4. Timing' /\ Handlers'
  BY <1>2
     DEF IInv, TypeOK, MoteTypeOK, RadioTypeOK, AMTypeOK, FifoTypeOK, Timing,
         Handlers, Token, InRadio, TxSequence
<1>. QED  BY <1>1, <1>3, <1>4 DEF IInv

LEMMA StaleFiredInv ==
  ASSUME IInv, StaleFired /\ UNCHANGED amVars
  PROVE  IInv'
<1>. USE RadioAssumption DEF StaleFired, IsrAt, msgVars, amVars
<1>1. TypeOK'
  BY DEF IInv, TypeOK, MoteTypeOK, RadioTypeOK, AMTypeOK, FifoTypeOK
<1>2. (InRadio' <=> InRadio) /\ (Starting' <=> Starting)
  BY DEF IInv, Token, Owner, Handlers, Starting, InRadio, TxSequence
<1>3. Token' /\ Owner'
  BY <1>2, MessageStays, SameQueue DEF IInv, Token
<1>4. Timing' /\ Handlers'
  BY <1>2
     DEF IInv, TypeOK, MoteTypeOK, RadioTypeOK, AMTypeOK, FifoTypeOK, Timing,
         Handlers, Token, InRadio, TxSequence
<1>. QED  BY <1>1, <1>3, <1>4 DEF IInv

LEMMA SendAbortedInv ==
  ASSUME IInv, SendAborted /\ UNCHANGED amVars
  PROVE  IInv'
<1>. USE RadioAssumption DEF SendAborted, IsrAt, msgVars, amVars
<1>1. TypeOK'
  BY DEF IInv, TypeOK, MoteTypeOK, RadioTypeOK, AMTypeOK, FifoTypeOK
<1>2. (InRadio' <=> InRadio) /\ (Starting' <=> Starting)
  BY DEF IInv, Token, Owner, Handlers, Starting, InRadio, TxSequence
<1>3. Token' /\ Owner'
  BY <1>2, MessageStays, SameQueue DEF IInv, Token
<1>4. Timing' /\ Handlers'
  BY <1>2
     DEF IInv, TypeOK, MoteTypeOK, RadioTypeOK, AMTypeOK, FifoTypeOK, Timing,
         Handlers, Token, InRadio, TxSequence
<1>. QED  BY <1>1, <1>3, <1>4 DEF IInv

LEMMA Control_stopInv ==
  ASSUME IInv, Control_stop
  PROVE  IInv'
<1>. USE RadioAssumption DEF Control_stop, RadioStop, moteVars, msgVars, amVars
<1>1. TypeOK'
  BY DEF IInv, TypeOK, MoteTypeOK, RadioTypeOK, AMTypeOK, FifoTypeOK
<1>2. (InRadio' <=> InRadio) /\ (Starting' <=> Starting)
  BY DEF IInv, Token, Owner, Handlers, Starting, InRadio, TxSequence
<1>3. Token' /\ Owner'
  BY <1>2, MessageStays, SameQueue DEF IInv, Token
<1>4. Timing' /\ Handlers'
  BY <1>2
     DEF IInv, TypeOK, MoteTypeOK, RadioTypeOK, AMTypeOK, FifoTypeOK, Timing,
         Handlers, Token, InRadio, TxSequence
<1>. QED  BY <1>1, <1>3, <1>4 DEF IInv

LEMMA TimerFireInv ==
  ASSUME IInv, TimerFire /\ UNCHANGED amVars
  PROVE  IInv'
<1>. USE RadioAssumption DEF TimerFire, msgVars, amVars
<1>1. TypeOK'
  <2>1. MoteTypeOK' /\ AMTypeOK'
    BY DEF IInv, TypeOK, MoteTypeOK, AMTypeOK, FifoTypeOK
  <2>2. RadioTypeOK'
    BY DEF IInv, TypeOK, RadioTypeOK
  <2>. QED  BY <2>1, <2>2 DEF TypeOK
<1>2. (InRadio' <=> InRadio) /\ (Starting' <=> Starting)
  BY DEF IInv, Token, Owner, Handlers, Starting, InRadio, TxSequence
<1>3. Token' /\ Owner'
  BY <1>2, MessageStays, SameQueue DEF IInv, Token
<1>4. Timing' /\ Handlers'
  BY <1>2
     DEF IInv, TypeOK, MoteTypeOK, RadioTypeOK, AMTypeOK, FifoTypeOK, Timing,
         Handlers, Token, InRadio, TxSequence
<1>. QED  BY <1>1, <1>3, <1>4 DEF IInv

LEMMA SentUnicastInv ==
  ASSUME IInv, \E a \in BOOLEAN : SentUnicast(a) /\ UNCHANGED amVars
  PROVE  IInv'
<1>. USE RadioAssumption DEF SentUnicast, IsrAt, amVars
<1>1. TypeOK'
  <2>1. MoteTypeOK' /\ AMTypeOK'
    BY DEF IInv, TypeOK, MoteTypeOK, AMTypeOK, FifoTypeOK
  <2>2. RadioTypeOK'
    BY DEF IInv, TypeOK, RadioTypeOK
  <2>. QED  BY <2>1, <2>2 DEF TypeOK
<1>2. (InRadio' <=> InRadio) /\ (Starting' <=> Starting)
  BY DEF IInv, Token, Owner, Handlers, Starting, InRadio, TxSequence
<1>3. Token' /\ Owner'
  BY <1>2, MessageStays, SameQueue DEF IInv, Token
<1>4. Timing' /\ Handlers'
  BY <1>2
     DEF IInv, TypeOK, MoteTypeOK, RadioTypeOK, AMTypeOK, FifoTypeOK, Timing,
         Handlers, Token, InRadio, TxSequence
<1>. QED  BY <1>1, <1>3, <1>4 DEF IInv

LEMMA Control_startInv ==
  ASSUME IInv, Control_start
  PROVE  IInv'
<1>. USE RadioAssumption DEF Control_start, RadioStart, moteVars, msgVars, amVars
<1>0. UNCHANGED amVars
  BY DEF IInv, TypeOK, AMTypeOK
<1>1. TypeOK'
  <2>1. MoteTypeOK' /\ AMTypeOK'
    BY <1>0 DEF IInv, TypeOK, MoteTypeOK, AMTypeOK, FifoTypeOK
  <2>2. RadioTypeOK'
    BY DEF IInv, TypeOK, RadioTypeOK
  <2>. QED  BY <2>1, <2>2 DEF TypeOK
<1>2. (InRadio' <=> InRadio) /\ (Starting' <=> Starting)
  BY DEF IInv, Token, Owner, Handlers, Starting, InRadio, TxSequence
<1>3. Token' /\ Owner'
  BY <1>0, <1>2, MessageStays, SameQueue DEF IInv, Token
<1>4. Timing' /\ Handlers'
  BY <1>2
     DEF IInv, TypeOK, MoteTypeOK, RadioTypeOK, AMTypeOK, FifoTypeOK, Timing,
         Handlers, Token, InRadio, TxSequence
<1>. QED  BY <1>1, <1>3, <1>4 DEF IInv

(* ... then the others.                                                     *)
LEMMA PacketSentInv ==
  ASSUME IInv, PacketSent /\ UNCHANGED amVars
  PROVE  IInv'
<1>. USE DEF PacketSent, TaskAt
<1>1. CASE RadioState = "POST_TX"
  <2>1. /\ InRadio /\ ~InRadio'
        /\ RadioState' = "IDLE"
        /\ framed' = Restored(txbufptr)
        /\ Signal("task", txbufptr, TRUE)
    BY <1>1 DEF InRadio, TxSequence
  <2>2. ~Queued("sendTask")' /\ Once("sendTask")' /\ ~Starting'
    BY <2>1, InRadioFacts, SameQueue DEF IInv, Token, Starting
  <2>3. "task" \in Contexts /\ TRUE \in BOOLEAN
    BY DEF Contexts
  <2>4. UNCHANGED <<txbufptr, amVars>>
    OBVIOUS
  <2>5. /\ up' \in [Contexts -> Events \cup {NoEvent}]
        /\ \A d \in Contexts \ {"task"} : up'[d] = up[d]
        /\ framed' \in [Messages -> 0 .. 1]
        /\ Token' /\ Owner'
    BY <2>1, <2>2, <2>3, <2>4, MessageLeaves
  <2>6. TypeOK'
    BY <2>1, <2>5 DEF IInv, TypeOK, MoteTypeOK, RadioTypeOK, AMTypeOK, FifoTypeOK, amVars
  <2>7. Timing' /\ Handlers'
    BY <1>1, <2>1, <2>5 DEF IInv, Timing, Handlers, Contexts
  <2>. QED  BY <2>5, <2>6, <2>7 DEF IInv
<1>2. CASE RadioState # "POST_TX"
  <2>1. UNCHANGED <<tasks, running, isr, up, msgVars, radioVars, amVars>> /\ at' = "return"
    BY <1>2 DEF msgVars, radioVars
  <2>. QED
    BY <2>1, SameQueue
       DEF IInv, TypeOK, MoteTypeOK, RadioTypeOK, AMTypeOK, FifoTypeOK, Token,
       Starting, InRadio, Signalled, Owner, Timing, Handlers, msgVars, radioVars, amVars
<1>. QED  BY <1>1, <1>2

LEMMA RunTaskInv ==
  ASSUME IInv, RunTask /\ UNCHANGED <<radioVars, amVars>>
  PROVE  IInv'
<1>. USE DEF RunTask, msgVars, radioVars, amVars
<1>1. /\ FifoTypeOK'
      /\ running' \in Tasks
      /\ Queued("sendTask") <=> Queued("sendTask")' \/ Starting'
      /\ Once("sendTask")'
      /\ Starting' => ~Queued("sendTask")'
      /\ ~Starting
  <2>1. /\ FifoTypeOK'
        /\ running' \in Tasks
        /\ Queued("sendTask") <=> Queued("sendTask")' \/ "sendTask" = running'
        /\ Once("sendTask")'
        /\ "sendTask" = running' => ~Queued("sendTask")'
    BY RunQueue DEF IInv, TypeOK, MoteTypeOK, Token
  <2>2. ~Starting
    BY DEF IInv, Handlers, Starting, RunNext
  <2>. QED  BY <2>1, <2>2 DEF Starting
<1>2. TypeOK'
  BY <1>1 DEF IInv, TypeOK, MoteTypeOK, RadioTypeOK, AMTypeOK
<1>3. (InRadio' <=> InRadio) /\ (\A c : Signalled(c)' <=> Signalled(c))
  BY DEF InRadio, Signalled
<1>4. Token'
  BY <1>1, <1>3 DEF IInv, Token
<1>5. Owner'
  BY <1>3 DEF IInv, Owner
<1>6. Timing' /\ Handlers'
  BY <1>1, FifoAssumption DEF IInv, Timing, Handlers, RunNext
<1>. QED  BY <1>2, <1>4, <1>5, <1>6 DEF IInv

LEMMA PostOtherInv ==
  ASSUME IInv, \E t \in Tasks : PostOther(t) /\ UNCHANGED <<radioVars, amVars>>
  PROVE  IInv'
<1>1. PICK t \in Tasks \ RadioTasks :
        Post(t) /\ UNCHANGED <<running, at, isr, up, msgVars, radioVars, amVars>>
  BY DEF PostOther, Post
<1>2. /\ FifoTypeOK'
      /\ Queued("sendTask")' <=> Queued("sendTask")
      /\ Once("sendTask")'
  BY <1>1, PostQueue DEF IInv, TypeOK, MoteTypeOK, Token, RadioTasks
<1>3. TypeOK'
  BY <1>1, <1>2
     DEF IInv, TypeOK, MoteTypeOK, RadioTypeOK, AMTypeOK, msgVars, radioVars, amVars
<1>4. Token' /\ Owner'
  BY <1>1, <1>2, MessageStays DEF InRadio, Starting, msgVars, radioVars
<1>5. Timing' /\ Handlers'
  BY <1>1 DEF IInv, Timing, Handlers, radioVars
<1>. QED  BY <1>3, <1>4, <1>5 DEF IInv

LEMMA FIFOPDataInv ==
  ASSUME IInv, FIFOPData /\ UNCHANGED amVars
  PROVE  IInv'
<1>. USE DEF FIFOPData
<1>1. "PacketRcvd" \in Tasks
  BY MoteAssumption DEF RadioTasks
<1>2. /\ FifoTypeOK'
      /\ Queued("sendTask")' <=> Queued("sendTask")
      /\ Once("sendTask")'
      /\ UNCHANGED running
  BY <1>1, PostQueue DEF IInv, TypeOK, MoteTypeOK, Token, Post
<1>3. TypeOK'
  BY <1>2 DEF IInv, TypeOK, MoteTypeOK, RadioTypeOK, AMTypeOK, msgVars, amVars
<1>4. Token' /\ Owner'
  BY <1>2, MessageStays DEF InRadio, Starting, msgVars
<1>5. Timing' /\ Handlers'
  BY <1>2 DEF IInv, Timing, Handlers
<1>. QED  BY <1>3, <1>4, <1>5 DEF IInv

LEMMA FIFOPAckInv ==
  ASSUME IInv, \E d \in Dsns : FIFOPAck(d) /\ UNCHANGED amVars
  PROVE  IInv'
<1>. USE DEF FIFOPAck
<1>1. "PacketSent" \in Tasks
  BY MoteAssumption DEF RadioTasks
<1>2. /\ FifoTypeOK'
      /\ Queued("sendTask")' <=> Queued("sendTask")
      /\ Once("sendTask")'
      /\ UNCHANGED running
  BY <1>1, PostQueue, SameQueue DEF IInv, TypeOK, MoteTypeOK, Token, Post, FifoTypeOK
<1>3. TypeOK'
  <2>1. MoteTypeOK' /\ AMTypeOK'
    BY <1>2 DEF IInv, TypeOK, MoteTypeOK, AMTypeOK, amVars
  <2>2. bSet' \in BOOLEAN /\ airAcks' \subseteq Dsns
    BY DEF IInv, TypeOK, RadioTypeOK
  <2>3. RadioTypeOK'
    BY <2>2 DEF IInv, TypeOK, RadioTypeOK
  <2>. QED  BY <2>1, <2>3 DEF TypeOK
<1>4. Token' /\ Owner'
  BY <1>2, MessageStays DEF InRadio, Starting
<1>5. Timing' /\ Handlers'
  BY <1>2 DEF IInv, Timing, Handlers
<1>. QED  BY <1>3, <1>4, <1>5 DEF IInv

LEMMA EventReturnsInv ==
  ASSUME IInv, NEW c \in Contexts, EventReturns(c) /\ UNCHANGED <<radioVars, amVars>>
  PROVE  IInv'
<1>. USE DEF EventReturns, ClientEvent, msgVars, radioVars, amVars
<1>1. /\ up' \in [Contexts -> Events \cup {NoEvent}]
      /\ up'[c] = NoEvent
      /\ \A d \in Contexts \ {c} : up'[d] = up[d]
  BY DEF IInv, TypeOK, MoteTypeOK
<1>2. \A d \in Contexts : Signalled(d)' <=> Signalled(d)
  BY <1>1 DEF Signalled
<1>3. \A d \in Contexts : Signalled(d) => up'[d] = up[d]
  BY <1>1 DEF Signalled
<1>4. TypeOK'
  BY <1>1 DEF IInv, TypeOK, MoteTypeOK, RadioTypeOK, AMTypeOK, FifoTypeOK
<1>5. Token'
  BY <1>2, SameQueue DEF IInv, Token, Contexts, InRadio, Starting
<1>6. Owner'
  BY <1>2, <1>3 DEF IInv, Owner, InRadio
<1>7. Timing' /\ Handlers'
  BY <1>1 DEF IInv, Timing, Handlers, Contexts
<1>. QED  BY <1>4, <1>5, <1>6, <1>7 DEF IInv

LEMMA SendMsg_sendInv ==
  ASSUME IInv, NEW m \in Messages, NEW to \in Destinations, SendMsg_send(m, to)
  PROVE  IInv'
<1>. USE DEF SendMsg_send
<1>1. CASE ~state /\ HasRoom
  <2>1. "sendTask" \in Tasks
    BY MoteAssumption DEF RadioTasks
  <2>2. /\ ~Queued("sendTask") /\ ~Starting /\ ~InRadio
        /\ ~Signalled("task") /\ ~Signalled("interrupt")
    BY <1>1 DEF IInv, Token
  <2>3. /\ FifoTypeOK'
        /\ Queued("sendTask")'
        /\ Once("sendTask")'
        /\ UNCHANGED running
    BY <1>1, <2>1, <2>2, PostQueue DEF IInv, TypeOK, MoteTypeOK, Token, Post
  <2>4. ~Starting' /\ ~InRadio' /\ ~Signalled("task")' /\ ~Signalled("interrupt")'
    BY <2>2, <2>3 DEF Starting, InRadio, Signalled, radioVars
  <2>5. \A n \in Messages : owed[n] = 0 /\ framed[n] = 0
    BY <1>1, <2>2 DEF IInv, Owner
  <2>6. /\ owed' \in [Messages -> 0 .. 1]
        /\ \A n \in Messages : owed'[n] = IF n = m THEN 1 ELSE 0
    BY <1>1, <2>5 DEF IInv, TypeOK, AMTypeOK
  <2>7. /\ framed' \in [Messages -> 0 .. 1]
        /\ \A n \in Messages : framed'[n] = 0
        /\ addr' \in [Messages -> Destinations]
    BY <1>1, <2>5 DEF IInv, TypeOK, MoteTypeOK
  <2>8. TypeOK'
    BY <1>1, <2>3, <2>6, <2>7
       DEF IInv, TypeOK, MoteTypeOK, RadioTypeOK, AMTypeOK, radioVars
  <2>9. Token' /\ Owner'
    BY <1>1, <2>3, <2>4, <2>6, <2>7 DEF Token, Owner, Contexts
  <2>10. Timing' /\ Handlers'
    BY <2>3 DEF IInv, Timing, Handlers, radioVars
  <2>. QED  BY <2>8, <2>9, <2>10 DEF IInv
<1>2. CASE ~(~state /\ HasRoom)
  <2>1. UNCHANGED <<tasks, running, at, isr, up, msgVars, radioVars, amVars>>
    BY <1>2 DEF msgVars
  <2>. QED
    BY <2>1, SameQueue
       DEF IInv, TypeOK, MoteTypeOK, RadioTypeOK, AMTypeOK, FifoTypeOK, Token,
       Starting, InRadio, Signalled, Owner, Timing, Handlers, msgVars, radioVars, amVars
<1>. QED  BY <1>1, <1>2

LEMMA SendTaskAcceptedInv ==
  ASSUME IInv, SendTaskAccepted
  PROVE  IInv'
<1>. USE DEF SendTaskAccepted, SendBegin, TaskAt, amVars
<1>1. /\ state = TRUE /\ buffer \in Messages
      /\ ~Queued("sendTask") /\ ~InRadio
      /\ ~Signalled("task") /\ ~Signalled("interrupt")
  BY DEF IInv, Token, Owner, Starting, InRadio, TxSequence, TypeOK, AMTypeOK
<1>2. /\ ~Queued("sendTask")' /\ Once("sendTask")'
      /\ InRadio' /\ ~Starting'
      /\ ~Signalled("task")' /\ ~Signalled("interrupt")'
  BY <1>1, SameQueue DEF IInv, Token, Starting, InRadio, TxSequence, Signalled
<1>3. Token'
  BY <1>1, <1>2 DEF Token
<1>4. /\ framed' \in [Messages -> 0 .. 1]
      /\ \A m \in Messages : framed'[m] = IF m = buffer THEN 1 ELSE 0
  BY <1>1 DEF IInv, Owner, TypeOK, MoteTypeOK
<1>5. Owner'
  BY <1>1, <1>2, <1>4 DEF IInv, Owner, Contexts
<1>6. TypeOK'
  <2>1. MoteTypeOK' /\ AMTypeOK'
    BY <1>4 DEF IInv, TypeOK, MoteTypeOK, AMTypeOK, FifoTypeOK
  <2>2. currentDSN' \in Dsns
    BY RadioAssumption DEF IInv, TypeOK, RadioTypeOK, Dsns
  <2>3. RadioTypeOK'
    BY <1>1, <2>2 DEF IInv, TypeOK, RadioTypeOK, TxSequence
  <2>. QED  BY <2>1, <2>3 DEF TypeOK
<1>7. Timing' /\ Handlers'
  BY DEF IInv, Timing, Handlers
<1>. QED  BY <1>3, <1>5, <1>6, <1>7 DEF IInv

LEMMA SendTaskRefusedInv ==
  ASSUME IInv, SendTaskRefused
  PROVE  IInv'
<1>. USE DEF SendTaskRefused, TaskAt, msgVars, radioVars, amVars
<1>1. /\ state = TRUE /\ buffer \in Messages
      /\ ~Queued("sendTask") /\ ~InRadio
      /\ ~Signalled("task") /\ ~Signalled("interrupt")
  BY DEF IInv, Token, Owner, Starting, InRadio, TypeOK, AMTypeOK
<1>2. MoteTypeOK /\ "task" \in Contexts
  BY DEF IInv, TypeOK, Contexts
<1>3. /\ up' \in [Contexts -> Events \cup {NoEvent}]
      /\ Signalled("task")'
      /\ up'["task"].message = buffer
      /\ \A d \in Contexts \ {"task"} : up'[d] = up[d]
  BY <1>1, <1>2, SignalFacts
<1>4. /\ ~Queued("sendTask")' /\ Once("sendTask")'
      /\ ~InRadio' /\ ~Starting' /\ ~Signalled("interrupt")'
  BY <1>1, <1>3, SameQueue DEF IInv, Token, Starting, InRadio, Signalled, Contexts
<1>5. Token' /\ Owner'
  BY <1>1, <1>3, <1>4 DEF IInv, Token, Owner, Contexts
<1>6. TypeOK'
  BY <1>3 DEF IInv, TypeOK, MoteTypeOK, RadioTypeOK, AMTypeOK, FifoTypeOK
<1>7. Timing' /\ Handlers'
  BY <1>3 DEF IInv, Timing, Handlers, Contexts
<1>. QED  BY <1>5, <1>6, <1>7 DEF IInv

LEMMA reportSendDoneInv ==
  ASSUME IInv, NEW c \in Contexts, reportSendDone(c)
  PROVE  IInv'
<1>. USE DEF reportSendDone, msgVars, radioVars, amVars
<1>1. /\ Signalled(c) /\ state = TRUE /\ buffer \in Messages
      /\ ~Queued("sendTask") /\ ~InRadio /\ ~Starting
      /\ up[c].message = buffer
      /\ \A d \in Contexts \ {c} : ~Signalled(d)
  BY DEF IInv, Token, Owner, Signalled, Contexts, TypeOK, AMTypeOK
<1>2. up[c] \in Events /\ up \in [Contexts -> Events \cup {NoEvent}]
  BY <1>1 DEF Signalled, IInv, TypeOK, MoteTypeOK
<1>3. Delivered(up[c]) \in Events /\ Delivered(up[c]).delivered
  BY <1>2 DEF Delivered, Events
<1>4. /\ up' \in [Contexts -> Events \cup {NoEvent}]
      /\ up'[c] = Delivered(up[c])
      /\ \A d \in Contexts \ {c} : up'[d] = up[d]
  BY <1>2, <1>3
<1>5. \A d \in Contexts : ~Signalled(d)'
  BY <1>1, <1>3, <1>4 DEF Signalled
<1>6. /\ ~Queued("sendTask")' /\ Once("sendTask")'
      /\ ~InRadio' /\ ~Starting'
  BY <1>1, SameQueue DEF IInv, Token, Starting, InRadio
<1>7. Token'
  BY <1>5, <1>6 DEF Token, Contexts
<1>8. /\ owed' \in [Messages -> 0 .. 1]
      /\ \A m \in Messages : owed'[m] = 0
  BY <1>1 DEF IInv, Owner, TypeOK, AMTypeOK
<1>9. Owner'
  BY <1>1, <1>5, <1>6, <1>8 DEF IInv, Owner
<1>10. TypeOK'
  <2>1. MoteTypeOK' /\ RadioTypeOK'
    BY <1>4 DEF IInv, TypeOK, MoteTypeOK, RadioTypeOK, FifoTypeOK
  <2>2. AMTypeOK'
    BY <1>8 DEF IInv, TypeOK, AMTypeOK
  <2>. QED  BY <2>1, <2>2 DEF TypeOK
<1>11. Timing' /\ Handlers'
  BY <1>1, <1>4 DEF IInv, Timing, Handlers, Contexts, Signalled
<1>. QED  BY <1>7, <1>9, <1>10, <1>11 DEF IInv

(* fSendAborted of a message in the radio.                                  *)
LEMMA AbortFacts ==
  ASSUME IInv, InRadio, NEW s \in TxSequence, fSendAborted(s),
         UNCHANGED <<tasks, running, at, txbufptr, amVars>>
  PROVE  /\ isr' = "abort" /\ RadioState' = "IDLE"
         /\ up' \in [Contexts -> Events \cup {NoEvent}]
         /\ up'["task"] = up["task"]
         /\ framed' \in [Messages -> 0 .. 1]
         /\ Token' /\ Owner'
<1>1. /\ isr' = "abort" /\ RadioState' = "IDLE" /\ ~InRadio'
      /\ framed' = Restored(txbufptr)
      /\ Signal("interrupt", txbufptr, FALSE)
  BY DEF fSendAborted, InRadio, TxSequence
<1>2. ~Queued("sendTask")' /\ Once("sendTask")' /\ ~Starting'
  BY InRadioFacts, SameQueue DEF IInv, Token, Starting
<1>3. "interrupt" \in Contexts /\ FALSE \in BOOLEAN /\ "task" \in Contexts \ {"interrupt"}
  BY DEF Contexts
<1>4. UNCHANGED <<txbufptr, amVars>>
  OBVIOUS
<1>. QED  BY <1>1, <1>2, <1>3, <1>4, MessageLeaves

(* Any step of the handler that calls it.                                   *)
LEMMA AbortInv ==
  ASSUME IInv, InRadio, NEW s \in TxSequence, fSendAborted(s),
         UNCHANGED <<tasks, running, at, addr, txbufptr, amVars>>,
         ack' \in [Messages -> BOOLEAN],
         RadioTypeOK', stateTimer' \notin {"INITIAL", "BACKOFF"}
  PROVE  IInv'
<1>1. /\ isr' = "abort" /\ RadioState' = "IDLE"
      /\ up' \in [Contexts -> Events \cup {NoEvent}]
      /\ up'["task"] = up["task"]
      /\ framed' \in [Messages -> 0 .. 1]
      /\ Token' /\ Owner'
  BY AbortFacts
<1>2. TypeOK'
  BY <1>1 DEF IInv, TypeOK, MoteTypeOK, AMTypeOK, FifoTypeOK, amVars
<1>3. Timing' /\ Handlers'
  BY <1>1 DEF IInv, Timing, Handlers
<1>. QED  BY <1>1, <1>2, <1>3 DEF IInv

LEMMA sendPacketInv ==
  ASSUME IInv, InRadio, RadioState \in {"PRE_TX", "TX"},
         NEW s \in {"PRE_TX", "TX"}, NEW outcome \in Outcomes, NEW receiving \in BOOLEAN,
         sendPacket(outcome, s, receiving), IsrAt("fired"),
         UNCHANGED <<tasks, running, at, addr, cnttryToSend, currentDSN, txbufptr,
                     bRxBufLocked, airAcks, answered, amVars>>
  PROVE  IInv'
<1>1. CASE outcome = "inactive"
  <2>1. /\ RadioState' = s /\ stateTimer' = "BACKOFF" /\ isr' = "none"
        /\ bSet' = TRUE /\ fifop' = receiving
        /\ UNCHANGED <<up, ack, framed>>
    BY <1>1 DEF sendPacket
  <2>2. InRadio' /\ (Starting' <=> Starting)
    BY <2>1 DEF InRadio, Starting, TxSequence
  <2>3. Token' /\ Owner'
    BY <2>1, <2>2, MessageStays, SameQueue DEF IInv, Token
  <2>4. TypeOK'
    BY <2>1
       DEF IInv, TypeOK, MoteTypeOK, RadioTypeOK, AMTypeOK, FifoTypeOK, amVars,
           TxSequence
  <2>5. Timing' /\ Handlers'
    BY <2>1 DEF IInv, Timing, Handlers, IsrAt
  <2>. QED  BY <2>3, <2>4, <2>5 DEF IInv
<1>2. CASE outcome = "stuck"
  <2>1. /\ fSendAborted(s) /\ stateTimer' = "IDLE" /\ fifop' = FALSE
        /\ UNCHANGED <<ack, bSet>>
    BY <1>2 DEF sendPacket
  <2>2. s \in TxSequence /\ RadioState' = "IDLE"
    BY <2>1 DEF TxSequence, fSendAborted
  <2>3. RadioTypeOK' /\ ack' \in [Messages -> BOOLEAN]
    BY <2>1, <2>2 DEF IInv, TypeOK, MoteTypeOK, RadioTypeOK
  <2>. QED  BY <2>1, <2>2, <2>3, AbortInv
<1>3. CASE outcome = "sent"
  <2>1. /\ RadioState' = "POST_TX" /\ stateTimer' = "IDLE" /\ isr' = "sent"
        /\ fifop' = TRUE
        /\ ack' = [ack EXCEPT ![txbufptr] = TRUE]
        /\ UNCHANGED <<bSet, up, framed>>
    BY <1>3 DEF sendPacket
  <2>2. InRadio' /\ (Starting' <=> Starting)
    BY <2>1 DEF InRadio, Starting, TxSequence
  <2>3. Token' /\ Owner'
    BY <2>1, <2>2, MessageStays, SameQueue DEF IInv, Token
  <2>4. TypeOK'
    BY <2>1, ZenonT(60)
       DEF IInv, TypeOK, MoteTypeOK, RadioTypeOK, AMTypeOK, FifoTypeOK, amVars,
           TxSequence
  <2>5. Timing' /\ Handlers'
    BY <2>1 DEF IInv, Timing, Handlers, IsrAt
  <2>. QED  BY <2>3, <2>4, <2>5 DEF IInv
<1>. QED  BY <1>1, <1>2, <1>3 DEF Outcomes

LEMMA InitialFiredInv ==
  ASSUME IInv, LoadCanFail = FALSE,
         \E o \in Outcomes \cup {"notLoaded"} : InitialFired(o) /\ UNCHANGED amVars
  PROVE  IInv'
<1>1. PICK o \in Outcomes \cup {"notLoaded"} : InitialFired(o) /\ UNCHANGED amVars
  OBVIOUS
<1>2. o \in Outcomes /\ sendPacket(o, RadioState, TRUE)
  BY <1>1 DEF InitialFired
<1>3. RadioState \in {"PRE_TX", "TX"} /\ InRadio
  BY <1>1 DEF InitialFired, IInv, Timing, InRadio, TxSequence
<1>. QED  BY <1>1, <1>2, <1>3, sendPacketInv DEF InitialFired

LEMMA ClearChannelInv ==
  ASSUME IInv, NEW o \in Outcomes, ClearChannel(o), UNCHANGED amVars
  PROVE  IInv'
<1>1. RadioState \in {"PRE_TX", "TX"} /\ InRadio /\ sendPacket(o, "TX", FALSE)
  BY DEF ClearChannel, InRadio, TxSequence
<1>. QED  BY <1>1, sendPacketInv DEF ClearChannel

LEMMA BusyChannelInv ==
  ASSUME IInv, BusyChannel, UNCHANGED amVars
  PROVE  IInv'
<1>. USE DEF BusyChannel
<1>1. InRadio /\ RadioState \in {"PRE_TX", "TX"}
  BY DEF InRadio, TxSequence
<1>2. cnttryToSend' \in 0 .. ByteMod - 1
  BY RadioAssumption DEF CountDown, IInv, TypeOK, RadioTypeOK
<1>3. CASE OutOfRetries
  <2>1. RadioState \in TxSequence /\ fSendAborted(RadioState) /\ RadioState' = "IDLE"
    BY <1>1, <1>3 DEF TxSequence, fSendAborted
  <2>2. RadioTypeOK' /\ ack' \in [Messages -> BOOLEAN]
    BY <1>2, <1>3, <2>1 DEF IInv, TypeOK, MoteTypeOK, RadioTypeOK
  <2>3. stateTimer' \notin {"INITIAL", "BACKOFF"}
    BY <1>3
  <2>. QED  BY <1>1, <2>1, <2>2, <2>3, AbortInv
<1>4. CASE ~OutOfRetries
  <2>1. /\ stateTimer' = "BACKOFF" /\ bSet' = TRUE /\ isr' = "none"
        /\ UNCHANGED <<RadioState, up, framed>>
    BY <1>4
  <2>2. InRadio' /\ (Starting' <=> Starting)
    BY <1>1, <2>1 DEF InRadio, Starting
  <2>3. Token' /\ Owner'
    BY <1>1, <2>1, <2>2, MessageStays, SameQueue DEF IInv, Token
  <2>4. TypeOK'
    BY <1>2, <2>1 DEF IInv, TypeOK, MoteTypeOK, RadioTypeOK, AMTypeOK, FifoTypeOK, amVars
  <2>5. Timing' /\ Handlers'
    BY <1>1, <2>1 DEF IInv, Timing, Handlers, IsrAt
  <2>. QED  BY <2>3, <2>4, <2>5 DEF IInv
<1>. QED  BY <1>3, <1>4

(* posting PacketSent, whatever becomes of it.                              *)
LEMMA PostPacketSentInv ==
  ASSUME IInv, RadioState = "POST_TX", up["interrupt"] = NoEvent, PostPacketSent,
         UNCHANGED <<at, addr, bSet, cnttryToSend, currentDSN, txbufptr,
                     bRxBufLocked, fifop, airAcks, answered, amVars>>,
         ack' \in [Messages -> BOOLEAN],
         stateTimer' \in {"IDLE", "ACK", stateTimer}
  PROVE  IInv'
<1>1. InRadio /\ RadioState \in TxSequence
  BY DEF InRadio, TxSequence
<1>2. stateTimer' \notin {"INITIAL", "BACKOFF"} /\ stateTimer' \in {"IDLE", "ACK"}
  BY DEF IInv, Timing, TypeOK, RadioTypeOK
<1>3. CASE HasRoom
  <2>1. Post("PacketSent") /\ isr' = "none" /\ UNCHANGED <<up, framed, RadioState>>
    BY <1>3 DEF PostPacketSent
  <2>2. /\ FifoTypeOK'
        /\ Queued("sendTask")' <=> Queued("sendTask")
        /\ Once("sendTask")'
        /\ UNCHANGED running
    BY <2>1, PostQueue, MoteAssumption
       DEF RadioTasks, IInv, TypeOK, MoteTypeOK, Token, Post
  <2>3. InRadio' /\ (Starting' <=> Starting)
    BY <1>1, <2>1, <2>2 DEF InRadio, Starting
  <2>4. Token' /\ Owner'
    BY <1>1, <2>1, <2>2, <2>3, MessageStays
  <2>5. TypeOK'
    BY <1>2, <2>1, <2>2 DEF IInv, TypeOK, MoteTypeOK, RadioTypeOK, AMTypeOK, amVars
  <2>6. Timing' /\ Handlers'
    BY <1>2, <2>1, <2>2 DEF IInv, Timing, Handlers
  <2>. QED  BY <2>4, <2>5, <2>6 DEF IInv
<1>4. CASE ~HasRoom
  <2>1. fSendAborted(RadioState) /\ UNCHANGED <<tasks, running>> /\ RadioState' = "IDLE"
    BY <1>1, <1>4 DEF PostPacketSent, fSendAborted
  <2>2. RadioTypeOK'
    BY <1>2, <2>1 DEF IInv, TypeOK, RadioTypeOK
  <2>. QED  BY <1>1, <1>2, <2>1, <2>2, AbortInv
<1>. QED  BY <1>3, <1>4

LEMMA SentBroadcastInv ==
  ASSUME IInv, SentBroadcast, UNCHANGED amVars
  PROVE  IInv'
<1>1. RadioState = "POST_TX"
  BY DEF SentBroadcast, IsrAt, IInv, Handlers
<1>2. ack' \in [Messages -> BOOLEAN]
  BY DEF SentBroadcast, IInv, TypeOK, MoteTypeOK
<1>. QED  BY <1>1, <1>2, PostPacketSentInv DEF SentBroadcast, IsrAt

LEMMA AckFiredInv ==
  ASSUME IInv, AckFired, UNCHANGED amVars
  PROVE  IInv'
<1>1. ack' \in [Messages -> BOOLEAN]
  BY DEF AckFired, IInv, TypeOK, MoteTypeOK
<1>. QED  BY <1>1, PostPacketSentInv DEF AckFired, IsrAt
-----------------------------------------------------------------------------
LEMMA InitInv == LoadCanFail = FALSE /\ Init => IInv
<1>. SUFFICES ASSUME LoadCanFail = FALSE, Init PROVE IInv
  OBVIOUS
<1>. USE DEF Init, MoteInit, FifoInit, RadioInit
<1>1. \A u : ~Queued(u) /\ Once(u)
  BY DEF Queued, Once
<1>2. ~Starting /\ ~InRadio /\ \A c \in Contexts : up[c] = NoEvent
  BY FifoAssumption, MoteAssumption DEF Starting, RadioTasks, InRadio, TxSequence
<1>3. TypeOK
  <2>1. MoteTypeOK
    BY FifoAssumption DEF MoteTypeOK, FifoTypeOK, Destinations
  <2>2. RadioTypeOK
    <3>1. /\ bSet \in BOOLEAN /\ bRxBufLocked \in BOOLEAN
          /\ fifop \in BOOLEAN /\ answered \in BOOLEAN
      BY Zenon
    <3>2. cnttryToSend \in 0 .. ByteMod - 1 /\ currentDSN \in Dsns
      BY RadioAssumption DEF Dsns
    <3>. QED  BY <3>1, <3>2 DEF RadioTypeOK
  <2>3. AMTypeOK
    <3>1. state \in BOOLEAN
      BY Zenon
    <3>2. owed \in [Messages -> 0 .. 1]
      OBVIOUS
    <3>. QED  BY <3>1, <3>2 DEF AMTypeOK
  <2>. QED  BY <2>1, <2>2, <2>3 DEF TypeOK
<1>4. Token /\ Owner
  BY <1>1, <1>2 DEF Token, Owner, Signalled, Contexts
<1>5. Timing /\ Handlers
  BY <1>2 DEF Timing, Handlers, Contexts
<1>. QED  BY <1>3, <1>4, <1>5 DEF IInv

LEMMA TaskStepInv == IInv /\ TaskStep => IInv'
<1>. SUFFICES ASSUME IInv, TaskStep PROVE IInv'
  OBVIOUS
<1>1. "task" \in Contexts
  BY DEF Contexts
<1>. QED
  BY <1>1, RunTaskInv, TaskEndsInv, OtherTaskInv, OtherTaskDoneInv, EventReturnsInv,
     SendTaskAcceptedInv, SendTaskRefusedInv, SendArmInv, SendCountInv, PacketSentInv,
     PacketRcvdInv, ReceiveReturnsInv, reportSendDoneInv
  DEF TaskStep

LEMMA HandlerStepInv == IInv /\ LoadCanFail = FALSE /\ (HandlerStep \/ TimerStep) => IInv'
<1>. SUFFICES ASSUME IInv, LoadCanFail = FALSE, HandlerStep \/ TimerStep PROVE IInv'
  OBVIOUS
<1>1. "interrupt" \in Contexts /\ {"inactive", "stuck", "sent"} \subseteq Outcomes
  BY DEF Contexts, Outcomes
<1>. QED
  BY <1>1, InitialFiredInv, ClearChannelInv, BusyChannelInv, SentBroadcastInv,
     SentUnicastInv, SetAckTimerInv, AckFiredInv, StaleFiredInv, SendAbortedInv,
     reportSendDoneInv, EventReturnsInv, TimerFireInv
  DEF HandlerStep, Attempt, TimerStep

LEMMA EnvironmentStepInv == IInv /\ EnvironmentStep => IInv'
<1>. SUFFICES ASSUME IInv, EnvironmentStep PROVE IInv'
  OBVIOUS
<1>. QED
  BY PostOtherInv, SendMsg_sendInv, Control_stopInv, Control_startInv, FIFOPAckInv,
     FIFOPDataInv
  DEF EnvironmentStep, Destinations

LEMMA StutterInv == IInv /\ UNCHANGED vars => IInv'
BY SameQueue DEF IInv, TypeOK, MoteTypeOK, RadioTypeOK, AMTypeOK, FifoTypeOK, Token,
   Starting, InRadio, Signalled, Owner, Timing, Handlers, vars, moteVars, msgVars,
   radioVars, amVars

LEMMA StepInv == LoadCanFail = FALSE /\ IInv /\ [Next]_vars => IInv'
BY TaskStepInv, HandlerStepInv, EnvironmentStepInv, StutterInv DEF Next

Books == LoadCanFail = FALSE /\ IInv

LEMMA Invariance == LoadCanFail = FALSE /\ Safety => []Books
<1>1. LoadCanFail = FALSE /\ Init => Books
  BY InitInv DEF Books
<1>2. Books /\ [Next]_vars => Books'
  BY StepInv DEF Books
<1>. QED  BY <1>1, <1>2, PTL DEF Safety

(* No variable leaves its range: in particular cnttryToSend and currentDSN  *)
(* wrap inside it, and header and footer sizes are added to a length at     *)
(* most once.                                                               *)
THEOREM TypeCorrect == LoadCanFail = FALSE /\ Safety => []TypeOK
<1>1. Books => TypeOK
  BY DEF Books, IInv
<1>. QED  BY <1>1, Invariance, PTL

(* AM is never busy with a message that nothing will bring back             *)
(* (AMPromiscuous.nc SendMsg.send, sendTask, reportSendDone).               *)
THEOREM NoLostSendDoneAlways == LoadCanFail = FALSE /\ Safety => []NoLostSendDone
<1>1. Books => NoLostSendDone
  BY DEF Books, IInv, Token, NoLostSendDone, OnTheWay, OnTheWayBack, Starting,
         Signalled, Contexts
<1>. QED  BY <1>1, Invariance, PTL

(* sendDone is only signalled for the message AM is busy with, which is     *)
(* owed it (CC2420RadioM.nc immedPacketSent, fSendAborted).                 *)
THEOREM SendDoneOwedAlways == LoadCanFail = FALSE /\ Safety => []SendDoneOwed
<1>1. Books => SendDoneOwed
  <2>. SUFFICES ASSUME Books, NEW c \in Contexts, Signalled(c)
                PROVE  state /\ up[c].message = buffer /\ owed[buffer] = 1
    BY DEF SendDoneOwed, Signalled
  <2>1. state
    BY DEF Books, IInv, Token, Contexts
  <2>. QED  BY <2>1 DEF Books, IInv, Owner
<1>. QED  BY <1>1, Invariance, PTL

(* A buffer that the client has back has the length the client gave it      *)
(* (CC2420RadioM.nc Send.send, immedPacketSent, fSendAborted).              *)
THEOREM PayloadLengthAlways == LoadCanFail = FALSE /\ Safety => []PayloadLength
<1>1. Books => PayloadLength
  BY DEF Books, IInv, Token, Owner, PayloadLength
<1>. QED  BY <1>1, Invariance, PTL

(* A stopped radio has no transmission timer (CC2420RadioM.nc               *)
(* StdControl.stop, behind the test of state in AMPromiscuous.nc).          *)
THEOREM StoppedIsQuietAlways == LoadCanFail = FALSE /\ Safety => []StoppedIsQuiet
<1>1. Books => StoppedIsQuiet
  BY DEF Books, IInv, Timing, StoppedIsQuiet
<1>. QED  BY <1>1, Invariance, PTL

(* AM hands back what it accepted, once each and one at a time: the safety  *)
(* part of the split-phase contract, for every number of messages.          *)
THEOREM ImplementsSplitPhase == LoadCanFail = FALSE /\ Safety => Contract!SplitSafety
<1>1. Init => Contract!SplitInit
  BY DEF Init, Contract!SplitInit
<1>2. Books /\ [Next]_vars => [Contract!SplitNext]_owed
  <2>. SUFFICES ASSUME IInv, [Next]_vars, owed' # owed
                PROVE  Contract!SplitNext
    BY DEF Books
  <2>1. \/ \E m \in Messages, to \in Destinations : SendMsg_send(m, to)
        \/ \E c \in Contexts : reportSendDone(c)
    BY DEF Next, TaskStep, HandlerStep, TimerStep, EnvironmentStep, Attempt, vars, amVars,
       SendTaskAccepted, SendTaskRefused, Control_stop, Control_start, Contexts, Destinations
  <2>2. ASSUME NEW m \in Messages, NEW to \in Destinations, SendMsg_send(m, to)
        PROVE  Contract!Accept(m)
    <3>1. ~state /\ owed' = [owed EXCEPT ![m] = @ + 1]
      BY <2>2 DEF SendMsg_send, amVars
    <3>2. \A n \in Messages : owed[n] = 0
      BY <3>1 DEF IInv, Owner
    <3>3. owed' = [owed EXCEPT ![m] = 1]
      <4>1. owed[m] + 1 = 1
        BY <3>2
      <4>. QED  BY <3>1, <4>1, Zenon
    <3>. QED  BY <3>2, <3>3 DEF Contract!Accept
  <2>3. ASSUME NEW c \in Contexts, reportSendDone(c)
        PROVE  buffer \in Messages /\ Contract!SendDone(buffer)
    <3>1. Signalled(c) /\ owed' = [owed EXCEPT ![up[c].message] = @ - 1]
      BY <2>3 DEF reportSendDone, Signalled
    <3>2. state /\ up[c].message = buffer
      BY <3>1 DEF IInv, Token, Owner, Contexts
    <3>3. buffer \in Messages /\ owed[buffer] = 1
      BY <3>2 DEF IInv, Owner
    <3>. QED  BY <3>1, <3>2, <3>3 DEF Contract!SendDone, IInv, TypeOK, AMTypeOK
  <2>. QED  BY <2>1, <2>2, <2>3 DEF Contract!SplitNext
<1>. QED  BY <1>1, <1>2, Invariance, PTL DEF Safety, Contract!SplitSafety
-----------------------------------------------------------------------------
(* What the invariants that follow need is little of the above: they hold   *)
(* whether or not the TXFIFO can be loaded.                                 *)

(* The steps that matter to the receive buffer: all others leave it and     *)
(* the place of PacketRcvd alone, but for its own first part.               *)
ReceiveStep ==
  \/ RunTask /\ UNCHANGED bRxBufLocked
  \/ TaskEnds /\ UNCHANGED bRxBufLocked
  \/ ReceiveReturns
  \/ FIFOPData
  \/ \E t \in Tasks \ {"PacketRcvd"} : Post(t) /\ UNCHANGED <<at, bRxBufLocked>>
  \/ /\ UNCHANGED <<tasks, running, bRxBufLocked>>
     /\ running = "PacketRcvd" => at' = at \/ (at = "start" /\ at' = "client")

LEMMA ReceiveSteps == [Next]_vars => ReceiveStep
<1>. SUFFICES ASSUME [Next]_vars PROVE ReceiveStep
  OBVIOUS
<1>. USE MoteAssumption
     DEF ReceiveStep, RadioTasks, msgVars, moteVars, radioVars, amVars
<1>1. CASE TaskStep
  BY <1>1
  DEF TaskStep, OtherTask, OtherTaskDone, EventReturns, SendTaskAccepted, SendTaskRefused,
      SendArm, SendCount, PacketSent, PacketRcvd, reportSendDone, TaskAt, SendBegin
<1>2. CASE HandlerStep
  BY <1>2
  DEF HandlerStep, Attempt, InitialFired, ClearChannel, BusyChannel, SentBroadcast,
      SentUnicast, SetAckTimer, AckFired, StaleFired, SendAborted, reportSendDone,
      EventReturns, PostPacketSent, Post
<1>3. CASE TimerStep
  BY <1>3 DEF TimerStep, TimerFire
<1>4. CASE EnvironmentStep
  BY <1>4
  DEF EnvironmentStep, PostOther, SendMsg_send, Control_stop, Control_start, RadioStop,
      RadioStart, FIFOPAck, Post
<1>5. CASE UNCHANGED vars
  BY <1>5 DEF vars
<1>. QED  BY <1>1, <1>2, <1>3, <1>4, <1>5 DEF Next

(* One PacketRcvd owns the receive buffer.                                  *)
RcvInv == FifoTypeOK /\ OnePacketRcvd

LEMMA RcvStep == RcvInv /\ [Next]_vars => RcvInv'
<1>. SUFFICES ASSUME RcvInv, ReceiveStep PROVE RcvInv'
  BY ReceiveSteps
<1>. USE DEF RcvInv, OnePacketRcvd, PacketRcvdHolds
<1>1. CASE RunTask /\ UNCHANGED bRxBufLocked
  <2>1. /\ FifoTypeOK' /\ running = NoTask /\ NoTask \notin Tasks
        /\ running' \in Tasks
        /\ Queued("PacketRcvd") <=> Queued("PacketRcvd")' \/ running' = "PacketRcvd"
        /\ Once("PacketRcvd")' /\ (running' = "PacketRcvd" => ~Queued("PacketRcvd")')
    BY <1>1, RunQueue, FifoAssumption DEF RunTask, RunNext
  <2>. QED  BY <1>1, <2>1, MoteAssumption DEF RunTask, RadioTasks
<1>2. CASE TaskEnds /\ UNCHANGED bRxBufLocked
  BY <1>2, SameQueue, FifoAssumption, MoteAssumption
  DEF TaskEnds, TaskReturns, RadioTasks, FifoTypeOK
<1>3. CASE ReceiveReturns
  BY <1>3, SameQueue DEF ReceiveReturns, ClientTask, FifoTypeOK
<1>4. CASE FIFOPData
  <2>1. "PacketRcvd" \in Tasks /\ Post("PacketRcvd") /\ UNCHANGED <<at, running>>
        /\ ~bRxBufLocked /\ bRxBufLocked'
    BY <1>4, MoteAssumption DEF FIFOPData, RadioTasks, Post
  <2>2. FifoTypeOK' /\ Queued("PacketRcvd")' /\ Once("PacketRcvd")'
    BY <2>1, PostQueue
  <2>. QED  BY <2>1, <2>2
<1>5. CASE \E t \in Tasks \ {"PacketRcvd"} : Post(t) /\ UNCHANGED <<at, bRxBufLocked>>
  <2>1. PICK t \in Tasks \ {"PacketRcvd"} : Post(t) /\ UNCHANGED <<at, running, bRxBufLocked>>
    BY <1>5 DEF Post
  <2>2. /\ FifoTypeOK' /\ Once("PacketRcvd")'
        /\ Queued("PacketRcvd")' <=> Queued("PacketRcvd")
    BY <2>1, PostQueue
  <2>. QED  BY <2>1, <2>2
<1>6. CASE /\ UNCHANGED <<tasks, running, bRxBufLocked>>
           /\ running = "PacketRcvd" => at' = at \/ (at = "start" /\ at' = "client")
  BY <1>6, SameQueue DEF FifoTypeOK
<1>. QED  BY <1>1, <1>2, <1>3, <1>4, <1>5, <1>6 DEF ReceiveStep

(* The receive buffer is locked exactly while one PacketRcvd owns it, so a  *)
(* frame never replaces one that waits and the buffer is always freed       *)
(* (CC2420RadioM.nc FIFOPIntr, delayedRXFIFO, immedPacketRcvd).             *)
THEOREM OnePacketRcvdAlways == Safety => []OnePacketRcvd
<1>1. Init => RcvInv
  BY FifoAssumption, MoteAssumption
  DEF Init, MoteInit, FifoInit, RadioInit, RcvInv, FifoTypeOK, OnePacketRcvd,
      PacketRcvdHolds, Queued, Once, RadioTasks
<1>2. RcvInv /\ [Next]_vars => RcvInv'
  BY RcvStep
<1>3. RcvInv => OnePacketRcvd
  BY DEF RcvInv
<1>. QED  BY <1>1, <1>2, <1>3, PTL DEF Safety

(* A radio that is idle or waits for an ack hears, but for the handler that *)
(* has just given up a transmission and is about to enable FIFOP.           *)
Hearing == RadioState \in {"IDLE", "POST_TX"} /\ isr # "abort" => fifop

LEMMA HearingStep == Hearing /\ [Next]_vars => Hearing'
<1>. SUFFICES ASSUME Hearing, [Next]_vars PROVE Hearing'
  OBVIOUS
<1>. USE DEF Hearing, msgVars, moteVars, radioVars, amVars
<1>1. CASE TaskStep
  BY <1>1
  DEF TaskStep, RunTask, TaskEnds, OtherTask, OtherTaskDone, EventReturns,
      SendTaskAccepted, SendTaskRefused, SendArm, SendCount, PacketSent, PacketRcvd,
      ReceiveReturns, reportSendDone, TaskAt, SendBegin
<1>2. CASE HandlerStep
  <2>1. CASE \E o \in Outcomes \cup {"notLoaded"} : InitialFired(o) /\ UNCHANGED amVars
    BY <2>1 DEF InitialFired, sendPacket, fSendAborted, Outcomes, IsrAt
  <2>2. CASE \E o \in Outcomes : ClearChannel(o) /\ UNCHANGED amVars
    BY <2>2 DEF ClearChannel, sendPacket, fSendAborted, Outcomes, IsrAt
  <2>3. CASE BusyChannel \/ SentBroadcast \/ AckFired
    BY <2>3 DEF BusyChannel, SentBroadcast, AckFired, PostPacketSent, fSendAborted, IsrAt
  <2>. QED
    BY <1>2, <2>1, <2>2, <2>3
    DEF HandlerStep, Attempt, Outcomes, SentUnicast, SetAckTimer, StaleFired,
        SendAborted, reportSendDone, EventReturns, IsrAt
<1>3. CASE TimerStep
  BY <1>3 DEF TimerStep, TimerFire
<1>4. CASE EnvironmentStep
  BY <1>4
  DEF EnvironmentStep, PostOther, SendMsg_send, Control_stop, Control_start, RadioStop,
      RadioStart, FIFOPAck, FIFOPData
<1>5. CASE UNCHANGED vars
  BY <1>5 DEF vars
<1>. QED  BY <1>1, <1>2, <1>3, <1>4, <1>5 DEF Next

(* No way to give a transmission up leaves an idle radio deaf               *)
(* (CC2420RadioM.nc sendPacket, fSendAborted, StdControl.start).            *)
THEOREM NotDeafAlways == Safety => []NotDeaf
<1>1. Init => Hearing
  BY DEF Init, RadioInit, Hearing
<1>2. Hearing /\ [Next]_vars => Hearing'
  BY HearingStep
<1>3. Hearing => NotDeaf
  BY DEF Hearing, NotDeaf
<1>. QED  BY <1>1, <1>2, <1>3, PTL DEF Safety

(* Once Send.send has set it, the counter does not exceed SEND_RETRY_COUNT  *)
(* in the radio, not even while the handler runs.                           *)
Retries ==
  /\ cnttryToSend \in 0 .. ByteMod - 1
  /\ RadioState \in {"PRE_TX", "TX"} /\ at \notin {"arm", "count"} =>
       cnttryToSend <= RetryCount
  /\ at \in {"arm", "count"} => running = "sendTask"

LEMMA RetriesStep == Retries /\ [Next]_vars => Retries'
<1>. SUFFICES ASSUME Retries, [Next]_vars PROVE Retries'
  OBVIOUS
<1>. USE DEF Retries, msgVars, moteVars, radioVars, amVars
<1>1. CASE TaskStep
  <2>1. CASE RunTask /\ UNCHANGED <<radioVars, amVars>>
    <3>1. at' \notin {"arm", "count"} /\ at \notin {"arm", "count"}
      BY <2>1, MoteAssumption, FifoAssumption DEF RunTask, RunNext, RadioTasks
    <3>. QED  BY <2>1, <3>1 DEF RunTask
  <2>2. CASE SendTaskAccepted
    BY <2>2 DEF SendTaskAccepted, SendBegin, TaskAt
  <2>3. CASE SendArm \/ SendCount
    BY <2>3, RadioAssumption DEF SendArm, SendCount, TaskAt
  <2>. QED
    BY <1>1, <2>1, <2>2, <2>3
    DEF TaskStep, TaskEnds, OtherTask, OtherTaskDone, EventReturns, SendTaskRefused,
        PacketSent, PacketRcvd, ReceiveReturns, ClientTask, reportSendDone, TaskAt
<1>2. CASE HandlerStep
  <2>1. CASE \E o \in Outcomes \cup {"notLoaded"} : InitialFired(o) /\ UNCHANGED amVars
    BY <2>1 DEF InitialFired, sendPacket, fSendAborted, Outcomes, TxSequence
  <2>2. CASE \E o \in Outcomes : ClearChannel(o) /\ UNCHANGED amVars
    BY <2>2 DEF ClearChannel, sendPacket, fSendAborted, Outcomes, TxSequence
  <2>3. CASE BusyChannel
    <3>1. CASE cnttryToSend = 0
      <4>1. /\ RadioState' = "IDLE" /\ cnttryToSend' = CountDown
            /\ UNCHANGED <<running, at>>
        BY <2>3, <3>1 DEF BusyChannel, OutOfRetries, fSendAborted, TxSequence
      <4>2. CountDown \in 0 .. ByteMod - 1
        BY RadioAssumption DEF CountDown
      <4>. QED  BY <4>1, <4>2
    <3>2. CASE cnttryToSend # 0
      <4>1. cnttryToSend' = CountDown /\ UNCHANGED <<RadioState, running, at>>
        BY <2>3, <3>2 DEF BusyChannel, OutOfRetries
      <4>2. CountDown = cnttryToSend - 1
        BY <3>2, RadioAssumption DEF CountDown
      <4>. QED  BY <3>2, <4>1, <4>2, RadioAssumption
    <3>. QED  BY <3>1, <3>2
  <2>4. CASE SentBroadcast \/ AckFired
    BY <2>4 DEF SentBroadcast, AckFired, PostPacketSent, Post, fSendAborted, TxSequence
  <2>. QED
    BY <1>2, <2>1, <2>2, <2>3, <2>4
    DEF HandlerStep, Attempt, Outcomes, SentUnicast, SetAckTimer, StaleFired,
        SendAborted, reportSendDone, EventReturns
<1>3. CASE TimerStep
  BY <1>3 DEF TimerStep, TimerFire
<1>4. CASE EnvironmentStep
  BY <1>4
  DEF EnvironmentStep, PostOther, Post, SendMsg_send, Control_stop, Control_start, RadioStop,
      RadioStart, FIFOPAck, FIFOPData
<1>5. CASE UNCHANGED vars
  BY <1>5 DEF vars
<1>. QED  BY <1>1, <1>2, <1>3, <1>4, <1>5 DEF Next

(* The busy-channel backoffs of a message are at most SEND_RETRY_COUNT,     *)
(* though the count wraps and is set after the timer that uses it           *)
(* (CC2420RadioM.nc tryToSend, Send.send).                                  *)
THEOREM RetryBoundAlways == Safety => []RetryBound
<1>1. Init => Retries
  BY RadioAssumption DEF Init, MoteInit, RadioInit, Retries
<1>2. Retries /\ [Next]_vars => Retries'
  BY RetriesStep
<1>3. Retries => RetryBound
  BY DEF Retries, RetryBound
<1>. QED  BY <1>1, <1>2, <1>3, PTL DEF Safety
-----------------------------------------------------------------------------
(* These need to know who owns the message as well.                         *)

(* An ack of the last frame is on the air only if the receiver sent it, and *)
(* none is before that frame has been sent ...                              *)
AcksOnAir ==
  /\ currentDSN \in airAcks => answered
  /\ RadioState \in {"PRE_TX", "TX"} \/ isr = "sent" => currentDSN \notin airAcks

(* ... so the ack field of a unicast tells the truth, once it is cleared    *)
(* after the frame, and while the message is on its way back.               *)
AckField ==
  /\ RadioState = "POST_TX" /\ isr # "sent" /\ addr[txbufptr] = "unicast" /\ ack[txbufptr]
       => answered
  /\ \A c \in Contexts :
       /\ Signalled(c)
       /\ up[c].success
       /\ addr[up[c].message] = "unicast"
       /\ ack[up[c].message]
       => answered

AckInv == AcksOnAir /\ AckField

(* The steps that these see.                                                *)
AckStep ==
  \/ SendTaskAccepted
  \/ \E o \in Outcomes \cup {"notLoaded"} : InitialFired(o) /\ UNCHANGED amVars
  \/ \E o \in Outcomes : ClearChannel(o) /\ UNCHANGED amVars
  \/ (BusyChannel \/ SentBroadcast \/ AckFired) /\ UNCHANGED amVars
  \/ \E a \in BOOLEAN : SentUnicast(a) /\ UNCHANGED amVars
  \/ PacketSent /\ UNCHANGED amVars
  \/ SendTaskRefused
  \/ \E c \in Contexts : reportSendDone(c)
  \/ \E c \in Contexts : EventReturns(c) /\ UNCHANGED <<radioVars, amVars>>
  \/ \E m \in Messages, to \in Destinations : SendMsg_send(m, to)
  \/ \E d \in Dsns : FIFOPAck(d) /\ UNCHANGED amVars
  \/ (SetAckTimer \/ StaleFired \/ TimerFire \/ SendAborted) /\ UNCHANGED amVars
  \/ Control_stop \/ Control_start
  \/ UNCHANGED <<isr, up, msgVars, RadioState, currentDSN, txbufptr, airAcks, answered>>

LEMMA AckSteps == [Next]_vars => AckStep
<1>. SUFFICES ASSUME [Next]_vars PROVE AckStep
  OBVIOUS
<1>. USE DEF AckStep, msgVars, moteVars, radioVars, amVars, Contexts, Destinations, Outcomes
<1>1. CASE TaskStep
  BY <1>1
  DEF TaskStep, RunTask, TaskEnds, OtherTask, OtherTaskDone, SendArm, SendCount,
      PacketRcvd, ReceiveReturns
<1>2. CASE HandlerStep
  BY <1>2 DEF HandlerStep, Attempt
<1>3. CASE TimerStep
  BY <1>3 DEF TimerStep
<1>4. CASE EnvironmentStep
  BY <1>4 DEF EnvironmentStep, PostOther, FIFOPData
<1>5. CASE UNCHANGED vars
  BY <1>5 DEF vars
<1>. QED  BY <1>1, <1>2, <1>3, <1>4, <1>5 DEF Next

LEMMA AcksOnAirStep == IInv /\ AcksOnAir /\ AckStep => AcksOnAir'
<1>. SUFFICES ASSUME IInv, AcksOnAir, AckStep PROVE AcksOnAir'
  OBVIOUS
<1>. USE DEF AcksOnAir, msgVars, moteVars, radioVars, amVars
<1>1. CASE SendTaskAccepted
  BY <1>1 DEF SendTaskAccepted, SendBegin, TaskAt
<1>2. CASE \E o \in Outcomes \cup {"notLoaded"} : InitialFired(o) /\ UNCHANGED amVars
  <2>1. RadioState = "PRE_TX"
    BY <1>2 DEF InitialFired, IInv, Timing
  <2>. QED  BY <1>2, <2>1 DEF InitialFired, sendPacket, fSendAborted, Outcomes, TxSequence
<1>3. CASE \E o \in Outcomes : ClearChannel(o) /\ UNCHANGED amVars
  BY <1>3 DEF ClearChannel, sendPacket, fSendAborted, Outcomes, TxSequence
<1>4. CASE (BusyChannel \/ SentBroadcast \/ AckFired) /\ UNCHANGED amVars
  BY <1>4
  DEF BusyChannel, SentBroadcast, AckFired, PostPacketSent, fSendAborted, TxSequence
<1>5. CASE \E a \in BOOLEAN : SentUnicast(a) /\ UNCHANGED amVars
  <2>1. RadioState = "POST_TX" /\ isr = "sent"
    BY <1>5 DEF SentUnicast, IsrAt, IInv, Handlers
  <2>. QED  BY <1>5, <2>1 DEF SentUnicast
<1>6. CASE \E d \in Dsns : FIFOPAck(d) /\ UNCHANGED amVars
  BY <1>6 DEF FIFOPAck
<1>7. CASE SetAckTimer \/ StaleFired \/ TimerFire \/ SendAborted
  BY <1>7 DEF SetAckTimer, StaleFired, TimerFire, SendAborted
<1>8. CASE Control_stop \/ Control_start
  BY <1>8 DEF Control_stop, Control_start, RadioStop, RadioStart
<1>. QED
  BY <1>1, <1>2, <1>3, <1>4, <1>5, <1>6, <1>7, <1>8
  DEF AckStep, PacketSent, SendTaskRefused, reportSendDone, EventReturns, SendMsg_send

(* A signal of a failure keeps the ack field true to its word.              *)
LEMMA FailureSignalled ==
  ASSUME IInv, AckField, NEW c \in Contexts, NEW m \in Messages,
         Signal(c, m, FALSE), RadioState' # "POST_TX",
         UNCHANGED <<addr, ack, answered>>
  PROVE  AckField'
<1>. DEFINE e == [message |-> m, success |-> FALSE, delivered |-> FALSE]
<1>1. up' = [up EXCEPT ![c] = e] /\ up \in [Contexts -> Events \cup {NoEvent}]
  BY DEF Signal, IInv, TypeOK, MoteTypeOK
<1>2. \A d \in Contexts \ {c} : up'[d] = up[d]
  BY <1>1
<1>3. up'[c] = e /\ ~e.success
  BY <1>1
<1>. QED  BY <1>2, <1>3 DEF AckField, Signalled

(* Nothing that AckField speaks of changes but the places of the message.   *)
LEMMA AckFieldKept ==
  ASSUME AckField, UNCHANGED <<addr, ack, txbufptr, answered, up>>,
         RadioState' = "POST_TX" /\ isr' # "sent" => RadioState = "POST_TX" /\ isr # "sent"
  PROVE  AckField'
BY DEF AckField, Signalled

LEMMA AbortKeepsAckField ==
  ASSUME IInv, AckField, InRadio, NEW s \in TxSequence, fSendAborted(s),
         UNCHANGED <<addr, ack, answered>>
  PROVE  AckField'
<1>1. /\ RadioState' # "POST_TX"
      /\ Signal("interrupt", txbufptr, FALSE)
  BY DEF fSendAborted
<1>2. "interrupt" \in Contexts /\ txbufptr \in Messages
  BY InRadioFacts DEF Contexts
<1>. QED  BY <1>1, <1>2, FailureSignalled

LEMMA AckFieldStep == LoadCanFail = FALSE /\ IInv /\ AckInv /\ AckStep => AckField'
<1>. SUFFICES ASSUME LoadCanFail = FALSE, IInv, AckInv, AckStep PROVE AckField'
  OBVIOUS
<1>. USE DEF msgVars, moteVars, radioVars, amVars
<1>0. AckField /\ AcksOnAir
  BY DEF AckInv
<1>1. CASE SendTaskAccepted
  <2>1. RadioState' # "POST_TX" /\ UNCHANGED <<addr, ack, up>>
    BY <1>1 DEF SendTaskAccepted, SendBegin
  <2>2. ~Signalled("task") /\ ~Signalled("interrupt") /\ Starting
    BY <1>1 DEF IInv, Token, Starting, SendTaskAccepted, TaskAt
  <2>3. \A c \in Contexts : ~Signalled(c)'
    BY <2>1, <2>2 DEF Contexts, Signalled
  <2>. QED  BY <2>1, <2>3 DEF AckField
<1>2. ASSUME NEW o \in Outcomes, NEW s \in {"PRE_TX", "TX"}, NEW r \in BOOLEAN,
             sendPacket(o, s, r), RadioState \in {"PRE_TX", "TX"},
             UNCHANGED <<addr, txbufptr, answered>>
      PROVE  AckField'
  <2>1. InRadio /\ s \in TxSequence
    BY <1>2 DEF InRadio, TxSequence
  <2>2. CASE o = "inactive"
    <3>1. RadioState' # "POST_TX" /\ UNCHANGED <<up, ack>>
      BY <1>2, <2>2 DEF sendPacket
    <3>. QED  BY <1>0, <1>2, <3>1, AckFieldKept
  <2>3. CASE o = "stuck"
    <3>1. fSendAborted(s) /\ UNCHANGED ack
      BY <1>2, <2>3 DEF sendPacket
    <3>. QED  BY <1>0, <1>2, <2>1, <3>1, AbortKeepsAckField
  <2>4. CASE o = "sent"
    <3>1. isr' = "sent" /\ UNCHANGED up
      BY <1>2, <2>4 DEF sendPacket
    <3>2. \A c \in Contexts : ~Signalled(c)'
      BY <2>1, <3>1, InRadioFacts DEF Contexts, Signalled
    <3>. QED  BY <3>1, <3>2 DEF AckField
  <2>. QED  BY <2>2, <2>3, <2>4 DEF Outcomes
<1>3. CASE \E o \in Outcomes \cup {"notLoaded"} : InitialFired(o) /\ UNCHANGED amVars
  <2>1. PICK o \in Outcomes : sendPacket(o, RadioState, TRUE)
    BY <1>3 DEF InitialFired
  <2>2. RadioState = "PRE_TX" /\ UNCHANGED <<addr, txbufptr, answered>>
    BY <1>3 DEF InitialFired, IInv, Timing
  <2>. QED  BY <1>2, <2>1, <2>2
<1>4. CASE \E o \in Outcomes : ClearChannel(o) /\ UNCHANGED amVars
  BY <1>2, <1>4 DEF ClearChannel
<1>5. CASE BusyChannel /\ UNCHANGED amVars
  <2>1. InRadio /\ RadioState \in {"PRE_TX", "TX"} /\ RadioState \in TxSequence
    BY <1>5 DEF BusyChannel, InRadio, TxSequence
  <2>2. CASE OutOfRetries
    BY <1>0, <1>5, <2>1, <2>2, AbortKeepsAckField DEF BusyChannel
  <2>3. CASE ~OutOfRetries
    BY <1>0, <1>5, <2>1, <2>3, AckFieldKept DEF BusyChannel
  <2>. QED  BY <2>2, <2>3
<1>6. CASE SentBroadcast /\ UNCHANGED amVars
  <2>1. InRadio /\ RadioState \in TxSequence /\ RadioState = "POST_TX"
    BY <1>6 DEF SentBroadcast, IsrAt, IInv, Handlers, InRadio, TxSequence
  <2>2. CASE HasRoom
    <3>1. addr[txbufptr] = "broadcast" /\ UNCHANGED <<addr, ack, txbufptr, answered, up>>
      BY <1>6, <2>2 DEF SentBroadcast, PostPacketSent
    <3>. QED  BY <1>0, <3>1 DEF AckField, Signalled
  <2>3. CASE ~HasRoom
    BY <1>0, <1>6, <2>1, <2>3, AbortKeepsAckField DEF SentBroadcast, PostPacketSent
  <2>. QED  BY <2>2, <2>3
<1>7. CASE AckFired /\ UNCHANGED amVars
  <2>1. InRadio /\ RadioState \in TxSequence /\ txbufptr \in Messages
    BY <1>7, InRadioFacts DEF AckFired, InRadio, TxSequence
  <2>2. ack' = [ack EXCEPT ![txbufptr] = FALSE] /\ ack \in [Messages -> BOOLEAN]
    BY <1>7 DEF AckFired, IInv, TypeOK, MoteTypeOK
  <2>3. UNCHANGED <<addr, txbufptr, answered>>
    BY <1>7 DEF AckFired
  <2>4. \A c \in Contexts : ~Signalled(c)
    BY <2>1, InRadioFacts DEF Contexts
  <2>5. CASE HasRoom
    <3>1. UNCHANGED up
      BY <1>7, <2>5 DEF AckFired, PostPacketSent
    <3>2. \A c \in Contexts : ~Signalled(c)'
      BY <2>4, <3>1 DEF Signalled
    <3>. QED  BY <2>1, <2>2, <2>3, <3>2 DEF AckField
  <2>6. CASE ~HasRoom
    <3>1. fSendAborted(RadioState)
      BY <1>7, <2>6 DEF AckFired, PostPacketSent
    <3>2. /\ RadioState' = "IDLE"
          /\ up' = [up EXCEPT !["interrupt"] =
                      [message |-> txbufptr, success |-> FALSE, delivered |-> FALSE]]
      BY <2>1, <3>1 DEF fSendAborted, Signal
    <3>3. up \in [Contexts -> Events \cup {NoEvent}]
      BY DEF IInv, TypeOK, MoteTypeOK
    <3>4. ~up'["interrupt"].success /\ up'["task"] = up["task"]
      BY <3>2, <3>3 DEF Contexts
    <3>5. ~Signalled("task")'
      BY <2>4, <3>4 DEF Signalled, Contexts
    <3>. QED  BY <3>2, <3>4, <3>5 DEF AckField, Contexts
  <2>. QED  BY <2>5, <2>6
<1>8. CASE \E a \in BOOLEAN : SentUnicast(a) /\ UNCHANGED amVars
  <2>1. InRadio
    BY <1>8 DEF SentUnicast, IsrAt, IInv, Handlers, InRadio, TxSequence
  <2>2. txbufptr \in Messages /\ ack \in [Messages -> BOOLEAN]
    BY <2>1, InRadioFacts DEF IInv, TypeOK, MoteTypeOK
  <2>3. ~ack'[txbufptr] /\ UNCHANGED <<up, txbufptr>>
    BY <1>8, <2>2 DEF SentUnicast
  <2>4. \A c \in Contexts : ~Signalled(c)'
    BY <2>1, <2>3, InRadioFacts DEF Contexts, Signalled
  <2>. QED  BY <2>3, <2>4 DEF AckField
<1>9. CASE PacketSent /\ UNCHANGED amVars
  <2>1. CASE RadioState = "POST_TX"
    <3>1. /\ RadioState' = "IDLE"
          /\ Signal("task", txbufptr, TRUE)
          /\ isr = "none"
          /\ UNCHANGED <<addr, ack, answered>>
      BY <1>9, <2>1 DEF PacketSent, TaskAt
    <3>2. InRadio /\ txbufptr \in Messages /\ ~Signalled("interrupt")
      BY <2>1, InRadioFacts DEF InRadio, TxSequence
    <3>3. up \in [Contexts -> Events \cup {NoEvent}]
      BY DEF IInv, TypeOK, MoteTypeOK
    <3>4. up'["task"].message = txbufptr /\ up'["interrupt"] = up["interrupt"]
      BY <3>1, <3>3 DEF Signal, Contexts
    <3>5. ~Signalled("interrupt")'
      BY <3>2, <3>4 DEF Signalled
    <3>6. addr[txbufptr] = "unicast" /\ ack[txbufptr] => answered
      BY <1>0, <2>1, <3>1 DEF AckField
    <3>. QED  BY <3>1, <3>4, <3>5, <3>6 DEF AckField, Contexts
  <2>2. CASE RadioState # "POST_TX"
    BY <1>0, <1>9, <2>2, AckFieldKept DEF PacketSent
  <2>. QED  BY <2>1, <2>2
<1>10. CASE SendTaskRefused
  <2>1. Signal("task", buffer, FALSE) /\ UNCHANGED <<addr, ack, answered, RadioState>>
    BY <1>10 DEF SendTaskRefused
  <2>2. Starting
    BY <1>10 DEF SendTaskRefused, TaskAt, Starting
  <2>3. "task" \in Contexts /\ buffer \in Messages /\ RadioState # "POST_TX"
    BY <2>2 DEF Contexts, IInv, Token, Owner, InRadio, TxSequence
  <2>. QED  BY <1>0, <2>1, <2>3, FailureSignalled
<1>11. CASE \E c \in Contexts : reportSendDone(c)
  <2>1. PICK c \in Contexts : reportSendDone(c)
    BY <1>11
  <2>2. Signalled(c) /\ ~InRadio /\ \A d \in Contexts \ {c} : ~Signalled(d)
    BY <2>1 DEF IInv, Token, Signalled, reportSendDone, Contexts
  <2>3. up' = [up EXCEPT ![c] = Delivered(up[c])] /\ up \in [Contexts -> Events \cup {NoEvent}]
    BY <2>1 DEF reportSendDone, IInv, TypeOK, MoteTypeOK
  <2>4. up'[c].delivered /\ \A d \in Contexts \ {c} : up'[d] = up[d]
    BY <2>3 DEF Delivered
  <2>5. \A d \in Contexts : ~Signalled(d)'
    BY <2>2, <2>4 DEF Signalled
  <2>. QED  BY <2>1, <2>2, <2>5 DEF AckField, reportSendDone, InRadio, TxSequence
<1>12. CASE \E c \in Contexts : EventReturns(c) /\ UNCHANGED <<radioVars, amVars>>
  <2>1. PICK c \in Contexts : EventReturns(c) /\ UNCHANGED <<radioVars, amVars>>
    BY <1>12
  <2>2. /\ up' = [up EXCEPT ![c] = NoEvent]
        /\ up \in [Contexts -> Events \cup {NoEvent}]
        /\ UNCHANGED <<isr, addr, ack>>
    BY <2>1 DEF EventReturns, IInv, TypeOK, MoteTypeOK
  <2>3. ~Signalled(c)' /\ \A d \in Contexts \ {c} : up'[d] = up[d]
    BY <2>2 DEF Signalled
  <2>. QED  BY <1>0, <2>1, <2>2, <2>3 DEF AckField, Signalled
<1>13. CASE \E m \in Messages, to \in Destinations : SendMsg_send(m, to)
  <2>1. CASE UNCHANGED addr
    BY <1>0, <1>13, <2>1, AckFieldKept DEF SendMsg_send
  <2>2. CASE addr' # addr
    <3>1. ~state /\ UNCHANGED <<RadioState, up>>
      BY <1>13, <2>2 DEF SendMsg_send
    <3>2. ~InRadio' /\ ~Signalled("task")' /\ ~Signalled("interrupt")'
      BY <3>1 DEF IInv, Token, InRadio, Signalled
    <3>. QED  BY <3>2 DEF AckField, Contexts, InRadio, TxSequence
  <2>. QED  BY <2>1, <2>2
<1>14. CASE \E d \in Dsns : FIFOPAck(d) /\ UNCHANGED amVars
  <2>1. PICK d \in Dsns : FIFOPAck(d)
    BY <1>14
  <2>2. UNCHANGED <<addr, txbufptr, answered, up, RadioState, isr>>
    BY <2>1 DEF FIFOPAck
  <2>3. CASE AckAwaited(d)
    <3>1. answered /\ RadioState = "POST_TX"
      BY <1>0, <2>1, <2>3 DEF FIFOPAck, AckAwaited, AcksOnAir
    <3>. QED  BY <2>2, <3>1 DEF AckField
  <2>4. CASE ~AckAwaited(d)
    BY <1>0, <2>1, <2>2, <2>4, AckFieldKept DEF FIFOPAck
  <2>. QED  BY <2>3, <2>4
<1>15. CASE (SetAckTimer \/ StaleFired \/ TimerFire \/ SendAborted) /\ UNCHANGED amVars
  BY <1>0, <1>15, AckFieldKept
  DEF SetAckTimer, StaleFired, TimerFire, SendAborted, IsrAt
<1>16. CASE Control_stop \/ Control_start
  BY <1>0, <1>16, AckFieldKept DEF Control_stop, Control_start, RadioStop, RadioStart
<1>17. CASE UNCHANGED <<isr, up, msgVars, RadioState, currentDSN, txbufptr, airAcks, answered>>
  BY <1>0, <1>17, AckFieldKept
<1>. QED
  BY <1>1, <1>3, <1>4, <1>5, <1>6, <1>7, <1>8, <1>9, <1>10, <1>11, <1>12, <1>13, <1>14,
     <1>15, <1>16, <1>17
  DEF AckStep

(* A unicast that is reported as sent and acknowledged was acknowledged by  *)
(* its receiver (CC2420RadioM.nc sendPacket, FIFOPIntr, BackoffTimerJiffy,  *)
(* AMPromiscuous.nc reportSendDone).                                        *)
THEOREM AckTruthAlways == LoadCanFail = FALSE /\ Safety => []AckTruth
<1>1. LoadCanFail = FALSE /\ Init => AckInv
  <2>. SUFFICES ASSUME LoadCanFail = FALSE, Init PROVE AckInv
    OBVIOUS
  <2>1. \A c \in Contexts : ~Signalled(c)
    BY DEF Init, MoteInit, Signalled
  <2>. QED
    BY <2>1 DEF Init, MoteInit, RadioInit, AckInv, AcksOnAir, AckField
<1>2. Books /\ AckInv /\ [Next]_vars => AckInv'
  BY AckSteps, AcksOnAirStep, AckFieldStep DEF Books, AckInv
<1>3. AckInv => AckTruth
  BY DEF AckInv, AckField, AckTruth, Signalled
<1>. QED  BY <1>1, <1>2, <1>3, Invariance, PTL DEF Safety

(* Every PacketSent was posted before the sendTask of the next message: the *)
(* queue is served in order, so none is left when that message starts.      *)
PacketSentFirst ==
  \A i, j \in 1 .. Len(tasks) :
    tasks[i] = "sendTask" /\ tasks[j] = "PacketSent" => j < i

StaleInv ==
  /\ PacketSentFirst
  /\ Starting \/ RadioState \in {"PRE_TX", "TX"} => ~Pending("PacketSent")

(* Who posts PacketSent and when, and what becomes of the radio.            *)
StaleStep ==
  \/ RunTask /\ UNCHANGED RadioState
  \/ TaskEnds /\ UNCHANGED RadioState
  \/ SendTaskAccepted
  \/ /\ \E t \in Tasks : Post(t) /\ (t = "PacketSent" => RadioState = "POST_TX")
     /\ UNCHANGED <<at, RadioState>>
  \/ /\ UNCHANGED <<tasks, running>>
     /\ running = "sendTask" /\ at' = "start" => at = "start"
     /\ RadioState' \in {"PRE_TX", "TX"} => RadioState \in {"PRE_TX", "TX"}

LEMMA StaleSteps == LoadCanFail = FALSE /\ IInv /\ [Next]_vars => StaleStep
<1>. SUFFICES ASSUME LoadCanFail = FALSE, IInv, [Next]_vars PROVE StaleStep
  OBVIOUS
<1>. USE DEF StaleStep, msgVars, moteVars, radioVars, amVars
<1>0. "sendTask" \in Tasks /\ "PacketRcvd" \in Tasks /\ "PacketSent" \in Tasks
  BY MoteAssumption DEF RadioTasks
<1>1. CASE TaskStep
  BY <1>1
  DEF TaskStep, OtherTask, OtherTaskDone, EventReturns, SendTaskRefused, SendArm, SendCount,
      PacketSent, PacketRcvd, ReceiveReturns, reportSendDone, TaskAt
<1>2. CASE HandlerStep
  <2>1. CASE \E o \in Outcomes \cup {"notLoaded"} : InitialFired(o) /\ UNCHANGED amVars
    <3>1. RadioState = "PRE_TX"
      BY <2>1 DEF InitialFired, IInv, Timing
    <3>. QED  BY <2>1, <3>1 DEF InitialFired
  <2>2. CASE \E o \in Outcomes : ClearChannel(o) /\ UNCHANGED amVars
    BY <2>2 DEF ClearChannel
  <2>3. CASE BusyChannel /\ UNCHANGED amVars
    BY <2>3 DEF BusyChannel
  <2>4. CASE (SentBroadcast \/ AckFired) /\ UNCHANGED amVars
    <3>1. RadioState = "POST_TX" /\ PostPacketSent /\ UNCHANGED at
      BY <2>4 DEF SentBroadcast, AckFired, IsrAt, IInv, Handlers
    <3>2. CASE HasRoom
      BY <1>0, <3>1, <3>2 DEF PostPacketSent
    <3>3. CASE ~HasRoom
      BY <3>1, <3>3 DEF PostPacketSent, fSendAborted, TxSequence
    <3>. QED  BY <3>2, <3>3
  <2>. QED
    BY <1>2, <2>1, <2>2, <2>3, <2>4
    DEF HandlerStep, Attempt, Outcomes, SentUnicast, SetAckTimer, StaleFired,
        SendAborted, reportSendDone, EventReturns
<1>3. CASE TimerStep
  BY <1>3 DEF TimerStep, TimerFire
<1>4. CASE EnvironmentStep
  BY <1>0, <1>4
  DEF EnvironmentStep, PostOther, RadioTasks, SendMsg_send, Control_stop, Control_start,
      RadioStop, RadioStart, FIFOPAck, FIFOPData, AckAwaited
<1>5. CASE UNCHANGED vars
  BY <1>5 DEF vars
<1>. QED  BY <1>1, <1>2, <1>3, <1>4, <1>5 DEF Next

LEMMA StaleInvStep == IInv /\ StaleInv /\ StaleStep => StaleInv'
<1>. SUFFICES ASSUME IInv, StaleInv, StaleStep PROVE StaleInv'
  OBVIOUS
<1>0. FifoTypeOK
  BY DEF IInv, TypeOK, MoteTypeOK
<1>1. CASE RunTask /\ UNCHANGED RadioState
  <2>1. /\ Len(tasks') = Len(tasks) - 1 /\ Len(tasks) \in Nat \ {0}
        /\ \A i \in 1 .. Len(tasks') : tasks'[i] = tasks[i + 1]
        /\ running' = tasks[1]
    BY <1>0, <1>1, HeadTailProperties DEF FifoTypeOK, RunTask, RunNext
  <2>2. PacketSentFirst'
    <3>. SUFFICES ASSUME NEW i \in 1 .. Len(tasks'), NEW j \in 1 .. Len(tasks'),
                         tasks'[i] = "sendTask", tasks'[j] = "PacketSent"
                  PROVE  j < i
      BY DEF PacketSentFirst
    <3>1. /\ i + 1 \in 1 .. Len(tasks) /\ tasks[i + 1] = "sendTask"
          /\ j + 1 \in 1 .. Len(tasks) /\ tasks[j + 1] = "PacketSent"
      BY <2>1
    <3>2. j + 1 < i + 1
      BY <3>1 DEF StaleInv, PacketSentFirst
    <3>. QED  BY <3>2
  <2>3. ASSUME Starting' PROVE ~Pending("PacketSent")'
    <3>1. tasks[1] = "sendTask" /\ running' = "sendTask"
      BY <2>1, <2>3 DEF Starting
    <3>2. ASSUME NEW j \in 1 .. Len(tasks'), tasks'[j] = "PacketSent" PROVE FALSE
      <4>1. j + 1 \in 1 .. Len(tasks) /\ tasks[j + 1] = "PacketSent" /\ 1 \in 1 .. Len(tasks)
        BY <2>1, <3>2
      <4>2. j + 1 < 1
        BY <3>1, <4>1 DEF StaleInv, PacketSentFirst
      <4>. QED  BY <4>2
    <3>. QED  BY <3>1, <3>2 DEF Pending, Queued
  <2>4. ASSUME RadioState' \in {"PRE_TX", "TX"} PROVE ~Pending("PacketSent")'
    <3>1. ~Queued("PacketSent")
      BY <1>1, <2>4 DEF StaleInv, Pending
    <3>2. ~Queued("PacketSent")' /\ running' # "PacketSent"
      BY <1>0, <1>1, <3>1, RunQueue DEF RunTask
    <3>. QED  BY <3>2 DEF Pending
  <2>. QED  BY <2>2, <2>3, <2>4 DEF StaleInv
<1>2. CASE TaskEnds /\ UNCHANGED RadioState
  BY <1>2, SameQueue, FifoAssumption, MoteAssumption
  DEF StaleInv, PacketSentFirst, Starting, Pending, TaskEnds, TaskReturns, RadioTasks
<1>3. CASE SendTaskAccepted
  <2>1. Starting /\ UNCHANGED <<tasks, running>>
    BY <1>3 DEF SendTaskAccepted, TaskAt, Starting
  <2>. QED  BY <2>1, SameQueue DEF StaleInv, PacketSentFirst, Starting, Pending
<1>4. CASE /\ \E t \in Tasks : Post(t) /\ (t = "PacketSent" => RadioState = "POST_TX")
           /\ UNCHANGED <<at, RadioState>>
  <2>1. PICK t \in Tasks : Post(t) /\ (t = "PacketSent" => RadioState = "POST_TX")
    BY <1>4
  <2>2. /\ Len(tasks') = Len(tasks) + 1 /\ Len(tasks) \in Nat
        /\ \A i \in 1 .. Len(tasks) : tasks'[i] = tasks[i]
        /\ tasks'[Len(tasks) + 1] = t
        /\ UNCHANGED <<running, at, RadioState>>
    BY <1>0, <1>4, <2>1 DEF FifoTypeOK, Post
  <2>3. t = "PacketSent" => ~Queued("sendTask") /\ ~Starting
    BY <2>1, InRadioFacts DEF InRadio, TxSequence
  <2>4. PacketSentFirst'
    <3>. SUFFICES ASSUME NEW i \in 1 .. Len(tasks'), NEW j \in 1 .. Len(tasks'),
                         tasks'[i] = "sendTask", tasks'[j] = "PacketSent"
                  PROVE  j < i
      BY DEF PacketSentFirst
    <3>1. CASE j = Len(tasks) + 1
      <4>1. t = "PacketSent" /\ i \in 1 .. Len(tasks) /\ tasks[i] = "sendTask"
        BY <2>2, <3>1
      <4>. QED  BY <2>3, <4>1 DEF Queued
    <3>2. CASE j \in 1 .. Len(tasks) /\ i \in 1 .. Len(tasks)
      BY <2>2, <3>2 DEF StaleInv, PacketSentFirst
    <3>3. CASE j \in 1 .. Len(tasks) /\ i = Len(tasks) + 1
      BY <2>2, <3>3
    <3>. QED  BY <2>2, <3>1, <3>2, <3>3
  <2>5. ASSUME Starting' \/ RadioState' \in {"PRE_TX", "TX"} PROVE ~Pending("PacketSent")'
    <3>1. ~Pending("PacketSent") /\ t # "PacketSent"
      BY <2>1, <2>2, <2>3, <2>5 DEF StaleInv, Starting
    <3>2. ~Queued("PacketSent")'
      BY <1>0, <2>1, <3>1, PostQueue DEF Pending
    <3>. QED  BY <2>2, <3>1, <3>2 DEF Pending
  <2>. QED  BY <2>4, <2>5 DEF StaleInv
<1>5. CASE /\ UNCHANGED <<tasks, running>>
           /\ running = "sendTask" /\ at' = "start" => at = "start"
           /\ RadioState' \in {"PRE_TX", "TX"} => RadioState \in {"PRE_TX", "TX"}
  BY <1>5, SameQueue DEF StaleInv, PacketSentFirst, Starting, Pending
<1>. QED  BY <1>1, <1>2, <1>3, <1>4, <1>5 DEF StaleStep

(* A message that is backing off or being sent is not preceded by the       *)
(* PacketSent of an earlier one: the duplicates that FIFOPIntr and the ack  *)
(* timer leave in the queue have run (CC2420RadioM.nc FIFOPIntr,            *)
(* BackoffTimerJiffy.fired, immedPacketSent).                               *)
THEOREM NoStalePacketSentAlways == LoadCanFail = FALSE /\ Safety => []NoStalePacketSent
<1>1. LoadCanFail = FALSE /\ Init => StaleInv
  BY FifoAssumption, MoteAssumption
  DEF Init, MoteInit, FifoInit, RadioInit, StaleInv, PacketSentFirst, Starting, RadioTasks
<1>2. Books /\ StaleInv /\ [Next]_vars => StaleInv'
  BY StaleSteps, StaleInvStep DEF Books
<1>3. StaleInv => NoStalePacketSent
  BY DEF StaleInv, NoStalePacketSent
<1>. QED  BY <1>1, <1>2, <1>3, Invariance, PTL DEF Safety
=============================================================================
