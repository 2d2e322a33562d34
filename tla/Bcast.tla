---------------------------------- MODULE Bcast --------------------------------
(***************************************************************************)
(* The broadcast layer, src/tos/lib/Broadcast/BcastM.nc.  A wave carries a *)
(* number of 16 bits; a mote signals a wave it has not had and sends it on *)
(* through QueuedSend, which is used by its contract (SendQueue): messages *)
(* come back in the order in which it took them.                           *)
(*                                                                         *)
(* Receiving a packet is one step of a task, and sendDone changes only the *)
(* tail, which that step reads once: it may come before or after it.       *)
(* What a buffer holds matters only as long as QueuedSend has it.          *)
(***************************************************************************)
EXTENDS Integers, Sequences

CONSTANTS
  FWD_QUEUE_SIZE,
  Numbers,        \* how many wave numbers there are (2^16)
  Window,         \* a wave is on the air until so many others have followed
  Lossless        \* does a mote hear every wave before the next is sent ?

ASSUME BcastAssumption ==
  /\ FWD_QUEUE_SIZE \in Nat \ {0}
  /\ Numbers \in Nat \ {0}
  /\ Numbers % 2 = 0
  /\ Window \in 1 .. Numbers \div 2
  /\ Lossless \in BOOLEAN

VARIABLES
  BcastSeqno,
  iFwdBufHead,
  iFwdBufTail,
  queue,          \* the buffers QueuedSend has: which, and is what it was given
                  \* still in it ?
  wave,           \* the wave that was sent last by the base station
  signaled        \* history: how often that wave was signaled; 2 as well for
                  \* an older wave

bcastVars == <<BcastSeqno, iFwdBufHead, iFwdBufTail, queue, wave, signaled>>

Waves == 0 .. Numbers - 1
FwdSlots == 0 .. FWD_QUEUE_SIZE - 1

BcastTypeOK ==
  /\ BcastSeqno \in Waves
  /\ iFwdBufHead \in FwdSlots
  /\ iFwdBufTail \in FwdSlots
  /\ queue \in Seq([slot : FwdSlots, kept : BOOLEAN])
  /\ wave \in Waves
  /\ signaled \in 0 .. 2

(* No wave has the number 0 at first: the base station begins with 1.       *)
BcastInit ==
  /\ BcastSeqno = 0
  /\ iFwdBufHead = 0
  /\ iFwdBufTail = 0
  /\ queue = << >>
  /\ wave = 0
  /\ signaled = 0
-----------------------------------------------------------------------------
(* newBcast: the difference of two 16-bit numbers as a signed one.          *)
newBcast(proposed) ==
  (proposed - BcastSeqno) % Numbers \in 1 .. Numbers \div 2 - 1

AfterSlot(s) == (s + 1) % FWD_QUEUE_SIZE

(* Mutated: the ring is never full.                                         *)
RingFullNever == FALSE

RingFull == AfterSlot(iFwdBufHead) = iFwdBufTail

(* The buffers that wait when the one at the head is written to.            *)
Overwritten ==
  [i \in 1 .. Len(queue) |->
     [queue[i] EXCEPT !.kept = @ /\ queue[i].slot # iFwdBufHead]]

(* FwdBcast: the packet is copied even if QueuedSend then refuses it.       *)
FwdBcast ==
  \/ /\ RingFull
     /\ UNCHANGED <<iFwdBufHead, queue>>
  \/ /\ ~RingFull
     /\ queue' = Append(Overwritten, [slot |-> iFwdBufHead, kept |-> TRUE])
     /\ iFwdBufHead' = AfterSlot(iFwdBufHead)
  \/ /\ ~RingFull
     /\ queue' = Overwritten
     /\ UNCHANGED iFwdBufHead

(* ReceiveMsg.receive for a wave that is new, which is signaled ...         *)
ReceiveNew(w) ==
  /\ newBcast(w)
  /\ BcastSeqno' = (BcastSeqno + 1) % Numbers
  /\ FwdBcast
  /\ signaled' = IF w = wave /\ signaled = 0 THEN 1 ELSE 2
  /\ UNCHANGED <<iFwdBufTail, wave>>

(* The waves on the air.                                                    *)
OnAir == {(wave - i) % Numbers : i \in 0 .. Window - 1}

(* SendMsg.sendDone.                                                        *)
SendDone ==
  /\ queue # << >>
  /\ queue' = Tail(queue)
  /\ iFwdBufTail' = IF Head(queue).slot = iFwdBufTail
                    THEN AfterSlot(iFwdBufTail) ELSE iFwdBufTail
  /\ UNCHANGED <<BcastSeqno, iFwdBufHead, wave, signaled>>

(* The base station sends another wave.                                     *)
SendWave ==
  /\ Lossless => BcastSeqno = wave
  /\ wave' = (wave + 1) % Numbers
  /\ signaled' = 0
  /\ UNCHANGED <<BcastSeqno, iFwdBufHead, iFwdBufTail, queue>>
-----------------------------------------------------------------------------
SignaledOnce == signaled <= 1

(* What QueuedSend has is what it was given: a buffer is not used again     *)
(* while it waits.                                                          *)
ForwardsKept == \A i \in 1 .. Len(queue) : queue[i].kept

(* "Each unique broadcast wave is signaled to application and rebroadcast   *)
(* once" (BcastM.nc:67), as it was received, if no wave is missed.          *)
EachWaveOnce == SignaledOnce /\ ForwardsKept
=============================================================================
