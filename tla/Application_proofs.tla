-------------------------- MODULE Application_proofs --------------------------
(***************************************************************************)
(* The application keeps its message buffer, and the broadcast layer under *)
(* it signals each wave once and does not touch a packet it has handed on, *)
(* for every set of samples, every length of the forwarding ring and every *)
(* number of wave numbers.                                                 *)
(*                                                                         *)
(* Ring: what QueuedSend has are the buffers from the tail to the head, in *)
(* their order; so the one at the head is not among them.  Caught: if no   *)
(* wave is missed, the number the mote knows is that of the last wave, or  *)
(* the one before as long as the last has not come.                        *)
(*                                                                         *)
(* The ADC driver, at the end, reads each channel of the sensor board from *)
(* an ADC that is set to it, and leaves nothing undone or switched on, for *)
(* any channels, conversions and room in the task queue.                   *)
(***************************************************************************)
EXTENDS XMDA300, IBADC, FiniteSetTheorems, SequenceTheorems, WellFoundedInduction, TLAPS

(* The buffer i places behind the tail.                                     *)
Behind(i) ==
  IF iFwdBufTail + i < FWD_QUEUE_SIZE
  THEN iFwdBufTail + i
  ELSE iFwdBufTail + i - FWD_QUEUE_SIZE

Ring ==
  /\ Len(queue) < FWD_QUEUE_SIZE
  /\ iFwdBufHead = Behind(Len(queue))
  /\ \A i \in 1 .. Len(queue) : queue[i].slot = Behind(i - 1) /\ queue[i].kept

(* The number that follows.                                                 *)
Following(w) == IF w = Numbers - 1 THEN 0 ELSE w + 1

Caught ==
  /\ SignaledOnce
  /\ \/ BcastSeqno = wave
     \/ wave = Following(BcastSeqno) /\ signaled = 0

Forwarding == BcastTypeOK /\ Ring

Waving == BcastTypeOK /\ Caught
-----------------------------------------------------------------------------
LEMMA WaveFacts ==
  /\ Numbers \in Nat /\ Numbers >= 2
  /\ \E half \in Nat : /\ Numbers = 2 * half /\ Numbers \div 2 = half
                      /\ half >= 1 /\ Window \in 1 .. half
BY BcastAssumption

(* Arithmetic of the numbers, which are taken modulo Numbers.               *)
LEMMA ModFacts ==
  ASSUME NEW M \in Nat, M > 0, NEW n \in Int
  PROVE  /\ n \in 0 .. M - 1 => n % M = n
         /\ n \in -M .. -1 => n % M = n + M
         /\ n = M => n % M = 0
<1>1. ASSUME n \in 0 .. M - 1 PROVE n % M = n
  BY <1>1
<1>2. ASSUME n \in -M .. -1 PROVE n % M = n + M
  BY <1>2
<1>3. ASSUME n = M PROVE n % M = 0
  BY <1>3
<1>. QED  BY <1>1, <1>2, <1>3

LEMMA SlotFacts ==
  ASSUME NEW s \in FwdSlots
  PROVE  /\ AfterSlot(s) = IF s + 1 = FWD_QUEUE_SIZE THEN 0 ELSE s + 1
         /\ AfterSlot(s) \in FwdSlots
<1>1. FWD_QUEUE_SIZE \in Nat /\ FWD_QUEUE_SIZE > 0 /\ s + 1 \in Int
  BY BcastAssumption DEF FwdSlots
<1>2. s + 1 = FWD_QUEUE_SIZE => (s + 1) % FWD_QUEUE_SIZE = 0
  BY <1>1, ModFacts
<1>3. s + 1 # FWD_QUEUE_SIZE => (s + 1) % FWD_QUEUE_SIZE = s + 1
  <2>1. s + 1 # FWD_QUEUE_SIZE => s + 1 \in 0 .. FWD_QUEUE_SIZE - 1
    BY <1>1 DEF FwdSlots
  <2>. QED  BY <1>1, <2>1, ModFacts
<1>. QED  BY <1>1, <1>2, <1>3 DEF AfterSlot, FwdSlots
(* The buffer behind the last one in use.                                   *)
LEMMA BehindFacts ==
  ASSUME iFwdBufTail \in FwdSlots, NEW n \in Nat, n + 1 < FWD_QUEUE_SIZE
  PROVE  /\ Behind(n) \in FwdSlots /\ AfterSlot(Behind(n)) = Behind(n + 1)
         /\ \A i \in Nat : i < n => Behind(i) # Behind(n)
<1>1. /\ FWD_QUEUE_SIZE \in Int /\ iFwdBufTail \in Int /\ 0 <= iFwdBufTail
      /\ iFwdBufTail < FWD_QUEUE_SIZE
  BY BcastAssumption DEF FwdSlots
<1>2. Behind(n) \in FwdSlots
  BY <1>1 DEF Behind, FwdSlots
<1>3. AfterSlot(Behind(n)) = IF Behind(n) + 1 = FWD_QUEUE_SIZE THEN 0 ELSE Behind(n) + 1
  BY <1>2, SlotFacts
<1>4. AfterSlot(Behind(n)) = Behind(n + 1)
  BY <1>1, <1>3 DEF Behind
<1>5. \A i \in Nat : i < n => Behind(i) # Behind(n)
  BY <1>1 DEF Behind
<1>. QED  BY <1>2, <1>4, <1>5
-----------------------------------------------------------------------------
(* A buffer is used again only when QueuedSend has given it back.           *)
LEMMA ReceiveRing ==
  ASSUME Forwarding, NEW w, ReceiveNew(w)
  PROVE  Forwarding'
<1>1. /\ BcastTypeOK /\ Ring /\ Numbers \in Nat /\ Numbers > 0
      /\ FWD_QUEUE_SIZE \in Nat /\ FWD_QUEUE_SIZE > 0
  BY BcastAssumption DEF Forwarding
<1>2. /\ queue \in Seq([slot : FwdSlots, kept : BOOLEAN])
      /\ Len(queue) \in Nat /\ Len(queue) < FWD_QUEUE_SIZE
      /\ iFwdBufHead \in FwdSlots /\ iFwdBufTail \in FwdSlots
      /\ iFwdBufHead = Behind(Len(queue))
      /\ \A i \in 1 .. Len(queue) : queue[i].slot = Behind(i - 1) /\ queue[i].kept = TRUE
  BY <1>1 DEF BcastTypeOK, Ring
<1>3. /\ BcastSeqno' \in Waves /\ signaled' \in 0 .. 2
      /\ UNCHANGED <<iFwdBufTail, wave>> /\ FwdBcast
  BY <1>1 DEF ReceiveNew, BcastTypeOK, Waves
<1>4. CASE UNCHANGED <<iFwdBufHead, queue>>
  BY <1>1, <1>3, <1>4 DEF Forwarding, BcastTypeOK, Ring, Behind
<1>5. ASSUME ~RingFull
      PROVE  Len(queue) + 1 < FWD_QUEUE_SIZE /\ Overwritten = queue
  <2>1. Len(queue) + 1 < FWD_QUEUE_SIZE
    <3>1. CASE Len(queue) + 1 = FWD_QUEUE_SIZE
      <4>1. iFwdBufHead = IF iFwdBufTail = 0 THEN Len(queue) ELSE iFwdBufTail - 1
        BY <1>2, <3>1 DEF Behind, FwdSlots
      <4>2. AfterSlot(iFwdBufHead) = iFwdBufTail
        <5>1. AfterSlot(iFwdBufHead) = IF iFwdBufHead + 1 = FWD_QUEUE_SIZE
                                       THEN 0 ELSE iFwdBufHead + 1
          BY <1>2, SlotFacts
        <5>. QED  BY <1>2, <3>1, <4>1, <5>1 DEF FwdSlots
      <4>. QED  BY <1>5, <4>2 DEF RingFull
    <3>2. CASE Len(queue) + 1 # FWD_QUEUE_SIZE
      BY <1>1, <1>2, <3>2
    <3>. QED  BY <3>1, <3>2
  <2>2. ASSUME NEW i \in 1 .. Len(queue)
        PROVE  [queue[i] EXCEPT !.kept = queue[i].kept /\ queue[i].slot # iFwdBufHead] = queue[i]
    <3>1. queue[i] \in [slot : FwdSlots, kept : BOOLEAN]
      <4>. DEFINE T == [slot : FwdSlots, kept : BOOLEAN]
      <4>1. queue \in Seq(T)
        BY <1>2
      <4>. HIDE DEF T
      <4>2. queue[i] \in T
        BY <4>1
      <4>. QED  BY <4>2 DEF T
    <3>2. queue[i].slot # iFwdBufHead
      BY <1>1, <1>2, <2>1, SMTT(30) DEF Behind, FwdSlots
    <3>3. (queue[i].kept /\ queue[i].slot # iFwdBufHead) = queue[i].kept
      BY <1>2, <3>2
    <3>. QED  BY <3>1, <3>3
  <2>3. Overwritten = [i \in 1 .. Len(queue) |-> queue[i]]
    BY <2>2 DEF Overwritten
  <2>. QED  BY <1>2, <2>1, <2>3
<1>6. CASE ~RingFull /\ queue' = Overwritten /\ UNCHANGED iFwdBufHead
  BY <1>4, <1>5, <1>6
<1>7. CASE /\ ~RingFull
           /\ queue' = Append(Overwritten, [slot |-> iFwdBufHead, kept |-> TRUE])
           /\ iFwdBufHead' = AfterSlot(iFwdBufHead)
  <2>1. PICK buf : buf = [slot |-> iFwdBufHead, kept |-> TRUE]
    OBVIOUS
  <2>2. queue' = Append(queue, buf) /\ Len(queue) + 1 < FWD_QUEUE_SIZE
    BY <1>5, <1>7, <2>1
  <2>3. /\ buf \in [slot : FwdSlots, kept : BOOLEAN]
        /\ buf.slot = iFwdBufHead /\ buf.kept = TRUE
    BY <1>2, <2>1
  <2>4. /\ queue' \in Seq([slot : FwdSlots, kept : BOOLEAN])
        /\ Len(queue') = Len(queue) + 1
        /\ \A i \in 1 .. Len(queue) + 1 :
             queue'[i] = IF i = Len(queue) + 1 THEN buf ELSE queue[i]
    BY <1>2, <2>2, <2>3
  <2>5. iFwdBufHead' \in FwdSlots
    BY <1>2, <1>7, SlotFacts
  <2>6. BcastTypeOK'
    BY <1>1, <1>3, <2>4, <2>5 DEF BcastTypeOK
  <2>7. iFwdBufHead' = Behind(Len(queue))'
    <3>1. iFwdBufHead' = Behind(Len(queue) + 1)
      BY <1>2, <1>7, <2>2, BehindFacts
    <3>2. PICK n : n = Len(queue) + 1 /\ n = Len(queue')
      BY <2>4
    <3>3. Behind(n)' = Behind(n)
      BY <1>3 DEF Behind
    <3>. QED  BY <3>1, <3>2, <3>3
  <2>8. ASSUME NEW i \in 1 .. Len(queue')
        PROVE  queue'[i].slot = Behind(i - 1)' /\ queue'[i].kept
    <3>1. Behind(i - 1)' = Behind(i - 1)
      BY <1>3 DEF Behind
    <3>2. CASE i = Len(queue) + 1
      <4>1. queue'[i] = buf
        BY <2>4, <3>2
      <4>2. i - 1 = Len(queue)
        BY <1>2, <3>2
      <4>. QED  BY <1>2, <2>3, <3>1, <4>1, <4>2
    <3>3. CASE i # Len(queue) + 1
      <4>1. queue'[i] = queue[i] /\ i \in 1 .. Len(queue)
        BY <1>2, <2>4, <3>3
      <4>. QED  BY <1>2, <3>1, <4>1
    <3>. QED  BY <3>2, <3>3
  <2>. QED  BY <2>2, <2>4, <2>6, <2>7, <2>8 DEF Forwarding, Ring
<1>. QED  BY <1>3, <1>4, <1>6, <1>7 DEF FwdBcast

LEMMA SendDoneRing ==
  ASSUME Forwarding, SendDone
  PROVE  Forwarding'
<1>1. /\ BcastTypeOK /\ Ring /\ FWD_QUEUE_SIZE \in Nat /\ FWD_QUEUE_SIZE > 0
  BY BcastAssumption DEF Forwarding
<1>2. /\ queue \in Seq([slot : FwdSlots, kept : BOOLEAN]) /\ queue # << >>
      /\ Len(queue) \in Nat /\ Len(queue) > 0 /\ Len(queue) < FWD_QUEUE_SIZE
      /\ iFwdBufHead \in FwdSlots /\ iFwdBufTail \in FwdSlots
      /\ iFwdBufHead = Behind(Len(queue))
      /\ \A i \in 1 .. Len(queue) : queue[i].slot = Behind(i - 1) /\ queue[i].kept
  BY <1>1 DEF BcastTypeOK, Ring, SendDone
<1>3. /\ queue' = Tail(queue) /\ UNCHANGED <<BcastSeqno, iFwdBufHead, wave, signaled>>
      /\ queue' \in Seq([slot : FwdSlots, kept : BOOLEAN])
      /\ Len(queue') = Len(queue) - 1
      /\ \A i \in 1 .. Len(queue) - 1 : queue'[i] = queue[i + 1]
  BY <1>2 DEF SendDone
<1>4. iFwdBufTail' = AfterSlot(iFwdBufTail) /\ iFwdBufTail' \in FwdSlots
  <2>1. Head(queue).slot = iFwdBufTail
    BY <1>1, <1>2 DEF Behind, FwdSlots
  <2>. QED  BY <1>2, <2>1, SlotFacts DEF SendDone
<1>5. ASSUME NEW i \in 0 .. Len(queue) - 1 PROVE Behind(i)' = Behind(i + 1)
  <2>1. /\ i \in Int /\ 0 <= i /\ i + 1 < FWD_QUEUE_SIZE
        /\ iFwdBufTail \in Int /\ 0 <= iFwdBufTail /\ iFwdBufTail < FWD_QUEUE_SIZE
        /\ FWD_QUEUE_SIZE \in Int
    BY <1>1, <1>2 DEF FwdSlots
  <2>2. iFwdBufTail' = IF iFwdBufTail + 1 = FWD_QUEUE_SIZE THEN 0 ELSE iFwdBufTail + 1
    BY <1>2, <1>4, SlotFacts
  <2>. QED  BY <2>1, <2>2 DEF Behind
<1>6. iFwdBufHead' = Behind(Len(queue))'
  <2>. PICK n : n = Len(queue')
    OBVIOUS
  <2>1. n \in 0 .. Len(queue) - 1 /\ n + 1 = Len(queue)
    BY <1>2, <1>3
  <2>2. Behind(n)' = Behind(n + 1)
    BY <1>5, <2>1
  <2>. QED  BY <1>2, <1>3, <2>1, <2>2
<1>7. ASSUME NEW i \in 1 .. Len(queue')
      PROVE  queue'[i].slot = Behind(i - 1)' /\ queue'[i].kept
  <2>1. queue'[i] = queue[i + 1] /\ i + 1 \in 1 .. Len(queue) /\ i - 1 \in 0 .. Len(queue) - 1
    BY <1>2, <1>3
  <2>2. Behind(i - 1)' = Behind(i)
    BY <1>5, <2>1
  <2>. QED  BY <1>2, <2>1, <2>2
<1>. QED
  BY <1>1, <1>2, <1>3, <1>4, <1>6, <1>7 DEF Forwarding, BcastTypeOK, Ring

LEMMA SendWaveRing ==
  ASSUME Forwarding, SendWave
  PROVE  Forwarding'
<1>1. wave' \in Waves
  BY BcastAssumption DEF Forwarding, BcastTypeOK, SendWave, Waves
<1>. QED  BY <1>1 DEF Forwarding, BcastTypeOK, Ring, Behind, SendWave

LEMMA ForwardingStep == Forwarding /\ [Next]_vars => Forwarding'
<1>. SUFFICES ASSUME Forwarding, [Next]_vars PROVE Forwarding'
  OBVIOUS
<1>1. CASE \E w : ReceiveNew(w)
  BY <1>1, ReceiveRing
<1>2. CASE SendDone
  BY <1>2, SendDoneRing
<1>3. CASE SendWave
  BY <1>3, SendWaveRing
<1>4. CASE UNCHANGED bcastVars
  BY <1>4 DEF Forwarding, BcastTypeOK, Ring, Behind, bcastVars
<1>. QED
  BY <1>1, <1>2, <1>3, <1>4
  DEF Next, vars, TimerDue, TimerFired, sampleRecord, dataReady, SampleFails, SendTask, SendReturns,
      Sends, SendRefused, Send_sendDone, Command, BroadcastCommand, RoutedCommand, Filtered, Plug,
      BcastStep
-----------------------------------------------------------------------------
LEMMA FollowingFacts ==
  ASSUME NEW w \in Waves
  PROVE  (w + 1) % Numbers = Following(w) /\ Following(w) \in Waves
<1>1. Numbers \in Nat /\ Numbers > 0 /\ w + 1 \in Int
  BY WaveFacts DEF Waves
<1>2. w = Numbers - 1 => (w + 1) % Numbers = 0
  BY <1>1, ModFacts
<1>3. w # Numbers - 1 => (w + 1) % Numbers = w + 1
  <2>1. w # Numbers - 1 => w + 1 \in 0 .. Numbers - 1
    BY <1>1 DEF Waves
  <2>. QED  BY <1>1, <2>1, ModFacts
<1>. QED  BY <1>1, <1>2, <1>3 DEF Following, Waves

(* The number of the wave that was sent i waves ago.                        *)
LEMMA AgoFacts ==
  ASSUME wave \in Waves, NEW i \in 0 .. Window - 1
  PROVE  (wave - i) % Numbers = IF wave >= i THEN wave - i ELSE wave - i + Numbers
<1>. PICK half \in Nat : Numbers = 2 * half /\ half >= 1 /\ Window \in 1 .. half
  BY WaveFacts
<1>1. Numbers \in Nat /\ Numbers > 0 /\ wave - i \in Int /\ wave \in 0 .. Numbers - 1
  BY WaveFacts DEF Waves
<1>2. CASE wave >= i
  <2>1. wave - i \in 0 .. Numbers - 1
    BY <1>1, <1>2
  <2>. QED  BY <1>1, <1>2, <2>1, ModFacts
<1>3. CASE wave < i
  <2>1. wave - i \in -Numbers .. -1
    BY <1>1, <1>3
  <2>. QED  BY <1>1, <1>3, <2>1, ModFacts
<1>. QED  BY <1>1, <1>2, <1>3

(* Of the waves on the air a mote that has missed none takes the last, if   *)
(* it has not had it.                                                       *)
LEMMA ReceiveWave ==
  ASSUME Waving, NEW w \in OnAir, ReceiveNew(w)
  PROVE  Caught'
<1>. PICK half \in Nat : /\ Numbers = 2 * half /\ Numbers \div 2 = half
                         /\ half >= 1 /\ Window \in 1 .. half
  BY WaveFacts
<1>1. /\ Numbers \in Nat /\ Numbers >= 2 /\ wave \in Waves /\ BcastSeqno \in Waves
      /\ BcastSeqno' = Following(BcastSeqno) /\ UNCHANGED wave
      /\ signaled' = IF w = wave /\ signaled = 0 THEN 1 ELSE 2
  BY WaveFacts, FollowingFacts DEF Waving, BcastTypeOK, ReceiveNew
<1>2. PICK i \in 0 .. Window - 1 : w = (wave - i) % Numbers
  BY DEF OnAir
<1>3. /\ w = IF wave >= i THEN wave - i ELSE wave - i + Numbers
      /\ wave \in 0 .. Numbers - 1 /\ BcastSeqno \in 0 .. Numbers - 1
      /\ w \in 0 .. Numbers - 1
  BY <1>1, <1>2, AgoFacts DEF Waves
<1>4. (w - BcastSeqno) % Numbers =
        IF w >= BcastSeqno THEN w - BcastSeqno ELSE w - BcastSeqno + Numbers
  <2>1. w - BcastSeqno \in Int /\ Numbers > 0
    BY <1>1, <1>3
  <2>2. CASE w >= BcastSeqno
    <3>1. w - BcastSeqno \in 0 .. Numbers - 1
      BY <1>1, <1>3, <2>2
    <3>. QED  BY <1>1, <2>1, <2>2, <3>1, ModFacts
  <2>3. CASE w < BcastSeqno
    <3>1. w - BcastSeqno \in -Numbers .. -1
      BY <1>1, <1>3, <2>3
    <3>. QED  BY <1>1, <1>3, <2>1, <2>3, <3>1, ModFacts
  <2>. QED  BY <1>1, <1>3, <2>2, <2>3
<1>5. PICK d : d = (w - BcastSeqno) % Numbers
  OBVIOUS
<1>6. /\ d = IF w >= BcastSeqno THEN w - BcastSeqno ELSE w - BcastSeqno + Numbers
      /\ 1 <= d /\ d < half
  BY <1>4, <1>5 DEF ReceiveNew, newBcast
<1>7. BcastSeqno # wave
  BY <1>1, <1>3, <1>6
<1>8. wave = Following(BcastSeqno) /\ signaled = 0
  BY <1>7 DEF Waving, Caught
<1>9. w = wave
  BY <1>1, <1>3, <1>6, <1>8 DEF Following
<1>. QED  BY <1>1, <1>8, <1>9 DEF Caught, SignaledOnce

LEMMA SendWaveWave ==
  ASSUME Lossless, Waving, SendWave
  PROVE  Caught'
<1>1. wave' = Following(BcastSeqno) /\ signaled' = 0 /\ UNCHANGED BcastSeqno
  BY FollowingFacts DEF Waving, BcastTypeOK, SendWave
<1>. QED  BY <1>1 DEF Caught, SignaledOnce

LEMMA WavingStep ==
  ASSUME Lossless, BcastTypeOK, BcastTypeOK', Caught, [Next]_vars
  PROVE  Caught'
<1>1. CASE \E w \in OnAir : ReceiveNew(w)
  BY <1>1, ReceiveWave DEF Waving
<1>2. CASE SendDone
  BY <1>2 DEF SendDone, Caught, SignaledOnce
<1>3. CASE SendWave
  BY <1>3, SendWaveWave DEF Waving
<1>4. CASE UNCHANGED bcastVars
  BY <1>4 DEF Caught, SignaledOnce, bcastVars
<1>. QED
  BY <1>1, <1>2, <1>3, <1>4
  DEF Next, vars, TimerDue, TimerFired, sampleRecord, dataReady, SampleFails, SendTask, SendReturns,
      Sends, SendRefused, Send_sendDone, Command, BroadcastCommand, RoutedCommand, Filtered, Plug,
      BcastStep
-----------------------------------------------------------------------------
(* Nothing but sendDone clears the flag while the router has the buffer.    *)
LEMMA BufferStep ==
  ASSUME WakesUnderWay = FALSE, BufferKept, [Next]_vars
  PROVE  BufferKept'
<1>1. CASE Send_sendDone
  BY <1>1 DEF Send_sendDone, BufferKept
<1>2. CASE SendTask
  BY <1>2 DEF SendTask, SendReturns, Sends, SendRefused, MaySend, BufferKept
<1>3. CASE Received
  BY <1>3 DEF Received, SetRate, Sleep, Wakeup, BufferKept
<1>4. CASE UNCHANGED <<held, sending_packet>>
  BY <1>4 DEF BufferKept
<1>. QED
  BY <1>1, <1>2, <1>3, <1>4
  DEF Next, vars, appVars, TimerDue, TimerFired, sampleRecord, dataReady, SampleFails, Command,
      BroadcastCommand, RoutedCommand, Filtered, Plug, BcastStep
-----------------------------------------------------------------------------
LEMMA KindsFinite == IsFiniteSet(Kinds) /\ BATTERY \in Kinds /\ Len(Order) \in Nat
<1>1. Order \in Seq(STRING) /\ BATTERY \in Kinds
  BY XMDA300Assumption
<1>2. Len(Order) \in Nat /\ Order \in [1 .. Len(Order) -> STRING]
  BY <1>1
<1>3. Order \in Surjection(1 .. Len(Order), Kinds)
  BY <1>2 DEF Kinds, Surjection
<1>4. IsFiniteSet(1 .. Len(Order))
  BY <1>2, FS_Interval
<1>. QED  BY <1>1, <1>2, <1>3, <1>4, FS_Surjection

(* The records of one kind are some of those that are used.                 *)
LEMMA UsedFacts ==
  ASSUME records \in [Kinds -> 0 .. MAX_SAMPLERECORD], NEW k \in Kinds
  PROVE  Used \in Nat /\ records[k] <= Used
<1>. DEFINE R == {r \in Kinds \X (1 .. MAX_SAMPLERECORD) : r[2] <= records[r[1]]}
            F == {k} \X (1 .. records[k])
<1>1. MAX_SAMPLERECORD \in Nat /\ records[k] \in Nat /\ records[k] <= MAX_SAMPLERECORD
  BY XMDA300Assumption
<1>2. IsFiniteSet(1 .. MAX_SAMPLERECORD)
  BY <1>1, FS_Interval
<1>3. IsFiniteSet(Kinds \X (1 .. MAX_SAMPLERECORD))
  BY <1>2, KindsFinite, FS_Product
<1>4. IsFiniteSet(R)
  BY <1>3, FS_Subset
<1>5. IsFiniteSet({k}) /\ Cardinality({k}) = 1
  BY FS_Singleton
<1>6. IsFiniteSet(1 .. records[k]) /\ Cardinality(1 .. records[k]) = records[k]
  <2>1. \A n \in Nat : IsFiniteSet(1 .. n) /\ Cardinality(1 .. n) = n
    <3>. TAKE n \in Nat
    <3>1. n \in Int /\ 1 \in Int
      OBVIOUS
    <3>2. /\ IsFiniteSet(1 .. n)
          /\ Cardinality(1 .. n) = IF 1 > n THEN 0 ELSE n - 1 + 1
      BY <3>1, FS_Interval, Zenon
    <3>3. (IF 1 > n THEN 0 ELSE n - 1 + 1) = n
      OBVIOUS
    <3>. QED  BY <3>2, <3>3
  <2>. QED  BY <1>1, <2>1, Zenon
<1>7. Cardinality(F) = records[k]
  <2>1. Cardinality(F) = Cardinality({k}) * Cardinality(1 .. records[k])
    BY <1>5, <1>6, FS_Product, Zenon
  <2>2. Cardinality(F) = 1 * records[k]
    BY <1>5, <1>6, <2>1, Zenon
  <2>. QED  BY <1>1, <2>2
<1>8. F \subseteq R
  BY <1>1
<1>9. Cardinality(F) <= Cardinality(R)
  BY <1>4, <1>8, FS_Subset
<1>10. Cardinality(R) \in Nat
  BY <1>4, FS_CardinalityType
<1>. QED  BY <1>1, <1>7, <1>9, <1>10 DEF Used

LEMMA AskedFacts ==
  ASSUME records \in [Kinds -> 0 .. MAX_SAMPLERECORD], NEW kinds, Len(kinds) \in Nat
  PROVE  Asked(kinds) \in [Kinds -> 0 .. MAX_SAMPLERECORD]
<1>. SUFFICES ASSUME NEW k \in Kinds, NEW i \in 1 .. Len(kinds), Used + i <= MAX_SAMPLERECORD
              PROVE  records[k] + 1 \in 0 .. MAX_SAMPLERECORD
  BY DEF Asked
<1>1. Used \in Nat /\ records[k] <= Used /\ records[k] \in Nat /\ MAX_SAMPLERECORD \in Nat
  BY UsedFacts, XMDA300Assumption
<1>. QED  BY <1>1

LEMMA NoRecordsFacts == NoRecords \in [Kinds -> 0 .. MAX_SAMPLERECORD]
BY XMDA300Assumption DEF NoRecords

LEMMA TypeStep ==
  ASSUME TypeOK, BcastTypeOK', [Next]_vars
  PROVE  TypeOK'
<1>1. MaxPosts \in Nat
  BY XMDA300Assumption
<1>2. CASE UNCHANGED vars
  BY <1>2 DEF TypeOK, vars, appVars
<1>3. CASE TimerDue \/ Plug
  BY <1>3 DEF TypeOK, TimerDue, Plug
<1>4. CASE TimerFired
  <2>1. records' \in [Kinds -> 0 .. MAX_SAMPLERECORD]
    <3>1. Len(IF plugged THEN Order ELSE <<BATTERY>>) \in Nat
      BY KindsFinite
    <3>2. records \in [Kinds -> 0 .. MAX_SAMPLERECORD]
      BY DEF TypeOK
    <3>3. \A kinds : Len(kinds) \in Nat => Asked(kinds) \in [Kinds -> 0 .. MAX_SAMPLERECORD]
      BY <3>2, AskedFacts
    <3>. QED  BY <1>4, <3>1, <3>2, <3>3 DEF TimerFired
  <2>. QED  BY <1>4, <2>1 DEF TypeOK, TimerFired
<1>5. ASSUME NEW k \in Kinds, sampleRecord(k) \/ SampleFails(k)
      PROVE  TypeOK'
  BY <1>5 DEF TypeOK, sampleRecord, SampleFails
<1>6. ASSUME NEW k \in Kinds, dataReady(k)
      PROVE  TypeOK'
  <2>1. posted' \in 0 .. MaxPosts
    BY <1>1, <1>6 DEF TypeOK, dataReady
  <2>2. msg_status' \subseteq Kinds /\ samplebatt' \in BOOLEAN
    BY <1>6 DEF TypeOK, dataReady
  <2>3. under' \subseteq Kinds /\ records' \in [Kinds -> 0 .. MAX_SAMPLERECORD]
    BY <1>6, NoRecordsFacts DEF TypeOK, dataReady, StdControl_stop, AllFreed
  <2>. QED  BY <1>6, <2>1, <2>2, <2>3 DEF TypeOK, dataReady
<1>7. CASE SendTask \/ Send_sendDone
  <2>1. CASE SendTask
    <3>1. posted' \in 0 .. MaxPosts
      BY <1>1, <2>1 DEF TypeOK, SendTask, SendReturns, Sends, SendRefused
    <3>. QED  BY <2>1, <3>1 DEF TypeOK, SendTask, SendReturns, Sends, SendRefused
  <2>2. CASE Send_sendDone
    BY <2>2 DEF TypeOK, Send_sendDone
  <2>. QED  BY <1>7, <2>1, <2>2
<1>8. CASE Received
  BY <1>8, NoRecordsFacts
  DEF TypeOK, Received, SetRate, Sleep, Wakeup, StdControl_stop, AllFreed
<1>9. CASE UNCHANGED appVars
  BY <1>9 DEF TypeOK, appVars
<1>. QED
  BY <1>2, <1>3, <1>4, <1>5, <1>6, <1>7, <1>8, <1>9
  DEF Next, Command, BroadcastCommand, RoutedCommand, Filtered, BcastStep
-----------------------------------------------------------------------------
LEMMA InitInv == Init => TypeOK /\ Forwarding /\ Caught /\ BufferKept
<1>. SUFFICES ASSUME Init PROVE TypeOK /\ Forwarding /\ Caught /\ BufferKept
  OBVIOUS
<1>1. BcastTypeOK
  BY BcastAssumption, WaveFacts DEF Init, BcastInit, BcastTypeOK, Waves, FwdSlots
<1>2. Ring
  BY BcastAssumption DEF Init, BcastInit, Ring, Behind
<1>3. Caught /\ BufferKept
  BY DEF Init, BcastInit, Caught, SignaledOnce, BufferKept
<1>4. TypeOK
  <2>1. 0 \in 0 .. MaxPosts /\ {} \subseteq Kinds
    BY XMDA300Assumption
  <2>. QED  BY <1>1, <2>1, NoRecordsFacts DEF Init, TypeOK
<1>. QED  BY <1>1, <1>2, <1>3, <1>4 DEF Forwarding

LEMMA ForwardingAlways == Spec => []Forwarding
BY InitInv, ForwardingStep, PTL DEF Spec

(* Every variable has a value of its type; in particular no more records    *)
(* are asked for than there are, and no index leaves the ring.              *)
THEOREM TypeCorrect == Spec => []TypeOK
<1>1. TypeOK /\ Forwarding' /\ [Next]_vars => TypeOK'
  BY TypeStep DEF Forwarding
<1>. QED  BY <1>1, InitInv, ForwardingAlways, PTL DEF Spec

(* A packet that waits to be sent on is never written to, with waves lost   *)
(* or not.                                                                  *)
THEOREM ForwardsKeptAlways == Spec => []ForwardsKept
<1>1. Forwarding => ForwardsKept
  BY DEF Forwarding, Ring, ForwardsKept
<1>. QED  BY <1>1, ForwardingAlways, PTL

(* If no wave is missed, each is signaled once, and sent on as received.    *)
THEOREM EachWaveOnceAlways ==
  ASSUME Lossless = TRUE
  PROVE  Spec => []EachWaveOnce
<1>1. Forwarding /\ Forwarding' /\ Caught /\ [Next]_vars => Caught'
  BY WavingStep DEF Forwarding
<1>2. Caught /\ ForwardsKept => EachWaveOnce
  BY DEF Caught, EachWaveOnce
<1>. QED  BY <1>1, <1>2, InitInv, ForwardingAlways, ForwardsKeptAlways, PTL DEF Spec

(* The message buffer is not filled again while the router has it, unless a *)
(* command wakes the mote in that time.                                     *)
THEOREM BufferKeptAlways ==
  ASSUME WakesUnderWay = FALSE
  PROVE  Spec => []BufferKept
<1>1. BufferKept /\ [Next]_vars => BufferKept'
  BY BufferStep
<1>. QED  BY <1>1, InitInv, PTL DEF Spec
-----------------------------------------------------------------------------
(* The ADC driver.                                                          *)
AdcTasks == {"I2C_task", "adc_get_data", "output_ref", "stopchannel"}

InQueue(q, t) == \E i \in 1 .. Len(q) : q[i] = t

(* No two of the tasks of q are in S.                                       *)
AtMostOne(q, S) == \A i, j \in 1 .. Len(q) : q[i] \in S /\ q[j] \in S => i = j

Queue(q) ==
  /\ q \in Seq(AdcTasks)
  /\ Len(q) <= MaxTasks
  /\ AtMostOne(q, {"I2C_task"})
  /\ AtMostOne(q, {"output_ref", "stopchannel"})

Writing == bus.state \in {"WRITE_ADDRESS", "WRITE_DATA", "STOP_COMMAND", "STOP_COMMAND_SENT"}

Reading == bus.state \in {"READ_ADDRESS", "READ_DATA", "READ_DONE"}

(* The packet driver and the byte driver agree on what comes next.          *)
BusInv ==
  /\ bus.i2c = "none" <=> bus.state = "IDLE"
  /\ bus.i2c = "SEND_START" <=> bus.state \in {"WRITE_ADDRESS", "READ_ADDRESS"}
  /\ bus.i2c = "READ_DATA" => bus.state = "READ_DATA"
  /\ bus.i2c = "SEND_END" <=> bus.state \in {"STOP_COMMAND_SENT", "READ_DONE"}
  /\ bus.state \in {"WRITE_ADDRESS", "WRITE_DATA"} => bus.index = 0 /\ bus.length = 1
  /\ bus.state = "READ_ADDRESS" => bus.index = 0 /\ bus.length > 0
  /\ bus.state = "READ_DATA" => bus.index <= bus.length
  /\ bus.byte \in Codes
  /\ bus.data = "condition" => condition # Unset

(* The driver's task is posted only while a packet is on the bus, and       *)
(* stopchannel only while no channel is converted.                          *)
QueueInv ==
  /\ Queue(tasks)
  /\ InQueue(tasks, "I2C_task") => bus.state # "IDLE"
  /\ InQueue(tasks, "stopchannel") => state = "IDLE" /\ ~sflag

(* The channel to convert is on its way to the ADC.                         *)
PickInv ==
  state = "PICK_CHANNEL" =>
    /\ i2cwflag = 1
    /\ bus.addr = "IBADC" /\ bus.data = "condition" /\ Writing
    /\ chan \in Channels =>
         /\ bus.state \in {"WRITE_ADDRESS", "WRITE_DATA"} => condition = Code(chan)
         /\ bus.state = "STOP_COMMAND" => bus.byte = Code(chan)
         /\ bus.state = "STOP_COMMAND_SENT" => selected = Code(chan)

(* The value is on its way from the ADC.                                    *)
SampleInv ==
  state = "GET_SAMPLE" =>
    /\ i2crflag
    /\ bus.addr = "IBADC" /\ Reading
    /\ chan \in Channels => selected = Code(chan)

StateInv ==
  /\ state # "CONTINUE_SAMPLE"
  /\ state = "START_CONVERSION_PROCESS" => powerTimer
  /\ state # "IDLE" => adc_bitmap # {} /\ conversionNumber > 0 /\ sflag

(* What output_ref interrupts is taken up again, and resets the excitation. *)
ExcitationInv ==
  excitation /\ state = "IDLE" /\ AlwaysOn \cap Excited = {}
    => adc_bitmap # {} /\ (sflag \/ InQueue(tasks, "output_ref"))

AdcInv ==
  /\ AdcTypeOK
  /\ BusInv
  /\ QueueInv
  /\ PickInv
  /\ SampleInv
  /\ StateInv
  /\ ExcitationInv

(* A channel that waits has a task that will take it.                       *)
WaitInv ==
  sflag /\ adc_bitmap # {} /\ state = "IDLE"
    => InQueue(tasks, "adc_get_data") \/ InQueue(tasks, "output_ref")
-----------------------------------------------------------------------------
LEMMA PostedFacts ==
  ASSUME NEW q \in Seq(AdcTasks), Len(q) <= MaxTasks, NEW t \in AdcTasks
  PROVE  /\ Posted(q, t) \in Seq(AdcTasks)
         /\ Len(Posted(q, t)) <= MaxTasks
         /\ \A u : InQueue(Posted(q, t), u) => InQueue(q, u) \/ u = t
         /\ \A u : InQueue(q, u) => InQueue(Posted(q, t), u)
         /\ Len(q) < MaxTasks => InQueue(Posted(q, t), t)
         /\ \A S : AtMostOne(q, S) /\ (t \in S => \A u \in S : ~InQueue(q, u))
                     => AtMostOne(Posted(q, t), S)
<1>. Len(q) \in Nat /\ MaxTasks \in Nat
  BY I2CPacketAssumption
<1>1. CASE Len(q) >= MaxTasks
  BY <1>1 DEF Posted
<1>2. CASE Len(q) < MaxTasks
  <2>1. /\ Posted(q, t) \in Seq(AdcTasks)
        /\ Len(Posted(q, t)) = Len(q) + 1
        /\ \A i \in 1 .. Len(q) : Posted(q, t)[i] = q[i]
        /\ Posted(q, t)[Len(q) + 1] = t
    BY <1>2 DEF Posted
  <2>2. \A u : InQueue(Posted(q, t), u) <=> InQueue(q, u) \/ u = t
    BY <2>1 DEF InQueue
  <2>3. ASSUME NEW S, AtMostOne(q, S), t \in S => \A u \in S : ~InQueue(q, u)
        PROVE  AtMostOne(Posted(q, t), S)
    <3>. SUFFICES ASSUME NEW i \in 1 .. Len(q) + 1, NEW j \in 1 .. Len(q) + 1,
                         Posted(q, t)[i] \in S, Posted(q, t)[j] \in S
                  PROVE  i = j
      BY <2>1 DEF AtMostOne
    <3>1. ASSUME t \in S, NEW k \in 1 .. Len(q) PROVE q[k] \notin S
      BY <2>3, <3>1 DEF InQueue
    <3>. QED  BY <2>1, <2>3, <3>1 DEF AtMostOne
  <2>. QED  BY <1>2, <2>1, <2>2, <2>3
<1>. QED  BY <1>1, <1>2

LEMMA TailFacts ==
  ASSUME NEW q \in Seq(AdcTasks), Len(q) <= MaxTasks, q # << >>
  PROVE  /\ Head(q) \in AdcTasks
         /\ Tail(q) \in Seq(AdcTasks)
         /\ Len(Tail(q)) < MaxTasks /\ Len(Tail(q)) = Len(q) - 1
         /\ \A u : InQueue(q, u) <=> InQueue(Tail(q), u) \/ u = Head(q)
         /\ \A S : AtMostOne(q, S)
              => /\ AtMostOne(Tail(q), S)
                 /\ Head(q) \in S => \A u \in S : ~InQueue(Tail(q), u)
<1>1. /\ Len(q) \in Nat \ {0} /\ MaxTasks \in Nat
      /\ Tail(q) \in Seq(AdcTasks)
      /\ Len(Tail(q)) = Len(q) - 1
      /\ \A i \in 1 .. Len(q) - 1 : Tail(q)[i] = q[i + 1]
      /\ Head(q) = q[1] /\ q[1] \in AdcTasks
  BY HeadTailProperties, I2CPacketAssumption
<1>2. ASSUME NEW u, NEW i \in 1 .. Len(q), q[i] = u, i # 1 PROVE InQueue(Tail(q), u)
  <2>1. i - 1 \in 1 .. Len(Tail(q)) /\ Tail(q)[i - 1] = u
    BY <1>1, <1>2
  <2>. QED  BY <2>1 DEF InQueue
<1>3. ASSUME NEW u, NEW i \in 1 .. Len(Tail(q)), Tail(q)[i] = u
      PROVE  i + 1 \in 1 .. Len(q) /\ q[i + 1] = u
  BY <1>1, <1>3
<1>4. \A u : InQueue(q, u) <=> InQueue(Tail(q), u) \/ u = Head(q)
  <2>. SUFFICES ASSUME NEW u PROVE InQueue(q, u) <=> InQueue(Tail(q), u) \/ u = Head(q)
    OBVIOUS
  <2>1. ASSUME InQueue(q, u) PROVE InQueue(Tail(q), u) \/ u = Head(q)
    BY <2>1, <1>1, <1>2 DEF InQueue
  <2>2. ASSUME InQueue(Tail(q), u) PROVE InQueue(q, u)
    BY <2>2, <1>3 DEF InQueue
  <2>3. ASSUME u = Head(q) PROVE InQueue(q, u)
    BY <2>3, <1>1 DEF InQueue
  <2>. QED  BY <2>1, <2>2, <2>3
<1>5. ASSUME NEW S, AtMostOne(q, S) PROVE AtMostOne(Tail(q), S)
  <2>. SUFFICES ASSUME NEW i \in 1 .. Len(Tail(q)), NEW j \in 1 .. Len(Tail(q)),
                       Tail(q)[i] \in S, Tail(q)[j] \in S
                PROVE  i = j
    BY DEF AtMostOne
  <2>1. i + 1 = j + 1
    BY <1>3, <1>5 DEF AtMostOne
  <2>. QED  BY <2>1
<1>6. ASSUME NEW S, AtMostOne(q, S), Head(q) \in S, NEW u \in S, InQueue(Tail(q), u)
      PROVE  FALSE
  <2>1. PICK i \in 1 .. Len(Tail(q)) : Tail(q)[i] = u
    BY <1>6 DEF InQueue
  <2>2. i + 1 = 1
    BY <2>1, <1>1, <1>3, <1>6 DEF AtMostOne
  <2>. QED  BY <2>1, <2>2
<1>. QED  BY <1>1, <1>4, <1>5, <1>6

(* A full queue that has no I2C_task twice, and no second task that starts  *)
(* or stops, holds adc_get_data.                                            *)
LEMMA FullFacts ==
  ASSUME NEW q, Queue(q), ~(Len(q) < MaxTasks),
         MaxTasks >= 3 \/ (MaxTasks >= 2 /\ ~InQueue(q, "output_ref") /\ ~InQueue(q, "stopchannel"))
  PROVE  InQueue(q, "adc_get_data")
<1>1. /\ Len(q) = MaxTasks /\ MaxTasks \in Nat /\ MaxTasks >= 2
      /\ \A i \in 1 .. Len(q) : q[i] \in AdcTasks
  BY I2CPacketAssumption DEF Queue
<1>. SUFFICES ASSUME \A i \in 1 .. Len(q) : q[i] # "adc_get_data"
              PROVE  FALSE
  BY DEF InQueue
<1>2. \A i \in 1 .. Len(q) : q[i] = "I2C_task" \/ q[i] \in {"output_ref", "stopchannel"}
  BY <1>1 DEF AdcTasks
<1>3. \A i, j \in 1 .. Len(q) : q[i] = "I2C_task" /\ q[j] = "I2C_task" => i = j
  BY DEF Queue, AtMostOne
<1>4. \A i, j \in 1 .. Len(q) :
        q[i] \in {"output_ref", "stopchannel"} /\ q[j] \in {"output_ref", "stopchannel"} => i = j
  BY DEF Queue, AtMostOne
<1>5. CASE MaxTasks >= 3
  <2>1. 1 \in 1 .. Len(q) /\ 2 \in 1 .. Len(q) /\ 3 \in 1 .. Len(q)
    BY <1>1, <1>5
  <2>2. q[1] # q[2] \/ q[1] # "I2C_task"
    BY <1>3, <2>1
  <2>. QED  BY <2>1, <1>2, <1>3, <1>4
<1>6. CASE ~InQueue(q, "output_ref") /\ ~InQueue(q, "stopchannel")
  <2>1. \A i \in 1 .. Len(q) : q[i] = "I2C_task"
    BY <1>2, <1>6 DEF InQueue
  <2>2. 1 \in 1 .. Len(q) /\ 2 \in 1 .. Len(q)
    BY <1>1
  <2>. QED  BY <2>1, <2>2, <1>3
<1>. QED  BY <1>5, <1>6
(* Taking the first task of a queue, and posting one.                       *)
LEMMA QueueTail ==
  ASSUME NEW q, Queue(q), q # << >>
  PROVE  /\ Queue(Tail(q)) /\ Len(Tail(q)) < MaxTasks
         /\ InQueue(q, Head(q))
         /\ \A u : u # Head(q) => (InQueue(Tail(q), u) <=> InQueue(q, u))
         /\ Head(q) = "I2C_task" => ~InQueue(Tail(q), "I2C_task")
         /\ Head(q) \in {"output_ref", "stopchannel"}
              => ~InQueue(Tail(q), "output_ref") /\ ~InQueue(Tail(q), "stopchannel")
<1>1. /\ Tail(q) \in Seq(AdcTasks) /\ Len(Tail(q)) < MaxTasks
      /\ \A u : InQueue(q, u) <=> InQueue(Tail(q), u) \/ u = Head(q)
      /\ \A S : AtMostOne(q, S)
           => /\ AtMostOne(Tail(q), S)
              /\ Head(q) \in S => \A u \in S : ~InQueue(Tail(q), u)
  BY TailFacts DEF Queue
<1>2. Len(Tail(q)) <= MaxTasks
  BY <1>1, I2CPacketAssumption
<1>3. AtMostOne(q, {"I2C_task"}) /\ AtMostOne(q, {"output_ref", "stopchannel"})
  BY DEF Queue
<1>4. Queue(Tail(q))
  BY <1>1, <1>2, <1>3 DEF Queue
<1>5. Head(q) = "I2C_task" => ~InQueue(Tail(q), "I2C_task")
  BY <1>1, <1>3
<1>6. Head(q) \in {"output_ref", "stopchannel"}
        => ~InQueue(Tail(q), "output_ref") /\ ~InQueue(Tail(q), "stopchannel")
  BY <1>1, <1>3
<1>. QED  BY <1>1, <1>4, <1>5, <1>6

LEMMA QueuePosted ==
  ASSUME NEW q, Queue(q), NEW t \in AdcTasks,
         t = "I2C_task" => ~InQueue(q, "I2C_task"),
         t \in {"output_ref", "stopchannel"}
           => ~InQueue(q, "output_ref") /\ ~InQueue(q, "stopchannel")
  PROVE  /\ Queue(Posted(q, t))
         /\ \A u : u # t => (InQueue(Posted(q, t), u) <=> InQueue(q, u))
         /\ Len(q) < MaxTasks => InQueue(Posted(q, t), t)
         /\ InQueue(q, t) => InQueue(Posted(q, t), t)
<1>1. /\ q \in Seq(AdcTasks) /\ Len(q) <= MaxTasks
      /\ AtMostOne(q, {"I2C_task"}) /\ AtMostOne(q, {"output_ref", "stopchannel"})
  BY DEF Queue
<1>2. /\ Posted(q, t) \in Seq(AdcTasks) /\ Len(Posted(q, t)) <= MaxTasks
      /\ \A u : InQueue(Posted(q, t), u) => InQueue(q, u) \/ u = t
      /\ \A u : InQueue(q, u) => InQueue(Posted(q, t), u)
      /\ Len(q) < MaxTasks => InQueue(Posted(q, t), t)
      /\ \A S : AtMostOne(q, S) /\ (t \in S => \A u \in S : ~InQueue(q, u))
                  => AtMostOne(Posted(q, t), S)
  BY <1>1, PostedFacts
<1>3. AtMostOne(Posted(q, t), {"I2C_task"})
  BY <1>1, <1>2
<1>4. AtMostOne(Posted(q, t), {"output_ref", "stopchannel"})
  BY <1>1, <1>2
<1>. QED  BY <1>2, <1>3, <1>4 DEF Queue

(* A post that is refused or not, of a task that is not limited.            *)
LEMMA GetDataPosted ==
  ASSUME NEW q, Queue(q)
  PROVE  /\ Queue(Posted(q, "adc_get_data"))
         /\ \A u : u # "adc_get_data"
              => (InQueue(Posted(q, "adc_get_data"), u) <=> InQueue(q, u))
         /\ Len(q) < MaxTasks => InQueue(Posted(q, "adc_get_data"), "adc_get_data")
         /\ InQueue(q, "adc_get_data") => InQueue(Posted(q, "adc_get_data"), "adc_get_data")
BY QueuePosted DEF AdcTasks

LEMMA CodeFacts ==
  /\ \A c \in Channels \cup {0, MAX_ANALOG_CHNNELS + 1} : Code(c) \in Codes
  /\ \A c \in Channels \cup {0, MAX_ANALOG_CHNNELS + 1} : Code(c) # Unset
  /\ {0, 8, 15} \subseteq Codes /\ Unset \notin Codes
  /\ Codes \subseteq Bytes
  /\ MAX_ANALOG_CHNNELS + 1 \notin Channels
  /\ \A c \in Channels : c \in 0 .. MAX_ANALOG_CHNNELS
<1>1. \A c \in Channels : c \in 0 .. MAX_ANALOG_CHNNELS
  BY IBADCAssumption DEF MAX_ANALOG_CHNNELS
<1>2. \A c \in 0 .. MAX_ANALOG_CHNNELS + 1 : Code(c) \in Nat
  BY DEF Code, MAX_ANALOG_CHNNELS
<1>3. Code(0) = 8 /\ Code(MAX_ANALOG_CHNNELS + 1) = 8
  BY DEF Code, MAX_ANALOG_CHNNELS
<1>4. Codes \subseteq Nat
  BY <1>1, <1>2 DEF Codes, MAX_ANALOG_CHNNELS
<1>5. Unset \notin Codes
  BY <1>4 DEF Unset
<1>6. \A c \in Channels \cup {0, MAX_ANALOG_CHNNELS + 1} : Code(c) \in Codes
  BY <1>3 DEF Codes
<1>. QED  BY <1>1, <1>5, <1>6, CodesAssumption DEF Codes, MAX_ANALOG_CHNNELS

Below == {p \in Nat \X Nat : p[1] < p[2]}

LEMMA Nearest ==
  ASSUME NEW T, T \subseteq Nat, T # {}
  PROVE  \E x \in T : \A y \in T : x <= y
<1>1. IsWellFoundedOn(Below, Nat)
  BY NatLessThanWellFounded DEF OpToRel, Below
<1>2. PICK x \in T : \A y \in T : <<y, x>> \notin Below
  BY <1>1, WFMin
<1>3. ASSUME NEW y \in T PROVE x <= y
  <2>1. x \in Nat /\ y \in Nat /\ <<y, x>> \notin Below
    BY <1>2
  <2>2. y < x => <<y, x>> \in Below
    BY <2>1 DEF Below
  <2>. QED  BY <2>1, <2>2
<1>. QED  BY <1>3

(* The channel taken is one that waits.                                     *)
LEMMA NextChannelFacts ==
  ASSUME adc_bitmap \subseteq Channels, adc_bitmap # {},
         chan \in Channels \cup {0, MAX_ANALOG_CHNNELS + 1}
  PROVE  NextChannel \in adc_bitmap
<1>. DEFINE Distances == {Distance(c) : c \in adc_bitmap}
<1>1. \A c \in adc_bitmap : Distance(c) \in Nat
  BY CodeFacts DEF Distance, MAX_ANALOG_CHNNELS
<1>2. Distances \subseteq Nat /\ Distances # {}
  BY <1>1
<1>3. PICK n \in Distances : \A m \in Distances : n <= m
  BY <1>2, Nearest
<1>4. PICK c \in adc_bitmap : n = Distance(c)
  BY <1>3
<1>5. \A d \in adc_bitmap : Distance(c) <= Distance(d)
  BY <1>3, <1>4
<1>. HIDE DEF Distances
<1>. QED  BY <1>4, <1>5 DEF NextChannel
-----------------------------------------------------------------------------
(* What a step does to the bus.                                             *)
BusOK == BusTypeOK /\ BusInv

LEMMA BusIdle == bus' = Idle => BusOK' /\ bus'.state = "IDLE"
BY CodeFacts DEF Idle, BusOK, BusTypeOK, BusStates, BusInv

Packets ==
  [state : BusStates, i2c : {"none", "SEND_START", "WRITE_DATA", "READ_DATA", "SEND_END"},
   addr : Clients \cup {"none"}, index : 0 .. 3, length : 0 .. 2,
   data : Pointers \cup {"NULL"}, byte : Bytes]

LEMMA BusFree ==
  ASSUME BusOK, NEW b \in {bus, Idle}
  PROVE  b \in Packets /\ b.byte \in Codes /\ (b.data = "condition" => condition # Unset)
<1>1. Idle \in Packets /\ Idle.byte \in Codes /\ Idle.data # "condition"
  BY CodeFacts DEF Idle, Packets, BusStates
<1>2. bus \in Packets
  BY DEF BusOK, BusTypeOK, Packets
<1>3. bus.byte \in Codes /\ (bus.data = "condition" => condition # Unset)
  BY DEF BusOK, BusInv
<1>. QED  BY <1>1, <1>2, <1>3

LEMMA BusWrite ==
  ASSUME BusOK, NEW b \in {bus, Idle}, NEW id \in {"IBADC", "Dio"},
         NEW p \in {"condition", "val", "i2c_data"}, bus' = writePacket(b, id, p),
         condition' # Unset \/ p # "condition"
  PROVE  /\ BusOK'
         /\ bus'.state = "WRITE_ADDRESS" /\ bus'.addr = id /\ bus'.data = p
<1>1. b \in Packets /\ b.byte \in Codes
  BY BusFree
<1>2. id \in Clients /\ p \in Pointers
  BY IBADCAssumption
<1>3. bus' \in [state : {"WRITE_ADDRESS"}, i2c : {"SEND_START"}, addr : {id}, index : {0},
               length : {1}, data : {p}, byte : {b.byte}]
  BY <1>1 DEF writePacket, Packets
<1>4. bus' \in Packets
  BY <1>1, <1>2, <1>3 DEF Packets, BusStates
<1>5. BusInv'
  BY <1>1, <1>3 DEF BusInv
<1>. QED  BY <1>3, <1>4, <1>5 DEF BusOK, BusTypeOK, Packets

LEMMA BusRead ==
  ASSUME BusOK, NEW b \in {bus, Idle}, NEW id \in {"IBADC", "Dio"},
         NEW length \in 1 .. 2, bus' = readPacket(b, id, length),
         condition' = condition
  PROVE  BusOK' /\ bus'.state = "READ_ADDRESS" /\ bus'.addr = id
<1>1. b \in Packets /\ b.byte \in Codes /\ (b.data = "condition" => condition # Unset)
  BY BusFree
<1>2. id \in Clients /\ length \in 0 .. 2
  BY IBADCAssumption
<1>3. bus' \in [state : {"READ_ADDRESS"}, i2c : {"SEND_START"}, addr : {id}, index : {0},
               length : {length}, data : {b.data}, byte : {b.byte}]
  BY <1>1 DEF readPacket, Packets
<1>4. bus' \in Packets
  BY <1>1, <1>2, <1>3 DEF Packets, BusStates
<1>5. BusInv'
  BY <1>1, <1>3 DEF BusInv
<1>. QED  BY <1>3, <1>4, <1>5 DEF BusOK, BusTypeOK, Packets

(* I2C_task is at the head.                                                 *)
LEMMA I2CHead ==
  ASSUME QueueInv, tasks # << >>, Head(tasks) = "I2C_task"
  PROVE  /\ bus.state # "IDLE"
         /\ Queue(Tail(tasks)) /\ Len(Tail(tasks)) < MaxTasks
         /\ ~InQueue(Tail(tasks), "I2C_task")
         /\ \A u : u # "I2C_task" => (InQueue(Tail(tasks), u) <=> InQueue(tasks, u))
         /\ Queue(Posted(Tail(tasks), "I2C_task"))
         /\ \A u : u # "I2C_task"
              => (InQueue(Posted(Tail(tasks), "I2C_task"), u) <=> InQueue(tasks, u))
<1>1. /\ Queue(Tail(tasks)) /\ Len(Tail(tasks)) < MaxTasks
      /\ InQueue(tasks, "I2C_task")
      /\ \A u : u # "I2C_task" => (InQueue(Tail(tasks), u) <=> InQueue(tasks, u))
      /\ ~InQueue(Tail(tasks), "I2C_task")
  BY QueueTail DEF QueueInv
<1>2. "I2C_task" \in AdcTasks
  BY DEF AdcTasks
<1>3. /\ Queue(Posted(Tail(tasks), "I2C_task"))
      /\ \A u : u # "I2C_task"
           => (InQueue(Posted(Tail(tasks), "I2C_task"), u) <=> InQueue(Tail(tasks), u))
  BY <1>1, <1>2, QueuePosted
<1>. QED  BY <1>1, <1>3 DEF QueueInv

LEMMA AdcInitInv == AdcInit => AdcInv /\ WaitInv
<1>. SUFFICES ASSUME AdcInit PROVE AdcInv /\ WaitInv
  OBVIOUS
<1>. USE DEF AdcInit
<1>1. Queue(tasks) /\ \A u : ~InQueue(tasks, u)
  BY I2CPacketAssumption DEF Queue, AtMostOne, InQueue
<1>2. BusOK
  BY CodeFacts DEF BusOK, BusTypeOK, BusStates, BusInv, Idle
<1>3. AdcTypeOK
  <2>1. {0} \subseteq 0 .. MaxCalls /\ adc_bitmap \subseteq Channels /\ 0 \in 0 .. 16
    BY IBADCAssumption
  <2>2. tasks \in Seq(AdcTasks) /\ Len(tasks) <= MaxTasks /\ BusTypeOK
    BY <1>1, <1>2 DEF Queue, BusOK
  <2>3. 0 \in Codes
    BY CodeFacts
  <2>4. /\ chan \in Channels \cup {0, MAX_ANALOG_CHNNELS + 1}
        /\ conversionNumber \in 0 .. 16 /\ samplecount \in 0 .. 2 /\ scount \in 0 .. 1
        /\ i2cwflag \in {0, 1, 3} /\ calls \in 0 .. MaxCalls
    BY <2>1
  <2>5. condition \in Codes \cup {Unset} /\ selected \in Codes
    BY <2>3
  <2>. QED  BY <2>2, <2>4, <2>5 DEF AdcTypeOK, AdcTasks
<1>. QED
  BY <1>1, <1>2, <1>3
  DEF AdcInv, BusOK, QueueInv, PickInv, SampleInv, StateInv, ExcitationInv, WaitInv

(* I2C_task goes on with the packet.                                        *)
LEMMA ContinuesStep ==
  ASSUME AdcInv, UNCHANGED <<adcVars, calls>>,
         \/ /\ sendStartDone \/ AddressWritten(Contents(bus.data)) \/ ReadAddressWritten \/ readDone
            /\ UNCHANGED selected
         \/ DataWritten /\ selected' = IF bus.addr = "IBADC" THEN bus.byte ELSE selected
  PROVE  AdcInv' /\ (WaitInv => WaitInv')
<1>1. /\ tasks # << >> /\ Head(tasks) = "I2C_task"
      /\ tasks' = Posted(Tail(tasks), "I2C_task")
  BY DEF sendStartDone, AddressWritten, ReadAddressWritten, readDone, DataWritten, Continues
<1>2. /\ Queue(tasks)' /\ bus.state # "IDLE"
      /\ \A u : u # "I2C_task" => (InQueue(tasks', u) <=> InQueue(tasks, u))
  BY <1>1, I2CHead DEF AdcInv
<1>3. UNCHANGED <<state, chan, adc_bitmap, adc_stopbitmap, conversionNumber, condition,
                  sflag, scount, initflag, i2cwflag, i2crflag, samplecount, excitation,
                  powerTimer, calls>>
  BY DEF adcVars
<1>4. /\ bus \in Packets /\ BusInv
      /\ selected \in Codes /\ condition \in Codes \cup {Unset}
      /\ PickInv /\ SampleInv
  BY DEF AdcInv, AdcTypeOK, BusTypeOK, Packets
<1>5. /\ bus' \in Packets /\ BusInv' /\ bus'.state # "IDLE" /\ selected' \in Codes
      /\ PickInv' /\ SampleInv'
  <2>1. CASE sendStartDone /\ UNCHANGED selected
    <3>1. \/ /\ bus.state = "WRITE_ADDRESS" /\ bus' = [bus EXCEPT !.i2c = "WRITE_DATA", !.state = "WRITE_DATA"]
          \/ /\ bus.state = "READ_ADDRESS"
             /\ bus' = [bus EXCEPT !.i2c = "WRITE_DATA", !.state = "READ_DATA", !.index = bus.index + 1]
      BY <1>4, <2>1 DEF sendStartDone, Continues, BusInv
    <3>2. CASE bus.state = "WRITE_ADDRESS"
      <4>1. bus' \in [state : {"WRITE_DATA"}, i2c : {"WRITE_DATA"}, addr : {bus.addr},
                      index : {bus.index}, length : {bus.length}, data : {bus.data}, byte : {bus.byte}]
        BY <1>4, <3>1, <3>2 DEF Packets
      <4>2. bus' \in Packets
        BY <1>4, <4>1 DEF Packets, BusStates
      <4>. QED  BY <1>3, <1>4, <2>1, <3>2, <4>1, <4>2 DEF BusInv, PickInv, SampleInv, Writing, Reading
    <3>3. CASE bus.state = "READ_ADDRESS"
      <4>1. bus' \in [state : {"READ_DATA"}, i2c : {"WRITE_DATA"}, addr : {bus.addr},
                      index : {bus.index + 1}, length : {bus.length}, data : {bus.data}, byte : {bus.byte}]
        BY <1>4, <3>1, <3>3 DEF Packets
      <4>2. bus' \in Packets
        BY <1>4, <4>1, <3>3 DEF Packets, BusStates, BusInv
      <4>3. BusInv'
        BY <1>3, <1>4, <3>3, <4>1 DEF BusInv, Packets
      <4>. QED  BY <1>3, <1>4, <2>1, <3>3, <4>1, <4>2, <4>3 DEF PickInv, SampleInv, Writing, Reading
    <3>. QED  BY <3>1, <3>2, <3>3
  <2>2. CASE AddressWritten(Contents(bus.data)) /\ UNCHANGED selected
    <3>1. \A b \in Contents(bus.data) : b \in Codes /\ (bus.data = "condition" => b = condition)
      BY <1>4, CodeFacts DEF Contents, BusInv
    <3>2. PICK b \in Codes :
            /\ bus.data = "condition" => b = condition
            /\ bus.state = "WRITE_DATA" /\ bus.i2c = "WRITE_DATA"
            /\ bus' = [bus EXCEPT !.index = bus.index + 1, !.byte = b, !.state = "STOP_COMMAND"]
      <4>1. /\ bus.i2c = "WRITE_DATA" /\ bus.state = "WRITE_DATA"
            /\ bus.index = 0 /\ bus.length = 1
        BY <1>4, <2>2 DEF AddressWritten, Continues, BusInv
      <4>2. PICK b \in Contents(bus.data) :
              bus' = [bus EXCEPT !.index = bus.index + 1, !.byte = b,
                                 !.state = IF bus.index + 1 = bus.length
                                           THEN "STOP_COMMAND" ELSE bus.state]
        BY <2>2 DEF AddressWritten
      <4>3. b \in Codes /\ (bus.data = "condition" => b = condition)
        BY <3>1
      <4>4. bus.index + 1 = bus.length
        BY <4>1
      <4>. QED  BY <4>1, <4>2, <4>3, <4>4
    <3>3. b \in Bytes
      BY CodeFacts
    <3>4. bus' \in [state : {"STOP_COMMAND"}, i2c : {"WRITE_DATA"}, addr : {bus.addr},
                    index : {bus.index + 1}, length : {bus.length}, data : {bus.data}, byte : {b}]
      BY <1>4, <3>2 DEF Packets
    <3>5. bus' \in Packets
      BY <1>4, <3>2, <3>3, <3>4 DEF Packets, BusStates, BusInv
    <3>. QED  BY <1>3, <1>4, <2>2, <3>2, <3>4, <3>5 DEF BusInv, PickInv, SampleInv, Writing, Reading
  <2>3. CASE ReadAddressWritten /\ UNCHANGED selected
    BY <1>3, <1>4, <2>3 DEF ReadAddressWritten, Continues, Packets, BusStates, BusInv, PickInv, SampleInv, Writing, Reading
  <2>4. CASE readDone /\ UNCHANGED selected
    <3>1. /\ bus.state = "READ_DATA"
          /\ \/ bus' = [bus EXCEPT !.index = bus.index + 1] /\ bus.index + 1 <= bus.length
             \/ bus' = [bus EXCEPT !.index = bus.index + 1, !.state = "READ_DONE", !.i2c = "SEND_END"]
          /\ bus.i2c = "READ_DATA" /\ bus.index <= bus.length
      BY <1>4, <2>4 DEF readDone, Continues, BusInv
    <3>2. /\ bus'.i2c \in {"READ_DATA", "SEND_END"}
          /\ bus' \in [state : {"READ_DATA", "READ_DONE"}, i2c : {"READ_DATA", "SEND_END"},
                        addr : {bus.addr}, index : {bus.index + 1}, length : {bus.length},
                        data : {bus.data}, byte : {bus.byte}]
          /\ bus'.state = "READ_DATA" <=> bus'.i2c = "READ_DATA"
          /\ bus'.state = "READ_DATA" => bus.index + 1 <= bus.length
      BY <1>4, <3>1 DEF Packets
    <3>3. bus' \in Packets
      BY <1>4, <3>1, <3>2 DEF Packets, BusStates
    <3>. QED  BY <1>3, <1>4, <2>4, <3>1, <3>2, <3>3 DEF BusInv, PickInv, SampleInv, Writing, Reading
  <2>5. CASE DataWritten /\ selected' = IF bus.addr = "IBADC" THEN bus.byte ELSE selected
    BY <1>3, <1>4, <2>5 DEF DataWritten, Continues, Packets, BusStates, BusInv, PickInv, SampleInv, Writing, Reading
  <2>. QED  BY <2>1, <2>2, <2>3, <2>4, <2>5
<1>6. AdcTypeOK'
  BY <1>2, <1>3, <1>5 DEF AdcInv, AdcTypeOK, Queue, AdcTasks, BusTypeOK, Packets
<1>7. QueueInv' /\ StateInv' /\ ExcitationInv' /\ (WaitInv => WaitInv')
  BY <1>2, <1>3, <1>5 DEF AdcInv, QueueInv, StateInv, ExcitationInv, WaitInv
<1>. QED  BY <1>5, <1>6, <1>7 DEF AdcInv

(* The end of a packet of DioM.                                             *)
LEMMA DioEndsStep ==
  ASSUME AdcInv, bus.addr = "Dio", WriteEnds \/ WriteFails \/ ReadEnds,
         bus' = Idle, Returns, UNCHANGED <<adcVars, selected, calls>>
  PROVE  AdcInv' /\ (WaitInv => WaitInv')
<1>1. tasks # << >> /\ Head(tasks) = "I2C_task" /\ tasks' = Tail(tasks)
  BY DEF WriteEnds, WriteFails, ReadEnds, Ends, Returns
<1>2. /\ Queue(tasks)' /\ ~InQueue(tasks', "I2C_task")
      /\ \A u : u # "I2C_task" => (InQueue(tasks', u) <=> InQueue(tasks, u))
  BY <1>1, I2CHead DEF AdcInv
<1>3. BusOK' /\ bus'.state = "IDLE"
  BY BusIdle
<1>4. UNCHANGED <<state, chan, adc_bitmap, adc_stopbitmap, conversionNumber, condition,
                  sflag, scount, initflag, i2cwflag, i2crflag, samplecount, excitation,
                  powerTimer, selected, calls>>
  BY DEF adcVars
<1>5. AdcTypeOK'
  BY <1>2, <1>3, <1>4 DEF AdcInv, AdcTypeOK, Queue, AdcTasks, BusOK
<1>6. state # "PICK_CHANNEL" /\ state # "GET_SAMPLE"
  BY DEF AdcInv, PickInv, SampleInv
<1>. QED
  BY <1>2, <1>3, <1>4, <1>5, <1>6
  DEF AdcInv, BusOK, QueueInv, PickInv, SampleInv, StateInv, ExcitationInv, WaitInv

(* The end of a packet of the driver.                                       *)
LEMMA WriteEndsStep ==
  ASSUME AdcInv, ReadRefused = FALSE, bus.addr = "IBADC", NEW ok \in BOOLEAN,
         ok => WriteEnds, ~ok => WriteFails,
         writePacketDone(ok, Tail(tasks)), UNCHANGED <<selected, calls>>
  PROVE  AdcInv' /\ (WaitInv => WaitInv')
<1>. DEFINE q == Tail(tasks)
<1>1. tasks # << >> /\ Head(tasks) = "I2C_task"
  BY DEF WriteEnds, WriteFails, Ends
<1>2. /\ Queue(q) /\ ~InQueue(q, "I2C_task") /\ Len(q) < MaxTasks
      /\ \A u : u # "I2C_task" => (InQueue(q, u) <=> InQueue(tasks, u))
      /\ Queue(Posted(q, "I2C_task"))
      /\ \A u : u # "I2C_task" => (InQueue(Posted(q, "I2C_task"), u) <=> InQueue(tasks, u))
  BY <1>1, I2CHead DEF AdcInv
<1>3. state # "GET_SAMPLE" /\ (ok => bus.state = "STOP_COMMAND_SENT")
  BY DEF AdcInv, SampleInv, Reading, BusInv, WriteEnds, WriteFails, Ends
<1>4. /\ i2cwflag' = 0
      /\ UNCHANGED <<chan, adc_stopbitmap, conversionNumber, condition, sflag, scount,
                     initflag, samplecount, powerTimer, selected, calls>>
  BY DEF writePacketDone
<1>. HIDE DEF q
<1>5. CASE /\ i2cwflag # 1 \/ (ok /\ state # "PICK_CHANNEL")
           /\ bus' = Idle /\ tasks' = q
           /\ UNCHANGED <<state, adc_bitmap, i2crflag, excitation>>
  <2>1. BusOK' /\ bus'.state = "IDLE"
    BY <1>5, BusIdle
  <2>2. AdcTypeOK'
    BY <1>2, <1>4, <1>5, <2>1 DEF AdcInv, AdcTypeOK, Queue, AdcTasks, BusOK
  <2>3. state # "PICK_CHANNEL"
    BY <1>5 DEF AdcInv, PickInv
  <2>. QED
    BY <1>2, <1>3, <1>4, <1>5, <2>1, <2>2, <2>3
    DEF AdcInv, BusOK, QueueInv, PickInv, SampleInv, StateInv, ExcitationInv, WaitInv
<1>6. CASE /\ i2cwflag = 1 /\ ~ok /\ state' = "IDLE"
           /\ adc_bitmap' = adc_bitmap \ {chan}
           /\ bus' = Idle /\ tasks' = Posted(q, "adc_get_data")
           /\ excitation' = Reset(excitation) /\ UNCHANGED i2crflag
  <2>1. BusOK' /\ bus'.state = "IDLE"
    BY <1>6, BusIdle
  <2>2. /\ Queue(tasks)' /\ InQueue(tasks', "adc_get_data")
        /\ \A u : u # "adc_get_data" => (InQueue(tasks', u) <=> InQueue(q, u))
    BY <1>2, <1>6, GetDataPosted
  <2>3. excitation' \in BOOLEAN /\ (AlwaysOn \cap Excited = {} => ~excitation')
    BY <1>6 DEF Reset, AdcInv, AdcTypeOK
  <2>4. AdcTypeOK'
    BY <1>4, <1>6, <2>1, <2>2, <2>3 DEF AdcInv, AdcTypeOK, Queue, AdcTasks, BusOK
  <2>. QED
    BY <1>2, <1>4, <1>6, <2>1, <2>2, <2>3, <2>4
    DEF AdcInv, BusOK, QueueInv, PickInv, SampleInv, StateInv, ExcitationInv, WaitInv
<1>7. CASE /\ i2cwflag = 1 /\ ok /\ state = "PICK_CHANNEL" /\ state' = "GET_SAMPLE"
           /\ i2crflag' = TRUE /\ bus' = readPacket(Idle, "IBADC", 2)
           /\ tasks' = Posted(q, "I2C_task")
           /\ UNCHANGED <<adc_bitmap, excitation>>
  <2>1. BusOK' /\ bus'.state = "READ_ADDRESS" /\ bus'.addr = "IBADC"
    BY <1>4, <1>7, BusRead DEF AdcInv, BusOK, AdcTypeOK
  <2>2. AdcTypeOK'
    BY <1>2, <1>4, <1>7, <2>1 DEF AdcInv, AdcTypeOK, Queue, AdcTasks, BusOK
  <2>3. chan \in Channels => selected = Code(chan)
    BY <1>3, <1>7 DEF AdcInv, PickInv
  <2>. QED
    BY <1>2, <1>3, <1>4, <1>7, <2>1, <2>2, <2>3
    DEF AdcInv, BusOK, QueueInv, PickInv, SampleInv, StateInv, ExcitationInv, WaitInv, Reading
<1>. QED  BY <1>5, <1>6, <1>7 DEF writePacketDone, q

(* Nothing that starts or stops is queued when the board may be stopped.    *)
LEMMA SettledFacts ==
  ASSUME Hurried = FALSE, Settled
  PROVE  ~InQueue(tasks, "output_ref") /\ ~InQueue(tasks, "stopchannel")
BY DEF Settled, InQueue

LEMMA ReadEndsStep ==
  ASSUME AdcInv, Hurried = FALSE, bus.addr = "IBADC", ReadEnds,
         readPacketDone(Tail(tasks)), UNCHANGED selected
  PROVE  AdcInv' /\ (WaitInv => WaitInv')
<1>. DEFINE q == Tail(tasks)
<1>1. tasks # << >> /\ Head(tasks) = "I2C_task" /\ bus.state = "READ_DONE"
  BY DEF ReadEnds, Ends
<1>2. /\ Queue(q) /\ ~InQueue(q, "I2C_task") /\ Len(q) < MaxTasks
      /\ \A u : u # "I2C_task" => (InQueue(q, u) <=> InQueue(tasks, u))
      /\ Queue(Posted(q, "I2C_task"))
      /\ \A u : u # "I2C_task" => (InQueue(Posted(q, "I2C_task"), u) <=> InQueue(tasks, u))
  BY <1>1, I2CHead DEF AdcInv
<1>3. state # "PICK_CHANNEL" /\ (state = "GET_SAMPLE" => i2crflag)
  BY <1>1 DEF AdcInv, PickInv, Writing, SampleInv
<1>4. /\ i2crflag' = FALSE /\ i2crflag' \in BOOLEAN
      /\ UNCHANGED <<chan, adc_stopbitmap, powerTimer, selected>>
  BY DEF readPacketDone
<1>. HIDE DEF q
<1>5. CASE /\ ~i2crflag \/ state # "GET_SAMPLE"
           /\ bus' = Idle /\ tasks' = q
           /\ UNCHANGED <<state, adc_bitmap, conversionNumber, condition, sflag, scount,
                          initflag, i2cwflag, samplecount, excitation, calls>>
  <2>1. BusOK' /\ bus'.state = "IDLE"
    BY <1>5, BusIdle
  <2>2. AdcTypeOK'
    BY <1>2, <1>4, <1>5, <2>1 DEF AdcInv, AdcTypeOK, Queue, AdcTasks, BusOK
  <2>. QED
    BY <1>2, <1>3, <1>4, <1>5, <2>1, <2>2
    DEF AdcInv, BusOK, QueueInv, PickInv, SampleInv, StateInv, ExcitationInv, WaitInv
<1>6. CASE state = "GET_SAMPLE" /\ conversionNumber' = conversionNumber - 1 /\ SampleReady(q)
           /\ conversionNumber = 1
  <2>1. BusOK' /\ bus'.state = "IDLE"
    BY <1>6, BusIdle DEF SampleReady
  <2>2. /\ state' = "IDLE" /\ UNCHANGED <<condition, i2cwflag>>
        /\ excitation' \in BOOLEAN /\ (AlwaysOn \cap Excited = {} => ~excitation')
    BY <1>6 DEF SampleReady, Reset, AdcInv, AdcTypeOK
  <2>6. samplecount' \in 0 .. 2 /\ conversionNumber' \in 0 .. 16
    BY <1>6 DEF SampleReady, AdcInv, AdcTypeOK
  <2>3. ~InQueue(q, "stopchannel")
    BY <1>2, <1>6 DEF AdcInv, QueueInv
  <2>4. CASE /\ adc_bitmap' = IF samplecount = 0 THEN adc_bitmap ELSE adc_bitmap \ {chan}
             /\ tasks' = Posted(q, "adc_get_data")
             /\ UNCHANGED <<sflag, scount, initflag, calls>>
    <3>1. /\ Queue(tasks)' /\ InQueue(tasks', "adc_get_data")
          /\ \A u : u # "adc_get_data" => (InQueue(tasks', u) <=> InQueue(q, u))
      BY <1>2, <2>4, GetDataPosted
    <3>2. AdcTypeOK'
      <4>1. adc_bitmap' \subseteq Channels
        BY <2>4 DEF AdcInv, AdcTypeOK
      <4>. QED
        BY <1>4, <2>1, <2>2, <2>4, <2>6, <3>1, <4>1 DEF AdcInv, AdcTypeOK, Queue, AdcTasks, BusOK
    <3>. QED
      BY <1>2, <1>4, <2>1, <2>2, <2>3, <3>1, <3>2
      DEF AdcInv, BusOK, QueueInv, PickInv, SampleInv, StateInv, ExcitationInv, WaitInv
  <2>5. CASE /\ Settled /\ calls < MaxCalls /\ calls' = calls + 1
             /\ adc_bitmap' = IF initflag THEN {} ELSE adc_bitmap \ {chan}
             /\ sflag' = FALSE /\ scount' = 1 /\ initflag' = TRUE
             /\ tasks' = Posted(Posted(q, "stopchannel"), "adc_get_data")
    <3>1. ~InQueue(q, "output_ref") /\ ~InQueue(q, "stopchannel")
      BY <1>2, <2>5, SettledFacts
    <3>2. /\ Queue(Posted(q, "stopchannel"))
          /\ \A u : u # "stopchannel" => (InQueue(Posted(q, "stopchannel"), u) <=> InQueue(q, u))
      BY <1>2, <3>1, QueuePosted DEF AdcTasks
    <3>3. /\ Queue(tasks)'
          /\ \A u : u # "adc_get_data"
               => (InQueue(tasks', u) <=> InQueue(Posted(q, "stopchannel"), u))
      BY <2>5, <3>2, GetDataPosted
    <3>4. calls' \in 0 .. MaxCalls
      BY <2>5, IBADCAssumption DEF AdcInv, AdcTypeOK
    <3>5. AdcTypeOK'
      <4>1. adc_bitmap' \subseteq Channels
        BY <2>5 DEF AdcInv, AdcTypeOK
      <4>2. sflag' \in BOOLEAN /\ initflag' \in BOOLEAN
        BY <2>5
      <4>3. scount' \in 0 .. 1
        BY <2>5
      <4>. QED
        BY <1>4, <2>1, <2>2, <2>6, <3>3, <3>4, <4>1, <4>2, <4>3
        DEF AdcInv, AdcTypeOK, Queue, AdcTasks, BusOK
    <3>. QED
      BY <1>2, <1>4, <2>1, <2>2, <2>5, <3>2, <3>3, <3>5
      DEF AdcInv, BusOK, QueueInv, PickInv, SampleInv, StateInv, ExcitationInv, WaitInv
  <2>. QED  BY <1>6, <2>4, <2>5 DEF SampleReady
<1>7. CASE /\ state = "GET_SAMPLE" /\ conversionNumber' = conversionNumber - 1
           /\ conversionNumber # 1
           /\ convert("CONTINUE_SAMPLE", chan, excitation, Idle, q)
           /\ UNCHANGED <<adc_bitmap, sflag, scount, initflag, samplecount, calls>>
  <2>1. /\ condition' = Code(chan) /\ state' = "PICK_CHANNEL" /\ i2cwflag' = 1
        /\ bus' = writePacket(Idle, "IBADC", "condition")
        /\ tasks' = Posted(q, "I2C_task") /\ excitation' = excitation
    BY <1>7 DEF convert, Idle, CommandByte
  <2>2. condition' \in Codes /\ condition' # Unset
    BY <2>1, CodeFacts DEF AdcInv, AdcTypeOK
  <2>3. BusOK' /\ bus'.state = "WRITE_ADDRESS" /\ bus'.addr = "IBADC" /\ bus'.data = "condition"
    BY <2>1, <2>2, BusWrite DEF AdcInv, BusOK, AdcTypeOK
  <2>4. conversionNumber' > 0 /\ conversionNumber' \in 0 .. 16
    BY <1>7 DEF AdcInv, AdcTypeOK, StateInv
  <2>5. AdcTypeOK'
    BY <1>2, <1>4, <1>7, <2>1, <2>2, <2>3, <2>4 DEF AdcInv, AdcTypeOK, Queue, AdcTasks, BusOK
  <2>. QED
    BY <1>2, <1>4, <1>7, <2>1, <2>3, <2>4, <2>5
    DEF AdcInv, BusOK, QueueInv, PickInv, SampleInv, StateInv, ExcitationInv, WaitInv, Writing
<1>. QED  BY <1>5, <1>6, <1>7 DEF readPacketDone, q

(* adc_get_data takes the next channel.                                     *)
LEMMA GetDataStep ==
  ASSUME AdcInv, adc_get_data
  PROVE  AdcInv' /\ (WaitInv => WaitInv')
<1>. DEFINE q == Tail(tasks)
            n == NextChannel
<1>1. tasks # << >> /\ Head(tasks) = "adc_get_data"
  BY DEF adc_get_data, Runs
<1>2. /\ Queue(q) /\ Len(q) < MaxTasks
      /\ \A u : u # "adc_get_data" => (InQueue(q, u) <=> InQueue(tasks, u))
  BY <1>1, QueueTail DEF AdcInv, QueueInv
<1>3. UNCHANGED <<adc_bitmap, adc_stopbitmap, sflag, scount, initflag, i2crflag, samplecount,
                  selected, calls>>
  BY DEF adc_get_data
<1>. HIDE DEF q
<1>4. CASE /\ state # "IDLE" \/ ~sflag \/ adc_bitmap = {}
           /\ Returns
           /\ UNCHANGED <<bus, state, chan, conversionNumber, condition, i2cwflag,
                          excitation, powerTimer>>
  <2>1. tasks' = q
    BY <1>4 DEF Returns, q
  <2>2. AdcTypeOK'
    BY <1>2, <1>3, <1>4, <2>1 DEF AdcInv, AdcTypeOK, Queue, AdcTasks, BusTypeOK
  <2>3. UNCHANGED <<BusInv, PickInv, SampleInv, StateInv>>
    BY <1>3, <1>4 DEF BusInv, PickInv, SampleInv, StateInv, Writing, Reading
  <2>. QED
    BY <1>2, <1>3, <1>4, <2>1, <2>2, <2>3
    DEF AdcInv, QueueInv, ExcitationInv, WaitInv
<1>5. CASE /\ state = "IDLE" /\ sflag /\ adc_bitmap # {}
           /\ chan' = n /\ conversionNumber' = Conversions[n]
  <2>1. n \in adc_bitmap /\ n \in Channels
    BY <1>5, NextChannelFacts DEF AdcInv, AdcTypeOK
  <2>2. conversionNumber' \in 0 .. 16 /\ conversionNumber' > 0
    BY <1>5, <2>1, IBADCAssumption
  <2>3. ~InQueue(q, "stopchannel")
    BY <1>2, <1>5 DEF AdcInv, QueueInv
  <2>4. Set(n, excitation) \in BOOLEAN
    BY DEF Set, AdcInv, AdcTypeOK
  <2>. HIDE DEF n
  <2>5. CASE /\ state' = "START_CONVERSION_PROCESS" /\ excitation' = Set(n, excitation)
             /\ powerTimer' = TRUE /\ Returns /\ UNCHANGED <<bus, condition, i2cwflag>>
    <3>1. tasks' = q
      BY <2>5 DEF Returns, q
    <3>2. AdcTypeOK'
      BY <1>2, <1>3, <1>5, <2>1, <2>2, <2>4, <2>5, <3>1
      DEF AdcInv, AdcTypeOK, Queue, AdcTasks, BusTypeOK
    <3>3. BusInv'
      BY <2>5 DEF AdcInv, BusInv
    <3>. QED
      BY <1>2, <1>3, <1>5, <2>2, <2>3, <2>5, <3>1, <3>2, <3>3
      DEF AdcInv, QueueInv, PickInv, SampleInv, StateInv, ExcitationInv, WaitInv
  <2>6. CASE /\ convert("START_CONVERSION_PROCESS", n, Set(n, excitation), bus, q)
             /\ UNCHANGED powerTimer
    <3>1. condition' = Code(n) /\ condition' \in Codes /\ condition' # Unset
      BY <2>1, <2>6, CodeFacts DEF convert
    <3>2. CASE /\ bus.state = "IDLE" /\ state' = "PICK_CHANNEL" /\ i2cwflag' = 1
               /\ bus' = writePacket(bus, "IBADC", CommandByte)
               /\ tasks' = Posted(q, "I2C_task")
               /\ excitation' = Set(n, excitation)
      <4>1. /\ BusOK' /\ bus'.state = "WRITE_ADDRESS" /\ bus'.addr = "IBADC"
            /\ bus'.data = "condition"
        BY <3>1, <3>2, BusWrite DEF AdcInv, BusOK, AdcTypeOK, CommandByte
      <4>2. ~InQueue(q, "I2C_task")
        BY <1>2, <3>2 DEF AdcInv, QueueInv
      <4>3. /\ Queue(tasks)'
            /\ \A u : u # "I2C_task" => (InQueue(tasks', u) <=> InQueue(q, u))
        BY <1>2, <3>2, <4>2, QueuePosted DEF AdcTasks
      <4>4. AdcTypeOK'
        BY <1>3, <1>5, <2>1, <2>2, <2>4, <2>6, <3>1, <3>2, <4>1, <4>3
        DEF AdcInv, AdcTypeOK, Queue, AdcTasks, BusOK
      <4>. QED
        BY <1>3, <1>5, <2>2, <2>3, <3>1, <3>2, <4>1, <4>3, <4>4
        DEF AdcInv, BusOK, QueueInv, PickInv, SampleInv, StateInv, ExcitationInv, WaitInv,
            Writing
    <3>3. CASE /\ bus.state # "IDLE" /\ state' = "IDLE" /\ i2cwflag' = 0 /\ bus' = bus
               /\ tasks' = Posted(q, "adc_get_data")
               /\ excitation' = Reset(Set(n, excitation))
      <4>1. excitation' \in BOOLEAN /\ (AlwaysOn \cap Excited = {} => ~excitation')
        BY <2>4, <3>3 DEF Reset
      <4>2. /\ Queue(tasks)' /\ InQueue(tasks', "adc_get_data")
            /\ \A u : u # "adc_get_data" => (InQueue(tasks', u) <=> InQueue(q, u))
        BY <1>2, <3>3, GetDataPosted
      <4>3. BusInv'
        BY <3>1, <3>3 DEF AdcInv, BusInv
      <4>4. AdcTypeOK'
        BY <1>3, <1>5, <2>1, <2>2, <2>6, <3>1, <3>3, <4>1, <4>2
        DEF AdcInv, AdcTypeOK, Queue, AdcTasks, BusTypeOK
      <4>. QED
        BY <1>2, <2>3, <3>3, <4>1, <4>2, <4>3, <4>4
        DEF AdcInv, QueueInv, PickInv, SampleInv, StateInv, ExcitationInv, WaitInv
    <3>. QED  BY <2>6, <3>2, <3>3 DEF convert
  <2>. QED  BY <1>5, <2>5, <2>6 DEF adc_get_data, n, q
<1>. QED  BY <1>4, <1>5 DEF adc_get_data

(* The timer of a channel fires, perhaps after the channel was given up:    *)
(* adc_get_data is then posted in vain only if it is queued already.        *)
LEMMA PowerTimerStep ==
  ASSUME AdcInv, PowerTimerFired
  PROVE  AdcInv' /\ (MaxTasks >= 3 /\ WaitInv => WaitInv')
<1>1. /\ powerTimer' = FALSE /\ powerTimer' \in BOOLEAN
      /\ convert(state, chan, excitation, bus, tasks)
      /\ UNCHANGED <<chan, adc_bitmap, adc_stopbitmap, conversionNumber, sflag, scount,
                     initflag, i2crflag, samplecount, selected, calls>>
  BY DEF PowerTimerFired
<1>2. condition' \in Codes /\ condition' # Unset
  BY <1>1, CodeFacts DEF convert, AdcInv, AdcTypeOK
<1>3. CASE /\ bus.state = "IDLE"
           /\ state' = IF state = "IDLE" THEN state ELSE "PICK_CHANNEL"
           /\ i2cwflag' = 1
           /\ bus' = writePacket(bus, "IBADC", CommandByte)
           /\ tasks' = Posted(tasks, "I2C_task")
           /\ excitation' = excitation
  <2>1. /\ BusOK' /\ bus'.state = "WRITE_ADDRESS" /\ bus'.addr = "IBADC"
        /\ bus'.data = "condition"
    BY <1>2, <1>3, BusWrite DEF AdcInv, BusOK, AdcTypeOK, CommandByte
  <2>2. /\ Queue(tasks)'
        /\ \A u : u # "I2C_task" => (InQueue(tasks', u) <=> InQueue(tasks, u))
    BY <1>3, QueuePosted DEF AdcTasks, AdcInv, QueueInv
  <2>3. AdcTypeOK'
    BY <1>1, <1>2, <1>3, <2>1, <2>2 DEF AdcInv, AdcTypeOK, Queue, AdcTasks, BusOK
  <2>4. state = "IDLE" \/ (state = "START_CONVERSION_PROCESS" /\ condition' = Code(chan))
    BY <1>1, <1>3
    DEF AdcInv, AdcTypeOK, StateInv, PickInv, SampleInv, Writing, Reading, convert
  <2>. QED
    BY <1>1, <1>3, <2>1, <2>2, <2>3, <2>4
    DEF AdcInv, BusOK, QueueInv, PickInv, SampleInv, StateInv, ExcitationInv, WaitInv, Writing
<1>4. CASE /\ bus.state # "IDLE" /\ state' = "IDLE" /\ i2cwflag' = 0 /\ bus' = bus
           /\ tasks' = Posted(tasks, "adc_get_data")
           /\ excitation' = Reset(excitation)
  <2>1. excitation' \in BOOLEAN /\ (AlwaysOn \cap Excited = {} => ~excitation')
    BY <1>4 DEF Reset, AdcInv, AdcTypeOK
  <2>2. /\ Queue(tasks)' /\ Queue(tasks)
        /\ \A u : u # "adc_get_data" => (InQueue(tasks', u) <=> InQueue(tasks, u))
        /\ Len(tasks) < MaxTasks \/ InQueue(tasks, "adc_get_data")
             => InQueue(tasks', "adc_get_data")
    BY <1>4, GetDataPosted DEF AdcInv, QueueInv
  <2>3. MaxTasks >= 3 => InQueue(tasks', "adc_get_data")
    BY <2>2, FullFacts
  <2>4. BusInv'
    BY <1>2, <1>4 DEF AdcInv, BusInv
  <2>5. AdcTypeOK'
    BY <1>1, <1>2, <1>4, <2>1, <2>2 DEF AdcInv, AdcTypeOK, Queue, AdcTasks, BusTypeOK
  <2>. QED
    BY <1>1, <1>4, <2>1, <2>2, <2>3, <2>4, <2>5
    DEF AdcInv, QueueInv, PickInv, SampleInv, StateInv, ExcitationInv, WaitInv
<1>. QED  BY <1>1, <1>3, <1>4 DEF convert

LEMMA OutputRefStep ==
  ASSUME AdcInv, output_ref
  PROVE  AdcInv' /\ (MaxTasks >= 3 /\ WaitInv => WaitInv')
<1>. DEFINE q == Tail(tasks)
<1>1. /\ tasks # << >> /\ Head(tasks) = "output_ref"
      /\ UNCHANGED <<chan, adc_bitmap, adc_stopbitmap, conversionNumber, condition, scount,
                     initflag, i2crflag, samplecount, excitation, powerTimer, selected,
                     calls>>
  BY DEF output_ref, Runs
<1>2. /\ Queue(q) /\ Len(q) < MaxTasks
      /\ \A u : u # "output_ref" => (InQueue(q, u) <=> InQueue(tasks, u))
      /\ ~InQueue(q, "output_ref") /\ ~InQueue(q, "stopchannel")
  BY <1>1, QueueTail DEF AdcInv, QueueInv
<1>. HIDE DEF q
<1>3. CASE /\ bus.state = "IDLE" /\ i2cwflag' = 3
           /\ bus' = writePacket(bus, "IBADC", "val")
           /\ sflag' = TRUE
           /\ tasks' = Posted(Posted(q, "I2C_task"), "adc_get_data")
           /\ UNCHANGED state
  <2>1. BusOK' /\ bus'.state = "WRITE_ADDRESS"
    BY <1>3, BusWrite DEF AdcInv, BusOK, AdcTypeOK
  <2>. DEFINE r == Posted(q, "I2C_task")
  <2>2. /\ Queue(r) /\ \A u : u # "I2C_task" => (InQueue(r, u) <=> InQueue(q, u))
    BY <1>2, <1>3, QueuePosted DEF AdcTasks, AdcInv, QueueInv
  <2>. HIDE DEF r
  <2>3. /\ Queue(tasks)'
        /\ \A u : u # "adc_get_data" => (InQueue(tasks', u) <=> InQueue(r, u))
        /\ Len(r) < MaxTasks \/ InQueue(r, "adc_get_data") => InQueue(tasks', "adc_get_data")
    BY <1>3, <2>2, GetDataPosted DEF r
  <2>4. MaxTasks >= 3 => InQueue(tasks', "adc_get_data")
    BY <2>2, <2>3, FullFacts
  <2>5. AdcTypeOK'
    BY <1>1, <1>3, <2>1, <2>3 DEF AdcInv, AdcTypeOK, Queue, AdcTasks, BusOK
  <2>6. state # "PICK_CHANNEL" /\ state # "GET_SAMPLE"
    BY <1>3 DEF AdcInv, PickInv, SampleInv, Writing, Reading
  <2>. QED
    BY <1>1, <1>2, <1>3, <2>1, <2>2, <2>3, <2>4, <2>5, <2>6
    DEF AdcInv, BusOK, QueueInv, PickInv, SampleInv, StateInv, ExcitationInv, WaitInv
<1>4. CASE /\ bus.state # "IDLE" /\ i2cwflag' = 0 /\ state' = "IDLE"
           /\ tasks' = Posted(q, "output_ref")
           /\ UNCHANGED <<bus, sflag>>
  <2>1. /\ Queue(tasks)' /\ InQueue(tasks', "output_ref")
        /\ \A u : u # "output_ref" => (InQueue(tasks', u) <=> InQueue(q, u))
    BY <1>2, <1>4, QueuePosted DEF AdcTasks
  <2>2. AdcTypeOK'
    BY <1>1, <1>4, <2>1 DEF AdcInv, AdcTypeOK, Queue, AdcTasks, BusTypeOK
  <2>3. BusInv'
    BY <1>1, <1>4 DEF AdcInv, BusInv
  <2>. QED
    BY <1>1, <1>2, <1>4, <2>1, <2>2, <2>3
    DEF AdcInv, QueueInv, PickInv, SampleInv, StateInv, ExcitationInv, WaitInv
<1>. QED  BY <1>3, <1>4 DEF output_ref, q

LEMMA StopchannelStep ==
  ASSUME AdcInv, stopchannel
  PROVE  AdcInv' /\ (WaitInv => WaitInv')
<1>. DEFINE q == Tail(tasks)
<1>1. /\ tasks # << >> /\ Head(tasks) = "stopchannel"
      /\ UNCHANGED <<state, chan, adc_bitmap, conversionNumber, condition, sflag, initflag,
                     i2crflag, samplecount, excitation, powerTimer, selected, calls>>
  BY DEF stopchannel, Runs
<1>2. /\ Queue(q) /\ Len(q) < MaxTasks /\ InQueue(tasks, "stopchannel")
      /\ \A u : u # "stopchannel" => (InQueue(q, u) <=> InQueue(tasks, u))
      /\ ~InQueue(q, "output_ref") /\ ~InQueue(q, "stopchannel")
  BY <1>1, QueueTail DEF AdcInv, QueueInv
<1>3. state = "IDLE" /\ ~sflag
  BY <1>2 DEF AdcInv, QueueInv
<1>4. adc_stopbitmap' \subseteq adc_stopbitmap /\ i2cwflag' \in {0, 3} /\ scount' \in {0, 1}
  BY DEF stopchannel
<1>5. AlwaysOn \cap Excited = {} => ~excitation
  BY <1>2, <1>3 DEF AdcInv, ExcitationInv
<1>. HIDE DEF q
<1>6. ASSUME BusOK', Queue(tasks)',
             InQueue(tasks', "I2C_task") => bus'.state # "IDLE"
      PROVE  AdcInv' /\ (WaitInv => WaitInv')
  <2>1. AdcTypeOK'
    BY <1>1, <1>4, <1>6 DEF AdcInv, AdcTypeOK, Queue, AdcTasks, BusOK
  <2>. QED
    BY <1>1, <1>3, <1>5, <1>6, <2>1
    DEF AdcInv, BusOK, QueueInv, PickInv, SampleInv, StateInv, ExcitationInv, WaitInv
<1>7. CASE bus.state = "IDLE"
  <2>1. /\ bus' = writePacket(bus, "IBADC", "val")
        /\ \/ tasks' = Posted(q, "I2C_task")
           \/ tasks' = Posted(Posted(q, "I2C_task"), "stopchannel")
    BY <1>7 DEF stopchannel, q
  <2>2. BusOK' /\ bus'.state = "WRITE_ADDRESS"
    BY <2>1, BusWrite DEF AdcInv, BusOK, AdcTypeOK
  <2>3. /\ Queue(Posted(q, "I2C_task"))
        /\ ~InQueue(Posted(q, "I2C_task"), "output_ref")
        /\ ~InQueue(Posted(q, "I2C_task"), "stopchannel")
    BY <1>2, <1>7, QueuePosted DEF AdcTasks, AdcInv, QueueInv
  <2>4. Queue(Posted(Posted(q, "I2C_task"), "stopchannel"))
    BY <2>3, QueuePosted DEF AdcTasks
  <2>. QED  BY <1>6, <2>1, <2>2, <2>3, <2>4
<1>8. CASE bus.state # "IDLE"
  <2>1. bus' = bus /\ tasks' = Posted(q, "stopchannel")
    BY <1>8 DEF stopchannel, q
  <2>2. Queue(tasks)'
    BY <1>2, <2>1, QueuePosted DEF AdcTasks
  <2>3. BusOK'
    BY <1>1, <2>1 DEF AdcInv, BusOK, BusInv, BusTypeOK, AdcTypeOK
  <2>. QED  BY <1>6, <1>8, <2>1, <2>2, <2>3
<1>. QED  BY <1>7, <1>8

(* The calls of the application and of DioM.                                *)
LEMMA CallRoom ==
  ASSUME QueueInv, Call
  PROVE  Queue(tasks) /\ Len(tasks) < MaxTasks
<1>1. Queue(tasks) /\ Len(tasks) \in Nat /\ Reserved \in Nat /\ MaxTasks \in Nat
  BY IBADCAssumption, I2CPacketAssumption DEF QueueInv, Queue
<1>. QED  BY <1>1 DEF Call

LEMMA OneMoreCall ==
  ASSUME AdcTypeOK, calls < MaxCalls, calls' = calls + 1
  PROVE  calls' \in 0 .. MaxCalls
BY IBADCAssumption DEF AdcTypeOK

LEMMA AskStep ==
  ASSUME AdcInv, NEW c \in Channels, getData(c)
  PROVE  AdcInv' /\ (WaitInv => WaitInv')
<1>1. /\ adc_bitmap' = adc_bitmap \cup {c} /\ adc_stopbitmap' = adc_stopbitmap \cup {c}
      /\ tasks' = Posted(tasks, "adc_get_data") /\ Call
      /\ UNCHANGED <<bus, state, chan, conversionNumber, condition, sflag, scount, initflag,
                     i2cwflag, i2crflag, samplecount, excitation, powerTimer, selected,
                     calls>>
  BY DEF getData
<1>2. /\ Queue(tasks)' /\ InQueue(tasks', "adc_get_data")
      /\ \A u : u # "adc_get_data" => (InQueue(tasks', u) <=> InQueue(tasks, u))
  BY <1>1, CallRoom, GetDataPosted DEF AdcInv
<1>3. adc_bitmap' \subseteq Channels /\ adc_stopbitmap' \subseteq Channels /\ adc_bitmap' # {}
  BY <1>1 DEF AdcInv, AdcTypeOK
<1>4. AdcTypeOK' /\ BusInv'
  BY <1>1, <1>2, <1>3 DEF AdcInv, AdcTypeOK, BusInv, Queue, AdcTasks, BusTypeOK
<1>5. PickInv' /\ SampleInv'
  BY <1>1 DEF AdcInv, PickInv, SampleInv, Writing, Reading
<1>. QED
  BY <1>1, <1>2, <1>3, <1>4, <1>5 DEF AdcInv, QueueInv, StateInv, ExcitationInv, WaitInv

LEMMA StartStep ==
  ASSUME AdcInv, Hurried = FALSE, start
  PROVE  AdcInv' /\ (WaitInv => WaitInv')
<1>1. /\ calls' \in 0 .. MaxCalls /\ adc_stopbitmap' = {} /\ samplecount' = 0
      /\ chan' = MAX_ANALOG_CHNNELS + 1
      /\ tasks' = Posted(tasks, "output_ref")
      /\ UNCHANGED <<bus, state, adc_bitmap, conversionNumber, condition, sflag, scount,
                     initflag, i2cwflag, i2crflag, excitation, powerTimer, selected>>
  BY OneMoreCall DEF start, AdcInv
<1>2. ~InQueue(tasks, "output_ref") /\ ~InQueue(tasks, "stopchannel")
  BY SettledFacts DEF start
<1>3. /\ Queue(tasks)'
      /\ \A u : u # "output_ref" => (InQueue(tasks', u) <=> InQueue(tasks, u))
      /\ InQueue(tasks', "output_ref")
  BY <1>1, <1>2, CallRoom, QueuePosted DEF AdcInv, AdcTasks, start
<1>4. samplecount' \in 0 .. 2 /\ chan' \notin Channels
      /\ chan' \in Channels \cup {0, MAX_ANALOG_CHNNELS + 1}
  BY <1>1, CodeFacts
<1>5. AdcTypeOK' /\ BusInv'
  BY <1>1, <1>3, <1>4 DEF AdcInv, AdcTypeOK, BusInv, Queue, AdcTasks, BusTypeOK
<1>6. PickInv' /\ SampleInv'
  BY <1>1, <1>4 DEF AdcInv, PickInv, SampleInv, Writing, Reading
<1>. QED
  BY <1>1, <1>3, <1>5, <1>6 DEF AdcInv, QueueInv, StateInv, ExcitationInv, WaitInv

LEMMA StopStep ==
  ASSUME AdcInv, Hurried = FALSE, stop
  PROVE  AdcInv' /\ WaitInv'
<1>1. /\ calls' \in 0 .. MaxCalls /\ sflag' = FALSE /\ state' = "IDLE"
      /\ adc_bitmap' \subseteq adc_bitmap
      /\ scount' = 1 /\ tasks' = Posted(tasks, "stopchannel")
      /\ excitation' = Reset(excitation) /\ initflag' = TRUE
      /\ UNCHANGED <<bus, chan, adc_stopbitmap, conversionNumber, condition, i2cwflag,
                     i2crflag, samplecount, powerTimer, selected>>
  BY OneMoreCall DEF stop, AdcInv
<1>2. ~InQueue(tasks, "output_ref") /\ ~InQueue(tasks, "stopchannel")
  BY SettledFacts DEF stop
<1>3. /\ Queue(tasks)'
      /\ \A u : u # "stopchannel" => (InQueue(tasks', u) <=> InQueue(tasks, u))
  BY <1>1, <1>2, CallRoom, QueuePosted DEF AdcInv, AdcTasks, stop
<1>4. excitation' \in BOOLEAN /\ (AlwaysOn \cap Excited = {} => ~excitation')
  BY <1>1 DEF Reset, AdcInv, AdcTypeOK
<1>5. AdcTypeOK'
  <2>1. sflag' \in BOOLEAN /\ initflag' \in BOOLEAN
    BY <1>1
  <2>2. scount' \in 0 .. 1
    BY <1>1
  <2>. QED
    BY <1>1, <1>3, <1>4, <2>1, <2>2 DEF AdcInv, AdcTypeOK, Queue, AdcTasks, BusTypeOK
<1>6. BusInv'
  BY <1>1 DEF AdcInv, BusInv
<1>. QED
  BY <1>1, <1>3, <1>4, <1>5, <1>6
  DEF AdcInv, QueueInv, PickInv, SampleInv, StateInv, ExcitationInv, WaitInv

LEMMA DioPacketStep ==
  ASSUME AdcInv, DioPacket
  PROVE  AdcInv' /\ (WaitInv => WaitInv')
<1>1. /\ calls' \in 0 .. MaxCalls /\ bus.state = "IDLE"
      /\ bus' = writePacket(bus, "Dio", "i2c_data") \/ bus' = readPacket(bus, "Dio", 1)
      /\ tasks' = Posted(tasks, "I2C_task")
      /\ UNCHANGED <<state, chan, adc_bitmap, adc_stopbitmap, conversionNumber, condition,
                     sflag, scount, initflag, i2cwflag, i2crflag, samplecount, excitation,
                     powerTimer, selected>>
  BY OneMoreCall DEF DioPacket, AdcInv, adcVars
<1>2. BusOK' /\ bus'.state # "IDLE"
  <2>1. CASE bus' = writePacket(bus, "Dio", "i2c_data")
    BY <2>1, BusWrite DEF AdcInv, BusOK, AdcTypeOK
  <2>2. CASE bus' = readPacket(bus, "Dio", 1)
    BY <1>1, <2>2, BusRead DEF AdcInv, BusOK, AdcTypeOK
  <2>. QED  BY <1>1, <2>1, <2>2
<1>3. /\ Queue(tasks)'
      /\ \A u : u # "I2C_task" => (InQueue(tasks', u) <=> InQueue(tasks, u))
  BY <1>1, QueuePosted DEF AdcInv, QueueInv, AdcTasks
<1>4. AdcTypeOK'
  BY <1>1, <1>2, <1>3 DEF AdcInv, AdcTypeOK, Queue, AdcTasks, BusOK
<1>5. state # "PICK_CHANNEL" /\ state # "GET_SAMPLE"
  BY <1>1 DEF AdcInv, PickInv, SampleInv, Writing, Reading
<1>. QED
  BY <1>1, <1>2, <1>3, <1>4, <1>5
  DEF AdcInv, BusOK, QueueInv, PickInv, SampleInv, StateInv, ExcitationInv, WaitInv
-----------------------------------------------------------------------------
LEMMA I2CTaskStep ==
  ASSUME AdcInv, Hurried = FALSE, ReadRefused = FALSE, I2C_task
  PROVE  AdcInv' /\ (WaitInv => WaitInv')
<1>1. CASE /\ \/ sendStartDone \/ AddressWritten(Contents(bus.data)) \/ ReadAddressWritten
              \/ readDone
           /\ UNCHANGED <<adcVars, selected, calls>>
  <2>1. UNCHANGED <<adcVars, calls>> /\ UNCHANGED selected
    BY <1>1
  <2>. QED  BY <1>1, <2>1, ContinuesStep
<1>2. CASE /\ DataWritten /\ UNCHANGED <<adcVars, calls>>
           /\ selected' = IF bus.addr = "IBADC" THEN bus.byte ELSE selected
  BY <1>2, ContinuesStep
<1>3. CASE bus.addr = "IBADC" /\ WriteEnds /\ writePacketDone(TRUE, Tail(tasks))
           /\ UNCHANGED <<selected, calls>>
  BY <1>3, WriteEndsStep
<1>4. CASE bus.addr = "IBADC" /\ WriteFails /\ writePacketDone(FALSE, Tail(tasks))
           /\ UNCHANGED <<selected, calls>>
  BY <1>4, WriteEndsStep
<1>5. CASE bus.addr = "IBADC" /\ ReadEnds /\ readPacketDone(Tail(tasks)) /\ UNCHANGED selected
  BY <1>5, ReadEndsStep
<1>6. CASE /\ bus.addr = "Dio" /\ (WriteEnds \/ WriteFails \/ ReadEnds)
           /\ bus' = Idle /\ Returns /\ UNCHANGED <<adcVars, selected, calls>>
  BY <1>6, DioEndsStep
<1>. QED  BY <1>1, <1>2, <1>3, <1>4, <1>5, <1>6 DEF I2C_task

LEMMA AdcStep ==
  ASSUME AdcInv, Hurried = FALSE, ReadRefused = FALSE, [AdcNext]_ibadcVars
  PROVE  AdcInv' /\ (MaxTasks >= 3 /\ WaitInv => WaitInv')
<1>1. CASE I2C_task
  BY <1>1, I2CTaskStep
<1>2. CASE adc_get_data
  BY <1>2, GetDataStep
<1>3. CASE output_ref
  BY <1>3, OutputRefStep
<1>4. CASE stopchannel
  BY <1>4, StopchannelStep
<1>5. CASE PowerTimerFired
  BY <1>5, PowerTimerStep
<1>6. ASSUME NEW c \in Channels, getData(c) PROVE AdcInv' /\ (WaitInv => WaitInv')
  BY <1>6, AskStep
<1>7. CASE start
  BY <1>7, StartStep
<1>8. CASE stop
  BY <1>8, StopStep
<1>9. CASE DioPacket
  BY <1>9, DioPacketStep
<1>10. CASE UNCHANGED ibadcVars
  BY <1>10
  DEF ibadcVars, adcVars, AdcInv, AdcTypeOK, BusTypeOK, BusInv, QueueInv, Queue, AtMostOne,
      InQueue, PickInv, SampleInv, StateInv, ExcitationInv, WaitInv, Writing, Reading
<1>. QED
  BY <1>1, <1>2, <1>3, <1>4, <1>5, <1>6, <1>7, <1>8, <1>9, <1>10 DEF AdcNext, TaskStep

(* When starts and stops wait for the tasks of the last one, and the ADC    *)
(* acknowledges its address.                                                *)
LEMMA AdcInvAlways ==
  ASSUME Hurried = FALSE, ReadRefused = FALSE
  PROVE  AdcSafety => []AdcInv
<1>1. AdcInv /\ [AdcNext]_ibadcVars => AdcInv'
  BY AdcStep
<1>. QED  BY <1>1, AdcInitInv, PTL DEF AdcSafety

(* The types of the driver and of the bus: what goes to the ADC is always a *)
(* channel code (IBADCM.nc, I2CPacketM.nc).                                 *)
THEOREM AdcTypeCorrect ==
  ASSUME Hurried = FALSE, ReadRefused = FALSE
  PROVE  AdcSafety => []AdcTypeOK
<1>1. AdcInv => AdcTypeOK
  BY DEF AdcInv
<1>. QED  BY <1>1, AdcInvAlways, PTL

(* A value is read while the ADC is set to the channel it is reported for   *)
(* (IBADCM.nc, convert, writePacketDone and readPacketDone).                *)
THEOREM ReadsItsChannelAlways ==
  ASSUME Hurried = FALSE, ReadRefused = FALSE
  PROVE  AdcSafety => []ReadsItsChannel
<1>1. AdcInv => ReadsItsChannel
  BY DEF AdcInv, SampleInv, ReadsItsChannel
<1>. QED  BY <1>1, AdcInvAlways, PTL

(* At rest nothing is left to do and the excitation is off, though posts of *)
(* adc_get_data are refused when the queue is full (IBADCM.nc, adc_get_data *)
(* and output_ref).                                                         *)
THEOREM AtRestAlways ==
  ASSUME Hurried = FALSE, ReadRefused = FALSE, MaxTasks >= 3
  PROVE  AdcSafety => []AtRest
<1>1. AdcInv /\ WaitInv /\ [AdcNext]_ibadcVars => WaitInv'
  BY AdcStep
<1>2. AdcInv /\ WaitInv => AtRest
  <2>. SUFFICES ASSUME AdcInv, WaitInv, tasks = << >>, ~powerTimer, bus.state = "IDLE"
                PROVE  /\ state = "IDLE"
                       /\ sflag => adc_bitmap = {}
                       /\ excitation => AlwaysOn # {}
    BY DEF AtRest
  <2>1. \A u : ~InQueue(tasks, u)
    BY DEF InQueue
  <2>2. state = "IDLE"
    BY DEF AdcInv, AdcTypeOK, StateInv, PickInv, SampleInv, Writing, Reading
  <2>3. sflag => adc_bitmap = {}
    BY <2>1, <2>2 DEF WaitInv
  <2>4. excitation => AlwaysOn # {}
    BY <2>1, <2>2, <2>3 DEF AdcInv, ExcitationInv
  <2>. QED  BY <2>2, <2>3, <2>4
<1>. QED  BY <1>1, <1>2, AdcInitInv, AdcInvAlways, PTL DEF AdcSafety
=============================================================================
