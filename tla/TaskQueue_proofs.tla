--------------------------- MODULE TaskQueue_proofs ---------------------------
(***************************************************************************)
(* The ring of sched.c implements the first-in first-out task queue, for   *)
(* every number of slots and every set of tasks.                           *)
(***************************************************************************)
EXTENDS TaskQueue, SequenceTheorems, TLAPS

(* The inductive invariant.                                                 *)
IInv == TypeOK /\ NoHole

(* Arithmetic of the ring: Place numbers the slots from the head, and Count *)
(* is one of its distances.                                                 *)
LEMMA CountBound == TypeOK => Count \in 0 .. MaxTasks
BY TaskQueueAssumption DEF TypeOK, Count, Slots

LEMMA PlaceInSlots ==
  ASSUME TypeOK, NEW k \in Slots
  PROVE  Place(k) \in Slots
BY TaskQueueAssumption DEF TypeOK, Place, Slots

LEMMA PlaceOnto ==
  ASSUME TypeOK, NEW i \in Slots
  PROVE  \E k \in Slots : Place(k) = i
<1>1. CASE i >= TOSH_sched_full
  <2>1. i - TOSH_sched_full \in Slots /\ Place(i - TOSH_sched_full) = i
    BY <1>1, TaskQueueAssumption DEF TypeOK, Place, Slots
  <2>. QED  BY <2>1
<1>2. CASE ~(i >= TOSH_sched_full)
  <2>1. /\ i - TOSH_sched_full + MaxTasks \in Slots
        /\ Place(i - TOSH_sched_full + MaxTasks) = i
    BY <1>2, TaskQueueAssumption DEF TypeOK, Place, Slots
  <2>. QED  BY <2>1
<1>. QED  BY <1>1, <1>2

(* The slot that TOS_post looks at is the first one behind the used run, or *)
(* the head itself when the list is full.                                   *)
LEMMA FreePlace ==
  ASSUME IInv
  PROVE  /\ Count < MaxTasks => TOSH_sched_free = Place(Count)
         /\ Count = MaxTasks => TOSH_sched_free = TOSH_sched_full
         /\ FreeSlot <=> Count < MaxTasks
<1>1. /\ Count < MaxTasks => TOSH_sched_free = Place(Count)
      /\ Count = MaxTasks => TOSH_sched_free = TOSH_sched_full
  BY TaskQueueAssumption DEF IInv, TypeOK, NoHole, Count, Place, Slots
<1>2. CASE Count < MaxTasks
  <2>1. Count \in Slots
    BY <1>2, CountBound, TaskQueueAssumption DEF IInv, Slots
  <2>2. TOSH_queue[Place(Count)] = NULL
    BY <2>1, CountBound DEF IInv, NoHole
  <2>. QED  BY <1>1, <1>2, <2>2 DEF FreeSlot
<1>3. CASE Count = MaxTasks
  <2>1. TOSH_queue[TOSH_sched_full] # NULL
    BY <1>3, TaskQueueAssumption DEF Count
  <2>. QED  BY <1>1, <1>3, <2>1, TaskQueueAssumption DEF FreeSlot
<1>. QED  BY <1>1, <1>2, <1>3, CountBound, TaskQueueAssumption DEF IInv

LEMMA InitInv == Init => IInv
BY TaskQueueAssumption DEF Init, IInv, TypeOK, NoHole, Slots, Count, Place

(* A post lengthens the used run by one slot and moves nothing.             *)
LEMMA PostStep ==
  ASSUME IInv, NEW tp \in Tasks, TOS_post(tp)
  PROVE  /\ IInv'
         /\ Count < MaxTasks
         /\ Count' = Count + 1
         /\ TOSH_queue'[Place(Count)] = tp
         /\ \A k \in Slots : Place(k)' = Place(k)
         /\ \A k \in Slots : k < Count => TOSH_queue'[Place(k)] = TOSH_queue[Place(k)]
<1>. USE TaskQueueAssumption
<1>1. Count < MaxTasks /\ Count \in Nat /\ Count \in Slots
  BY FreePlace, CountBound DEF TOS_post, IInv, Slots
<1>2. TOSH_sched_free = Place(Count)
  BY <1>1, FreePlace
<1>3. TypeOK'
  BY DEF IInv, TypeOK, TOS_post, NextSlot, Slots
<1>4. \A k \in Slots : Place(k)' = Place(k)
  BY DEF TOS_post, Place
<1>5. \A k \in Slots : Place(k) \in Slots
  BY PlaceInSlots DEF IInv
<1>6. \A k \in Slots : k # Count => Place(k) # Place(Count)
  BY <1>1 DEF IInv, TypeOK, Place, Slots
<1>7. /\ TOSH_queue'[Place(Count)] = tp
      /\ \A k \in Slots : k # Count => TOSH_queue'[Place(k)] = TOSH_queue[Place(k)]
  BY <1>1, <1>2, <1>5, <1>6 DEF IInv, TypeOK, TOS_post
<1>8. TOSH_sched_full' = TOSH_sched_full /\ TOSH_sched_full = Place(0) /\ 0 \in Slots
  BY DEF TOS_post, IInv, TypeOK, Place, Slots
<1>9. TOSH_queue'[TOSH_sched_full] # NULL
  <2>1. CASE Count = 0
    BY <2>1, <1>7, <1>8
  <2>2. CASE Count # 0
    <3>1. TOSH_queue[TOSH_sched_full] # NULL
      BY <2>2 DEF Count
    <3>. QED  BY <2>2, <3>1, <1>7, <1>8
  <2>. QED  BY <2>1, <2>2
<1>10. Count' = Count + 1
  BY <1>1, <1>2, <1>8, <1>9 DEF IInv, TypeOK, TOS_post, NextSlot, Count, Place, Slots, NoHole
<1>11. NoHole'
  <2>1. \A k \in Slots : TOSH_queue'[Place(k)'] # NULL <=> k < Count'
    <3>. SUFFICES ASSUME NEW k \in Slots
                  PROVE  TOSH_queue'[Place(k)] # NULL <=> k < Count + 1
      BY <1>4, <1>10
    <3>1. CASE k = Count
      BY <3>1, <1>1, <1>7 DEF Slots
    <3>2. CASE k # Count
      BY <3>2, <1>1, <1>7 DEF IInv, NoHole, Slots
    <3>. QED  BY <3>1, <3>2
  <2>2. TOSH_queue'[TOSH_sched_full'] # NULL
    BY <1>8, <1>9
  <2>. QED  BY <2>1, <2>2 DEF NoHole
<1>12. \A k \in Slots : k < Count => TOSH_queue'[Place(k)] = TOSH_queue[Place(k)]
  BY <1>1, <1>7 DEF Slots
<1>. QED  BY <1>1, <1>3, <1>4, <1>7, <1>10, <1>11, <1>12 DEF IInv

(* Running the head shortens the used run by its first slot.                *)
LEMMA PopStep ==
  ASSUME IInv, TOSH_run_next_task
  PROVE  /\ IInv'
         /\ Count > 0
         /\ func' = TOSH_queue[Place(0)]
         /\ Count' = Count - 1
         /\ \A k \in Slots : k + 1 < Count =>
              TOSH_queue'[Place(k)'] = TOSH_queue[Place(k + 1)]
<1>. USE TaskQueueAssumption
<1>1. /\ Count \in 1 .. MaxTasks
      /\ TOSH_sched_full \in Slots /\ TOSH_sched_full = Place(0)
      /\ TOSH_queue[TOSH_sched_full] # NULL
  <2>1. TOSH_queue[TOSH_sched_full] # NULL
    BY DEF TOSH_run_next_task
  <2>. QED  BY <2>1 DEF IInv, TypeOK, Count, Place, Slots
<1>2. TypeOK'
  BY <1>1 DEF IInv, TypeOK, TOSH_run_next_task, NextSlot, Cleared, Slots
<1>3. \A k \in Slots : Place(k)' = IF k = MaxTasks - 1 THEN TOSH_sched_full ELSE Place(k + 1)
  BY DEF IInv, TypeOK, TOSH_run_next_task, NextSlot, Place, Slots
<1>4. \A k \in Slots : Place(k) \in Slots
  BY PlaceInSlots DEF IInv
<1>5. \A k \in Slots : k # 0 => Place(k) # TOSH_sched_full
  BY DEF IInv, TypeOK, Place, Slots
<1>6. /\ TOSH_queue'[TOSH_sched_full] = NULL
      /\ \A k \in Slots : k # 0 => TOSH_queue'[Place(k)] = TOSH_queue[Place(k)]
  BY <1>1, <1>4, <1>5 DEF IInv, TypeOK, TOSH_run_next_task, Cleared
<1>7. \A k \in Slots : k + 1 \in Slots =>
        (TOSH_queue'[Place(k)'] # NULL <=> k + 1 < Count)
  <2>. SUFFICES ASSUME NEW k \in Slots, k + 1 \in Slots
                PROVE  TOSH_queue'[Place(k)'] # NULL <=> k + 1 < Count
    OBVIOUS
  <2>1. Place(k)' = Place(k + 1) /\ k + 1 # 0
    BY <1>3 DEF Slots
  <2>2. TOSH_queue'[Place(k)'] = TOSH_queue[Place(k + 1)]
    BY <2>1, <1>6
  <2>. QED  BY <2>2 DEF IInv, NoHole
<1>8. TOSH_queue'[Place(MaxTasks - 1)'] = NULL
  BY <1>3, <1>6 DEF Slots
<1>9. /\ TOSH_sched_full' = Place(0)' /\ 0 \in Slots
      /\ TOSH_queue'[TOSH_sched_full'] # NULL <=> 1 < Count
  <2>1. TOSH_sched_full' = Place(0)' /\ 0 \in Slots
    <3>1. 0 \in Slots /\ (MaxTasks # 1 => 1 \in Slots)
      BY DEF Slots
    <3>2. TOSH_sched_full' = NextSlot(TOSH_sched_full)
      BY DEF TOSH_run_next_task
    <3>3. MaxTasks # 1 => Place(1) = NextSlot(TOSH_sched_full)
      BY <1>1 DEF Place, NextSlot, Slots
    <3>4. Place(0)' = IF MaxTasks = 1 THEN TOSH_sched_full ELSE Place(1)
      BY <1>3, <3>1
    <3>5. MaxTasks = 1 => NextSlot(TOSH_sched_full) = TOSH_sched_full
      BY <1>1 DEF NextSlot, Slots
    <3>. QED  BY <3>1, <3>2, <3>3, <3>4, <3>5
  <2>2. CASE MaxTasks = 1
    BY <2>1, <2>2, <1>1, <1>8
  <2>3. CASE MaxTasks # 1
    <3>1. 0 + 1 \in Slots
      BY <2>3 DEF Slots
    <3>. QED  BY <2>1, <3>1, <1>7
  <2>. QED  BY <2>1, <2>2, <2>3
<1>10. Count' = Count - 1 /\ (Count = 1 => TOSH_sched_free' = TOSH_sched_full')
  <2>1. /\ TOSH_sched_free' = TOSH_sched_free
        /\ TOSH_sched_full' = NextSlot(TOSH_sched_full)
    BY DEF TOSH_run_next_task
  <2>2. CASE Count = 1
    <3>1. Count' = 0
      BY <2>2, <1>9 DEF Count
    <3>2. TOSH_sched_free = NextSlot(TOSH_sched_full)
      BY <2>2, <1>1 DEF Count, NextSlot, Slots, IInv, TypeOK
    <3>. QED  BY <2>1, <2>2, <3>1, <3>2
  <2>3. CASE Count # 1
    <3>1. TOSH_queue'[TOSH_sched_full'] # NULL
      BY <2>3, <1>1, <1>9
    <3>. QED  BY <2>1, <2>3, <3>1, <1>1 DEF Count, NextSlot, Slots, IInv, TypeOK
  <2>. QED  BY <2>2, <2>3
<1>11. NoHole'
  <2>1. \A k \in Slots : TOSH_queue'[Place(k)'] # NULL <=> k < Count'
    <3>. SUFFICES ASSUME NEW k \in Slots
                  PROVE  TOSH_queue'[Place(k)'] # NULL <=> k < Count - 1
      BY <1>10
    <3>1. CASE k + 1 \in Slots
      BY <3>1, <1>1, <1>7 DEF Slots
    <3>2. CASE k = MaxTasks - 1
      BY <3>2, <1>1, <1>8 DEF Slots
    <3>. QED  BY <3>1, <3>2 DEF Slots
  <2>2. TOSH_queue'[TOSH_sched_full'] = NULL => TOSH_sched_free' = TOSH_sched_full'
    BY <1>1, <1>9, <1>10
  <2>. QED  BY <2>1, <2>2 DEF NoHole
<1>12. \A k \in Slots : k + 1 < Count => TOSH_queue'[Place(k)'] = TOSH_queue[Place(k + 1)]
  <2>. SUFFICES ASSUME NEW k \in Slots, k + 1 < Count
                PROVE  TOSH_queue'[Place(k)'] = TOSH_queue[Place(k + 1)]
    OBVIOUS
  <2>1. k + 1 \in Slots /\ k + 1 # 0 /\ Place(k)' = Place(k + 1)
    BY <1>1, <1>3 DEF Slots
  <2>. QED  BY <2>1, <1>6
<1>13. func' = TOSH_queue[Place(0)]
  BY <1>1 DEF TOSH_run_next_task
<1>. QED  BY <1>1, <1>2, <1>10, <1>11, <1>12, <1>13 DEF IInv

(* Any other step leaves the list alone.                                    *)
LEMMA OtherStep ==
  ASSUME IInv, FuncReturns \/ (\E tp \in Tasks : TOS_postRefused(tp)) \/ UNCHANGED vars
  PROVE  /\ IInv'
         /\ Count' = Count
         /\ \A k \in Slots : Place(k)' = Place(k)
         /\ TOSH_queue' = TOSH_queue
<1>1. /\ UNCHANGED <<TOSH_queue, TOSH_sched_full, TOSH_sched_free>>
      /\ func' \in {func, NULL}
  BY DEF FuncReturns, TOS_postRefused, vars
<1>. QED  BY <1>1 DEF IInv, TypeOK, NoHole, Count, Place

LEMMA StepInv == IInv /\ [Next]_vars => IInv'
<1>. SUFFICES ASSUME IInv, [Next]_vars PROVE IInv'
  OBVIOUS
<1>1. ASSUME NEW tp \in Tasks, TOS_post(tp) PROVE IInv'
  BY <1>1, PostStep
<1>2. CASE TOSH_run_next_task
  BY <1>2, PopStep
<1>3. CASE FuncReturns \/ (\E tp \in Tasks : TOS_postRefused(tp)) \/ UNCHANGED vars
  BY <1>3, OtherStep
<1>. QED  BY <1>1, <1>2, <1>3 DEF Next

(* The indices stay inside the array (TOSH_TASK_BITMASK wraps them).        *)
THEOREM TypeCorrect == Spec => []TypeOK
<1>1. IInv => TypeOK
  BY DEF IInv
<1>. QED  BY InitInv, StepInv, <1>1, PTL DEF Spec, Safety

(* The list never has a hole, and its two indices meet when it is empty:    *)
(* the main loop never sleeps with a task posted (sched.c TOS_post and      *)
(* TOSH_run_next_task).                                                     *)
THEOREM NoHoleAlways == Spec => []NoHole
<1>1. IInv => NoHole
  BY DEF IInv
<1>. QED  BY InitInv, StepInv, <1>1, PTL DEF Spec, Safety

(* TOS_post refuses a task only when every slot holds one.                  *)
THEOREM RefusedOnlyWhenFullAlways == Spec => []RefusedOnlyWhenFull
<1>1. IInv => RefusedOnlyWhenFull
  <2>. SUFFICES ASSUME IInv, ~FreeSlot, NEW i \in Slots
                PROVE  TOSH_queue[i] # NULL
    BY DEF RefusedOnlyWhenFull
  <2>1. Count = MaxTasks
    BY FreePlace, CountBound, TaskQueueAssumption DEF IInv
  <2>2. PICK k \in Slots : Place(k) = i
    BY PlaceOnto DEF IInv
  <2>3. k < Count
    BY <2>1, TaskQueueAssumption DEF Slots
  <2>. QED  BY <2>2, <2>3 DEF IInv, NoHole
<1>. QED  BY <1>1, InitInv, StepInv, PTL DEF Spec, Safety

(* The contents of the list, oldest first: what the refinement mapping gives *)
(* the abstract queue.                                                      *)
Contents == [k \in 1 .. Count |-> TOSH_queue[Place(k - 1)]]

LEMMA ContentsIsSeq ==
  IInv => Contents \in Seq(Tasks) /\ Len(Contents) = Count
<1>. SUFFICES ASSUME IInv
              PROVE  Contents \in Seq(Tasks) /\ Len(Contents) = Count
  OBVIOUS
<1>1. Count \in Nat /\ Count <= MaxTasks
  BY CountBound, TaskQueueAssumption DEF IInv
<1>2. \A k \in 1 .. Count : TOSH_queue[Place(k - 1)] \in Tasks
  <2>. SUFFICES ASSUME NEW k \in 1 .. Count
                PROVE  TOSH_queue[Place(k - 1)] \in Tasks
    OBVIOUS
  <2>1. k - 1 \in Slots /\ k - 1 < Count
    BY <1>1, TaskQueueAssumption DEF Slots
  <2>2. Place(k - 1) \in Slots
    BY <2>1, PlaceInSlots DEF IInv
  <2>. QED  BY <2>1, <2>2 DEF IInv, TypeOK, NoHole
<1>. QED  BY <1>1, <1>2 DEF Contents

LEMMA ContentsIsSeqNext ==
  (IInv => Contents \in Seq(Tasks) /\ Len(Contents) = Count)'
BY ContentsIsSeq, PTL

LEMMA PostRefines ==
  ASSUME IInv, NEW tp \in Tasks, TOS_post(tp)
  PROVE  Contents' = Append(Contents, tp) /\ Len(Contents) < MaxTasks
<1>1. /\ Contents \in Seq(Tasks) /\ Len(Contents) = Count
      /\ Contents' \in Seq(Tasks) /\ Len(Contents') = Count'
  <2>1. IInv'
    BY PostStep
  <2>2. Contents' \in Seq(Tasks) /\ Len(Contents') = Count'
    BY <2>1, ContentsIsSeqNext
  <2>. QED  BY <2>2, ContentsIsSeq
<1>2. Count \in Nat /\ Count' = Count + 1 /\ Count < MaxTasks
  BY PostStep, CountBound DEF IInv
<1>3. ASSUME NEW i \in 1 .. Count + 1
      PROVE  Contents'[i] = Append(Contents, tp)[i]
  <2>1. i - 1 \in Slots /\ i - 1 \in Nat
    BY <1>2, TaskQueueAssumption DEF Slots
  <2>2. Contents'[i] = TOSH_queue'[Place(i - 1)']
    BY <1>2 DEF Contents
  <2>3. Place(i - 1)' = Place(i - 1)
    BY <2>1, PostStep
  <2>4. CASE i = Count + 1
    <3>1. TOSH_queue'[Place(Count)] = tp
      BY PostStep
    <3>2. Append(Contents, tp)[i] = tp
      BY <1>1, <1>2, <2>4
    <3>. QED  BY <2>2, <2>3, <2>4, <3>1, <3>2, <1>2
  <2>5. CASE i # Count + 1
    <3>1. i \in 1 .. Count /\ i - 1 < Count
      BY <2>5, <1>2
    <3>2. TOSH_queue'[Place(i - 1)] = TOSH_queue[Place(i - 1)]
      BY <2>1, <3>1, PostStep
    <3>3. Append(Contents, tp)[i] = Contents[i]
      BY <1>1, <3>1
    <3>4. Contents[i] = TOSH_queue[Place(i - 1)]
      BY <3>1 DEF Contents
    <3>. QED  BY <2>2, <2>3, <3>2, <3>3, <3>4
  <2>. QED  BY <2>4, <2>5
<1>4. Append(Contents, tp) \in Seq(Tasks) /\ Len(Append(Contents, tp)) = Count + 1
  BY <1>1
<1>5. Contents' = Append(Contents, tp)
  BY <1>1, <1>2, <1>3, <1>4, SeqEqual
<1>. QED  BY <1>1, <1>2, <1>5

LEMMA PopRefines ==
  ASSUME IInv, TOSH_run_next_task
  PROVE  /\ Contents # <<>>
         /\ func' = Head(Contents)
         /\ Contents' = Tail(Contents)
<1>1. /\ Contents \in Seq(Tasks) /\ Len(Contents) = Count
      /\ Contents' \in Seq(Tasks) /\ Len(Contents') = Count'
  <2>1. IInv'
    BY PopStep
  <2>2. Contents' \in Seq(Tasks) /\ Len(Contents') = Count'
    BY <2>1, ContentsIsSeqNext
  <2>. QED  BY <2>2, ContentsIsSeq
<1>2. Count \in Nat /\ Count > 0 /\ Count' = Count - 1 /\ Count <= MaxTasks
  BY PopStep, CountBound, TaskQueueAssumption DEF IInv
<1>3. Contents # <<>> /\ Head(Contents) = TOSH_queue[Place(0)]
  <2>1. Contents[1] = TOSH_queue[Place(1 - 1)] /\ 1 - 1 = 0
    BY <1>2 DEF Contents
  <2>. QED  BY <1>1, <1>2, <2>1
<1>4. Tail(Contents) \in Seq(Tasks) /\ Len(Tail(Contents)) = Count - 1
  BY <1>1, <1>3, HeadTailProperties
<1>5. ASSUME NEW i \in 1 .. Count - 1
      PROVE  Contents'[i] = Tail(Contents)[i]
  <2>1. /\ i - 1 \in Slots /\ (i - 1) + 1 < Count /\ (i - 1) + 1 = i
        /\ i + 1 \in 1 .. Count /\ (i + 1) - 1 = i
    BY <1>2, TaskQueueAssumption DEF Slots
  <2>2. Contents'[i] = TOSH_queue'[Place(i - 1)']
    BY <1>2 DEF Contents
  <2>3. TOSH_queue'[Place(i - 1)'] = TOSH_queue[Place(i)]
    BY <2>1, PopStep
  <2>4. Tail(Contents)[i] = Contents[i + 1]
    BY <1>1, <1>3, <1>4, HeadTailProperties
  <2>5. Contents[i + 1] = TOSH_queue[Place(i)]
    BY <2>1 DEF Contents
  <2>. QED  BY <2>2, <2>3, <2>4, <2>5
<1>6. Contents' = Tail(Contents)
  BY <1>1, <1>2, <1>4, <1>5, SeqEqual
<1>. QED  BY <1>3, <1>6, PopStep

(* The ring runs the tasks that TOS_post accepted, once each, one at a time *)
(* and in the order of their posting (sched.c TOS_post, TOSH_run_next_task).*)
THEOREM ImplementsFifo == Safety => Fifo!FifoSafety
<1>1. Init => Fifo!FifoInit
  <2>. SUFFICES ASSUME Init PROVE Fifo!FifoInit
    OBVIOUS
  <2>1. Count = 0
    BY TaskQueueAssumption DEF Init, Count, Slots
  <2>2. IInv
    BY InitInv
  <2>3. Contents = <<>>
    BY <2>1, <2>2, ContentsIsSeq, EmptySeq
  <2>. QED  BY <2>3 DEF Init, Fifo!FifoInit, Contents
<1>2. IInv /\ [Next]_vars => [Fifo!FifoNext]_(Fifo!fifoVars)
  <2>. SUFFICES ASSUME IInv, [Next]_vars
                PROVE  [Fifo!FifoNext]_(Fifo!fifoVars)
    OBVIOUS
  <2>1. ASSUME NEW tp \in Tasks, TOS_post(tp) PROVE Fifo!FifoNext
    <3>1. func' = func
      BY <2>1 DEF TOS_post
    <3>2. Fifo!Post(tp)
      BY <2>1, <3>1, PostRefines DEF Fifo!Post, Fifo!HasRoom, Contents
    <3>. QED  BY <3>2 DEF Fifo!FifoNext
  <2>2. CASE TOSH_run_next_task
    <3>1. func = NULL
      BY <2>2 DEF TOSH_run_next_task
    <3>2. Fifo!RunNext
      BY <2>2, <3>1, PopRefines DEF Fifo!RunNext, Contents
    <3>. QED  BY <3>2 DEF Fifo!FifoNext
  <2>3. ASSUME FuncReturns \/ (\E tp \in Tasks : TOS_postRefused(tp)) \/ UNCHANGED vars
        PROVE  Contents' = Contents
    <3>1. /\ Count' = Count /\ TOSH_queue' = TOSH_queue
          /\ TOSH_sched_full' = TOSH_sched_full
      BY <2>3, OtherStep DEF FuncReturns, TOS_postRefused, vars
    <3>. QED  BY <3>1 DEF Contents, Place
  <2>4. CASE FuncReturns
    <3>1. Fifo!TaskReturns
      BY <2>4, <2>3 DEF FuncReturns, Fifo!TaskReturns, Contents
    <3>. QED  BY <3>1 DEF Fifo!FifoNext
  <2>5. CASE (\E tp \in Tasks : TOS_postRefused(tp)) \/ UNCHANGED vars
    <3>1. func' = func
      BY <2>5 DEF TOS_postRefused, vars
    <3>. QED  BY <2>5, <2>3, <3>1 DEF Fifo!fifoVars, Contents
  <2>. QED  BY <2>1, <2>2, <2>4, <2>5 DEF Next
<1>3. Safety => []IInv
  BY InitInv, StepInv, PTL DEF Safety
<1>. QED  BY <1>1, <1>2, <1>3, PTL DEF Safety, Fifo!FifoSafety
=============================================================================
