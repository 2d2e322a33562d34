--------------------------- MODULE TaskFifo_proofs ---------------------------
(***************************************************************************)
(* What posting and running a task does to the task queue, for the proofs  *)
(* about the components that post.                                         *)
(***************************************************************************)
EXTENDS TaskFifo, SequenceTheorems, TLAPS

(* A post adds its task behind the others.                                  *)
LEMMA PostQueue ==
  ASSUME FifoTypeOK, NEW t \in Tasks, Post(t), NEW u
  PROVE  /\ FifoTypeOK'
         /\ Queued(u)' <=> Queued(u) \/ u = t
         /\ Once(u) /\ (u = t => ~Queued(u)) => Once(u)'
<1>1. /\ tasks' \in Seq(Tasks) /\ Len(tasks') = Len(tasks) + 1
      /\ Len(tasks) \in Nat
      /\ \A i \in 1 .. Len(tasks) : tasks'[i] = tasks[i]
      /\ tasks'[Len(tasks) + 1] = t
  BY DEF FifoTypeOK, Post
<1>2. FifoTypeOK'
  BY <1>1, FifoAssumption DEF FifoTypeOK, Post, HasRoom
<1>3. Queued(u)' <=> Queued(u) \/ u = t
  BY <1>1 DEF Queued
<1>4. ASSUME Once(u), u = t => ~Queued(u) PROVE Once(u)'
  BY <1>1, <1>4 DEF Once, Queued
<1>. QED  BY <1>2, <1>3, <1>4

(* The task that is run leaves the queue.                                   *)
LEMMA RunQueue ==
  ASSUME FifoTypeOK, RunNext, NEW u
  PROVE  /\ FifoTypeOK'
         /\ running' \in Tasks
         /\ Queued(u) <=> Queued(u)' \/ u = running'
         /\ Once(u) => Once(u)' /\ (u = running' => ~Queued(u)')
<1>1. /\ tasks' \in Seq(Tasks) /\ Len(tasks') = Len(tasks) - 1
      /\ Len(tasks) \in Nat \ {0}
      /\ \A i \in 1 .. Len(tasks') : tasks'[i] = tasks[i + 1]
      /\ running' = tasks[1] /\ tasks[1] \in Tasks
  BY HeadTailProperties DEF FifoTypeOK, RunNext
<1>2. FifoTypeOK'
  BY <1>1, FifoAssumption DEF FifoTypeOK
<1>3. Queued(u) <=> Queued(u)' \/ u = running'
  <2>1. ASSUME Queued(u) PROVE Queued(u)' \/ u = running'
    <3>1. PICK i \in 1 .. Len(tasks) : tasks[i] = u
      BY <2>1 DEF Queued
    <3>2. CASE i = 1
      BY <3>1, <3>2, <1>1
    <3>3. CASE i # 1
      <4>1. i - 1 \in 1 .. Len(tasks') /\ tasks'[i - 1] = u
        BY <3>1, <3>3, <1>1
      <4>. QED  BY <4>1 DEF Queued
    <3>. QED  BY <3>2, <3>3
  <2>2. ASSUME Queued(u)' PROVE Queued(u)
    <3>1. PICK i \in 1 .. Len(tasks') : tasks'[i] = u
      BY <2>2 DEF Queued
    <3>2. i + 1 \in 1 .. Len(tasks) /\ tasks[i + 1] = u
      BY <3>1, <1>1
    <3>. QED  BY <3>2 DEF Queued
  <2>3. ASSUME u = running' PROVE Queued(u)
    BY <2>3, <1>1 DEF Queued
  <2>. QED  BY <2>1, <2>2, <2>3
<1>4. ASSUME Once(u) PROVE Once(u)' /\ (u = running' => ~Queued(u)')
  <2>1. Once(u)'
    <3>. SUFFICES ASSUME NEW i \in 1 .. Len(tasks'), NEW j \in 1 .. Len(tasks'),
                         tasks'[i] = u, tasks'[j] = u
                  PROVE  i = j
      BY DEF Once
    <3>1. /\ i + 1 \in 1 .. Len(tasks) /\ tasks[i + 1] = u
          /\ j + 1 \in 1 .. Len(tasks) /\ tasks[j + 1] = u
      BY <1>1
    <3>. QED  BY <3>1, <1>4 DEF Once
  <2>2. ASSUME u = running', Queued(u)' PROVE FALSE
    <3>1. PICK i \in 1 .. Len(tasks') : tasks'[i] = u
      BY <2>2 DEF Queued
    <3>2. i + 1 \in 1 .. Len(tasks) /\ tasks[i + 1] = u /\ 1 \in 1 .. Len(tasks)
      BY <3>1, <1>1
    <3>3. i + 1 = 1
      BY <3>2, <2>2, <1>1, <1>4 DEF Once
    <3>. QED  BY <3>3, <3>1
  <2>. QED  BY <2>1, <2>2
<1>. QED  BY <1>1, <1>2, <1>3, <1>4

(* Other steps leave the queue alone.                                       *)
LEMMA SameQueue ==
  ASSUME UNCHANGED tasks, NEW u
  PROVE  (Queued(u)' <=> Queued(u)) /\ (Once(u)' <=> Once(u))
BY DEF Queued, Once
=============================================================================
