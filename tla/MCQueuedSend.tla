----------------------------- MODULE MCQueuedSend -----------------------------
(* Instances of QueuedSend for TLC.                                         *)
EXTENDS QueuedSend, TLC

CONSTANTS m1, m2, m3

MCMessages == {m1, m2, m3}
MCTwoMessages == {m1, m2}
MCTasks == {"QueueServiceTask", "client"}

Symmetry == Permutations(MCMessages)
=============================================================================
