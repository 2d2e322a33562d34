----------------------------- MODULE SplitPhase -----------------------------
(***************************************************************************)
(* The contract of a split-phase send with one message at a time: every    *)
(* accepted message comes back in exactly one sendDone, and no other does. *)
(***************************************************************************)
EXTENDS Integers

CONSTANT Messages

VARIABLE owed   \* how many sendDone events each message is owed

SplitInit == owed = [m \in Messages |-> 0]

Accept(m) ==
  /\ \A n \in Messages : owed[n] = 0
  /\ owed' = [owed EXCEPT ![m] = 1]

SendDone(m) ==
  /\ owed[m] = 1
  /\ owed' = [owed EXCEPT ![m] = 0]

SplitNext == \E m \in Messages : Accept(m) \/ SendDone(m)

SplitSafety == SplitInit /\ [][SplitNext]_owed

SplitSpec == SplitSafety /\ \A m \in Messages : WF_owed(SendDone(m))
=============================================================================
