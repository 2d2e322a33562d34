------------------------------ MODULE SendQueue ------------------------------
(***************************************************************************)
(* The contract of a queued send: any number of messages up to a capacity  *)
(* are under way; they are handed back in the order in which they were     *)
(* accepted, each once.                                                    *)
(***************************************************************************)
EXTENDS Naturals, Sequences

CONSTANTS
  Messages,
  Capacity

VARIABLE pending   \* the accepted messages that are not back, oldest first

QueueInit == pending = <<>>

Accept(m) ==
  /\ Len(pending) < Capacity
  /\ \A i \in 1 .. Len(pending) : pending[i] # m
  /\ pending' = Append(pending, m)

HandBack ==
  /\ pending # <<>>
  /\ pending' = Tail(pending)

QueueNext == HandBack \/ \E m \in Messages : Accept(m)

QueueSafety == QueueInit /\ [][QueueNext]_pending
=============================================================================
