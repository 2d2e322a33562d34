---------------------------------- MODULE Hdlc ---------------------------------
(***************************************************************************)
(* What the two halves of the serial framer, src/tos/platform/micaz/       *)
(* FramerM.nc, share: the bytes of the protocol and the task queue.        *)
(***************************************************************************)
EXTENDS TaskFifo

HDLC_FLAG_BYTE == 126
HDLC_CTLESC_BYTE == 125

PROTO_ACK == 64
PROTO_PACKET_ACK == 65
PROTO_PACKET_NOACK == 66

(* Mutated: a task that waits already is not posted again.                  *)
PostedOnce(t) == IF HasRoom /\ ~Queued(t) THEN Append(tasks, t) ELSE tasks

(* post t, whose result is ignored everywhere in the framer.                *)
Posted(t) == IF HasRoom THEN Append(tasks, t) ELSE tasks
=============================================================================
