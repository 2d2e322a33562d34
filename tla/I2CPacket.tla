-------------------------------- MODULE I2CPacket ------------------------------
(***************************************************************************)
(* The packet driver of the I2C bus, src/tos/system/I2CPacketM.nc, over    *)
(* the byte driver src/tos/platform/atm128/I2CM.nc.  One packet at a time  *)
(* is on the bus; all of its clients share the driver's variables.  The    *)
(* bytes go out one per run of I2C_task.                                   *)
(*                                                                         *)
(* Nothing here is called from an interrupt: a task, with the events it    *)
(* signals, is one step.  Every packet of this build ends with a stop      *)
(* (STOP_FLAG), and one write has one byte.                                *)
(***************************************************************************)
EXTENDS Integers, Sequences

CONSTANTS
  Clients,        \* the parameter id of the interface I2CPacket
  Pointers,       \* where the byte of a packet to write may be
  Bytes,          \* what it may be
  MaxTasks,       \* the room in the task queue the rest leaves
  ReadRefused     \* may a slave refuse the address of a read ?

ASSUME I2CPacketAssumption ==
  /\ Bytes \subseteq Nat /\ 0 \in Bytes
  /\ MaxTasks \in Nat \ {0}
  /\ ReadRefused \in BOOLEAN

VARIABLES
  tasks,          \* the task queue
  bus             \* the variables of I2CPacketM, with those of I2CM as i2c
                  \* (the byte operation waiting for I2C_task) and byte

BusStates ==
  {"IDLE", "WRITE_ADDRESS", "WRITE_DATA", "STOP_COMMAND", "STOP_COMMAND_SENT",
   "READ_ADDRESS", "READ_DATA", "READ_DONE"}

BusTypeOK ==
  bus \in [state : BusStates,
           i2c : {"none", "SEND_START", "WRITE_DATA", "READ_DATA", "SEND_END"},
           addr : Clients \cup {"none"}, index : 0 .. 3, length : 0 .. 2,
           data : Pointers \cup {"NULL"}, byte : Bytes]

-----------------------------------------------------------------------------
Posted(q, t) == IF Len(q) < MaxTasks THEN Append(q, t) ELSE q

(* I2CPacket.writePacket and readPacket on a bus b that is free.            *)
writePacket(b, id, p) ==
  [b EXCEPT !.state = "WRITE_ADDRESS", !.i2c = "SEND_START", !.addr = id,
            !.index = 0, !.length = 1, !.data = p]

readPacket(b, id, length) ==
  [b EXCEPT !.state = "READ_ADDRESS", !.i2c = "SEND_START", !.addr = id,
            !.index = 0, !.length = length]

(* What the other variables hold between packets is never read.             *)
Idle == [state |-> "IDLE", i2c |-> "none", addr |-> "none", index |-> 0,
         length |-> 0, data |-> "NULL", byte |-> 0]

(* I2C_task, when its event makes I2CPacketM ask for the next byte          *)
(* operation.                                                               *)
Continues(i2c) ==
  /\ tasks # << >>
  /\ Head(tasks) = "I2C_task"
  /\ bus.i2c = i2c
  /\ tasks' = Posted(Tail(tasks), "I2C_task")

sendStartDone ==
  /\ Continues("SEND_START")
  /\ bus' = IF bus.state = "WRITE_ADDRESS"
            THEN [bus EXCEPT !.i2c = "WRITE_DATA", !.state = "WRITE_DATA"]
            ELSE [bus EXCEPT !.i2c = "WRITE_DATA", !.state = "READ_DATA",
                             !.index = @ + 1]

(* writeDone of the address: the data byte is taken from where data points  *)
(* to only now, contents being what may be there.                           *)
AddressWritten(contents) ==
  /\ Continues("WRITE_DATA")
  /\ bus.state = "WRITE_DATA"
  /\ bus.index < bus.length
  /\ \E b \in contents :
       bus' = [bus EXCEPT !.index = @ + 1, !.byte = b,
                          !.state = IF bus.index + 1 = bus.length
                                    THEN "STOP_COMMAND" ELSE @]

DataWritten ==
  /\ Continues("WRITE_DATA")
  /\ bus.state = "STOP_COMMAND"
  /\ bus' = [bus EXCEPT !.state = "STOP_COMMAND_SENT", !.i2c = "SEND_END"]

ReadAddressWritten ==
  /\ Continues("WRITE_DATA")
  /\ bus.state = "READ_DATA"
  /\ bus' = [bus EXCEPT !.i2c = "READ_DATA"]

readDone ==
  /\ Continues("READ_DATA")
  /\ bus' = IF bus.index + 1 <= bus.length
            THEN [bus EXCEPT !.index = @ + 1]
            ELSE [bus EXCEPT !.index = @ + 1, !.state = "READ_DONE",
                             !.i2c = "SEND_END"]

(* I2C_task, when it ends with an event for the client addr.                *)
Ends(i2c) ==
  /\ tasks # << >>
  /\ Head(tasks) = "I2C_task"
  /\ bus.i2c = i2c

WriteEnds == Ends("SEND_END") /\ bus.state = "STOP_COMMAND_SENT"

ReadEnds == Ends("SEND_END") /\ bus.state = "READ_DONE"

(* A byte, be it the address of a read, was not acknowledged: the event is  *)
(* writePacketDone.                                                         *)
WriteFails ==
  Ends("WRITE_DATA") /\ (ReadRefused \/ bus.state # "READ_DATA")
=============================================================================
