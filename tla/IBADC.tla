---------------------------------- MODULE IBADC --------------------------------
(***************************************************************************)
(* The driver of the analog channels of the MDA300, src/tos/sensorboards/  *)
(* mda300/IBADCM.nc, on a bus it shares with DioM, as the application      *)
(* XMDA300M drives it.  A channel is converted by writing its code to the  *)
(* ADC and reading two bytes; requests wait in a bit map.                  *)
(*                                                                         *)
(* Left out: the multiplexed channels 7 to 10 (SwitchM) and the excitation *)
(* commands, not used by the application, and the values.                  *)
(***************************************************************************)
EXTENDS I2CPacket

CONSTANTS
  Channels,       \* the channels sampled
  Delayed,        \* those with DELAY_BEFORE_MEASUREMENT
  Excited,        \* those with an excitation
  AlwaysOn,       \* those with EXCITATION_ALWAYS_ON
  Conversions,    \* the number of conversions averaged, for each
  Reserved,       \* task slots the callers leave free
  Hurried,        \* may starts and stops follow on each other at once ?
  MaxCalls        \* bounds the starts, the stops and DioM's packets

MAX_ANALOG_CHNNELS == 13

ASSUME IBADCAssumption ==
  /\ Channels \subseteq (0 .. 6) \cup (11 .. MAX_ANALOG_CHNNELS)
  /\ Delayed \subseteq Channels
  /\ Excited \subseteq Channels
  /\ AlwaysOn \subseteq Channels
  /\ Conversions \in [Channels -> {1, 4, 8, 16}]
  /\ Reserved \in 0 .. MaxTasks
  /\ Hurried \in BOOLEAN
  /\ MaxCalls \in Nat
  /\ {"IBADC", "Dio"} \subseteq Clients
  /\ {"condition", "val", "i2c_data"} \subseteq Pointers

VARIABLES
  state,
  chan,           \* the channel being converted, 14 after start
  adc_bitmap,     \* the channels waiting for a conversion
  adc_stopbitmap, \* the channels used since start
  conversionNumber,
  condition,      \* the code to write
  sflag,          \* output_ref is done
  scount,         \* stopchannel is posted
  initflag,       \* stop has been called
  i2cwflag,       \* a write is under way: 1 of convert, 3 of another
  i2crflag,       \* a read is under way
  samplecount,    \* conversions since start, two or more being the same
  excitation,     \* is a supply or the booster on ?
  powerTimer,     \* is PowerStabalizingTimer running ?
  selected,       \* the channel code the ADC has
  calls

adcVars == <<state, chan, adc_bitmap, adc_stopbitmap, conversionNumber, condition,
             sflag, scount, initflag, i2cwflag, i2crflag, samplecount, excitation,
             powerTimer>>
ibadcVars == <<tasks, bus, adcVars, selected, calls>>

(* The code of a channel in the command byte; 8 for a channel that does not *)
(* exist.                                                                   *)
Code(c) ==
  CASE c \in {0, 2, 4, 6} -> 8 + c \div 2
    [] c \in {1, 3, 5}    -> 12 + c \div 2
    [] c \in 11 .. 13     -> c - 11
    [] OTHER              -> 8

(* What may be in a command byte; 15 is what the code of a channel becomes  *)
(* when it is shifted once more.                                            *)
Codes == {Code(c) : c \in Channels} \cup {0, 8, 15}

ASSUME CodesAssumption == Codes \subseteq Bytes

Unset == -1

AdcTypeOK ==
  /\ tasks \in Seq({"I2C_task", "adc_get_data", "output_ref", "stopchannel"})
  /\ Len(tasks) <= MaxTasks
  /\ BusTypeOK
  /\ state \in {"IDLE", "START_CONVERSION_PROCESS", "PICK_CHANNEL", "GET_SAMPLE",
                "CONTINUE_SAMPLE"}
  /\ chan \in Channels \cup {0, MAX_ANALOG_CHNNELS + 1}
  /\ adc_bitmap \subseteq Channels
  /\ adc_stopbitmap \subseteq Channels
  /\ conversionNumber \in 0 .. 16
  /\ condition \in Codes \cup {Unset}
  /\ sflag \in BOOLEAN
  /\ scount \in 0 .. 1
  /\ initflag \in BOOLEAN
  /\ i2cwflag \in {0, 1, 3}
  /\ i2crflag \in BOOLEAN
  /\ samplecount \in 0 .. 2
  /\ excitation \in BOOLEAN
  /\ powerTimer \in BOOLEAN
  /\ selected \in Codes
  /\ calls \in 0 .. MaxCalls

AdcInit ==
  /\ tasks = << >>
  /\ bus = Idle
  /\ state = "IDLE"
  /\ chan = 0
  /\ adc_bitmap = {}
  /\ adc_stopbitmap = {}
  /\ conversionNumber = 0
  /\ condition = Unset
  /\ sflag = FALSE
  /\ scount = 0
  /\ initflag = FALSE
  /\ i2cwflag = 0
  /\ i2crflag = FALSE
  /\ samplecount = 0
  /\ excitation = FALSE
  /\ powerTimer = FALSE
  /\ selected = 0
  /\ calls = 0
-----------------------------------------------------------------------------
Runs(t) == tasks # << >> /\ Head(tasks) = t

Returns == tasks' = Tail(tasks)

(* Mutated: nothing is turned off.                                          *)
ResetNothing(e) == e

(* resetExcitation and setExcitation for channel c, from e.                 *)
Reset(e) == e /\ AlwaysOn \cap Excited # {}

Set(c, e) == e \/ c \in Excited

(* Mutated: the command byte is a local variable.                           *)
LocalByte == "val"

(* Where convert has the command byte: the driver takes it later.           *)
CommandByte == "condition"

(* convert, where st, c and e are the values of state, chan and excitation, *)
(* b the bus and q the task queue.                                          *)
convert(st, c, e, b, q) ==
  /\ condition' = IF st \in {"START_CONVERSION_PROCESS", "CONTINUE_SAMPLE"} THEN Code(c)
                  ELSE IF condition = Unset THEN 0 ELSE 15
  /\ \/ /\ b.state = "IDLE"
        /\ state' = IF st = "IDLE" THEN st ELSE "PICK_CHANNEL"
        /\ i2cwflag' = 1
        /\ bus' = writePacket(b, "IBADC", CommandByte)
        /\ tasks' = Posted(q, "I2C_task")
        /\ excitation' = e
     \/ /\ b.state # "IDLE"
        /\ state' = "IDLE"
        /\ i2cwflag' = 0
        /\ bus' = b
        /\ tasks' = Posted(q, "adc_get_data")
        /\ excitation' = Reset(e)

(* Mutated: the first channel, whichever was converted last.                *)
DistanceFromFirst(c) == c

(* The next channel waiting, round robin.                                   *)
Distance(c) == LET first == IF chan >= MAX_ANALOG_CHNNELS THEN 0 ELSE chan + 1
               IN  (c - first + MAX_ANALOG_CHNNELS + 1) % (MAX_ANALOG_CHNNELS + 1)

NextChannel == CHOOSE c \in adc_bitmap : \A d \in adc_bitmap : Distance(c) <= Distance(d)

adc_get_data ==
  /\ Runs("adc_get_data")
  /\ \/ /\ state # "IDLE" \/ ~sflag \/ adc_bitmap = {}
        /\ Returns
        /\ UNCHANGED <<bus, state, chan, conversionNumber, condition, i2cwflag,
                       excitation, powerTimer>>
     \/ /\ state = "IDLE" /\ sflag /\ adc_bitmap # {}
        /\ chan' = NextChannel
        /\ conversionNumber' = Conversions[NextChannel]
        /\ \/ /\ NextChannel \in Delayed
              /\ state' = "START_CONVERSION_PROCESS"
              /\ excitation' = Set(NextChannel, excitation)
              /\ powerTimer' = TRUE
              /\ Returns
              /\ UNCHANGED <<bus, condition, i2cwflag>>
           \/ /\ NextChannel \notin Delayed
              /\ convert("START_CONVERSION_PROCESS", NextChannel,
                         Set(NextChannel, excitation), bus, Tail(tasks))
              /\ UNCHANGED powerTimer
  /\ UNCHANGED <<adc_bitmap, adc_stopbitmap, sflag, scount, initflag, i2crflag,
                 samplecount, selected, calls>>

PowerTimerFired ==
  /\ powerTimer
  /\ powerTimer' = FALSE
  /\ convert(state, chan, excitation, bus, tasks)
  /\ UNCHANGED <<chan, adc_bitmap, adc_stopbitmap, conversionNumber, sflag, scount,
                 initflag, i2crflag, samplecount, selected, calls>>

(* The byte to write is a local variable of the task, as in stopchannel.    *)
output_ref ==
  \/ /\ Runs("output_ref")
     /\ bus.state = "IDLE"
     /\ i2cwflag' = 3
     /\ bus' = writePacket(bus, "IBADC", "val")
     /\ sflag' = TRUE
     /\ tasks' = Posted(Posted(Tail(tasks), "I2C_task"), "adc_get_data")
     /\ UNCHANGED <<state, chan, adc_bitmap, adc_stopbitmap, conversionNumber,
                    condition, scount, initflag, i2crflag, samplecount, excitation,
                    powerTimer, selected, calls>>
  \/ /\ Runs("output_ref")
     /\ bus.state # "IDLE"
     /\ i2cwflag' = 0
     /\ state' = "IDLE"
     /\ tasks' = Posted(Tail(tasks), "output_ref")
     /\ UNCHANGED <<bus, sflag, chan, adc_bitmap, adc_stopbitmap, conversionNumber,
                    condition, scount, initflag, i2crflag, samplecount, excitation,
                    powerTimer, selected, calls>>

(* Closes the channels used, and channel 11: the first of them takes the    *)
(* bus if it is free, and the task is posted again for the others.          *)
stopchannel ==
  /\ Runs("stopchannel")
  /\ LET todo  == adc_stopbitmap \cup {11}
         first == CHOOSE c \in todo : \A d \in todo : c <= d
     IN  \/ /\ bus.state = "IDLE"
           /\ bus' = writePacket(bus, "IBADC", "val")
           /\ adc_stopbitmap' = adc_stopbitmap \ {first}
           /\ \/ /\ todo = {first}
                 /\ i2cwflag' = 3
                 /\ scount' = 0
                 /\ tasks' = Posted(Tail(tasks), "I2C_task")
              \/ /\ todo # {first}
                 /\ i2cwflag' = 0
                 /\ scount' = 1
                 /\ tasks' = Posted(Posted(Tail(tasks), "I2C_task"), "stopchannel")
        \/ /\ bus.state # "IDLE"
           /\ i2cwflag' = 0
           /\ scount' = 1
           /\ tasks' = Posted(Tail(tasks), "stopchannel")
           /\ UNCHANGED <<bus, adc_stopbitmap>>
  /\ UNCHANGED <<state, chan, adc_bitmap, conversionNumber, condition, sflag,
                 initflag, i2crflag, samplecount, excitation, powerTimer, selected, calls>>
-----------------------------------------------------------------------------
(* I2CPacket.writePacketDone: the task queue is q and the bus is free.      *)
writePacketDone(ok, q) ==
  /\ i2cwflag' = 0
  /\ \/ /\ i2cwflag # 1 \/ (ok /\ state # "PICK_CHANNEL")
        /\ bus' = Idle
        /\ tasks' = q
        /\ UNCHANGED <<state, adc_bitmap, i2crflag, excitation>>
     \/ /\ i2cwflag = 1 /\ ~ok
        /\ state' = "IDLE"
        /\ adc_bitmap' = adc_bitmap \ {chan}
        /\ bus' = Idle
        /\ tasks' = Posted(q, "adc_get_data")
        /\ excitation' = Reset(excitation)
        /\ UNCHANGED i2crflag
     \/ /\ i2cwflag = 1 /\ ok /\ state = "PICK_CHANNEL"
        /\ state' = "GET_SAMPLE"
        /\ i2crflag' = TRUE
        /\ bus' = readPacket(Idle, "IBADC", 2)
        /\ tasks' = Posted(q, "I2C_task")
        /\ UNCHANGED <<adc_bitmap, excitation>>
  /\ UNCHANGED <<chan, adc_stopbitmap, conversionNumber, condition, sflag, scount,
                 initflag, samplecount, powerTimer>>

(* The tasks of the last start or stop are over.                            *)
Settled ==
  Hurried \/ \A i \in 1 .. Len(tasks) : tasks[i] \notin {"output_ref", "stopchannel"}

(* The end of a conversion.  The first one since start is not reported; at  *)
(* another the application may stop the board, inside dataReady.            *)
SampleReady(q) ==
  /\ state' = "IDLE"
  /\ samplecount' = IF samplecount = 2 THEN 2 ELSE samplecount + 1
  /\ excitation' = Reset(excitation)
  /\ bus' = Idle
  /\ \/ /\ adc_bitmap' = IF samplecount = 0 THEN adc_bitmap ELSE adc_bitmap \ {chan}
        /\ tasks' = Posted(q, "adc_get_data")
        /\ UNCHANGED <<sflag, scount, initflag, calls>>
     \/ /\ samplecount # 0
        /\ Settled
        /\ calls < MaxCalls
        /\ calls' = calls + 1
        /\ adc_bitmap' = IF initflag THEN {} ELSE adc_bitmap \ {chan}
        /\ sflag' = FALSE
        /\ scount' = 1
        /\ initflag' = TRUE
        /\ tasks' = Posted(Posted(q, "stopchannel"), "adc_get_data")
  /\ UNCHANGED <<condition, i2cwflag>>

(* I2CPacket.readPacketDone; length is always the length asked for.         *)
readPacketDone(q) ==
  /\ i2crflag' = FALSE
  /\ \/ /\ ~i2crflag \/ state # "GET_SAMPLE"
        /\ bus' = Idle
        /\ tasks' = q
        /\ UNCHANGED <<state, adc_bitmap, conversionNumber, condition, sflag, scount,
                       initflag, i2cwflag, samplecount, excitation, calls>>
     \/ /\ i2crflag /\ state = "GET_SAMPLE"
        /\ conversionNumber' = conversionNumber - 1
        /\ \/ conversionNumber = 1 /\ SampleReady(q)
           \/ /\ conversionNumber # 1
              /\ convert("CONTINUE_SAMPLE", chan, excitation, Idle, q)
              /\ UNCHANGED <<adc_bitmap, sflag, scount, initflag, samplecount, calls>>
  /\ UNCHANGED <<chan, adc_stopbitmap, powerTimer>>

(* What the pointer of a packet points to: a local variable of a task that  *)
(* is over is anything, and what DioM writes does not matter.               *)
Contents(p) == IF p = "condition" THEN {condition} ELSE IF p = "val" THEN Codes \ {15} ELSE {0}

I2C_task ==
  \/ /\ sendStartDone \/ AddressWritten(Contents(bus.data)) \/ ReadAddressWritten \/ readDone
     /\ UNCHANGED <<adcVars, selected, calls>>
  \/ /\ DataWritten
     /\ selected' = IF bus.addr = "IBADC" THEN bus.byte ELSE selected
     /\ UNCHANGED <<adcVars, calls>>
  \/ /\ bus.addr = "IBADC"
     /\ \/ WriteEnds /\ writePacketDone(TRUE, Tail(tasks)) /\ UNCHANGED calls
        \/ WriteFails /\ writePacketDone(FALSE, Tail(tasks)) /\ UNCHANGED calls
        \/ ReadEnds /\ readPacketDone(Tail(tasks))
     /\ UNCHANGED selected
  \/ /\ bus.addr = "Dio"
     /\ WriteEnds \/ WriteFails \/ ReadEnds
     /\ bus' = Idle
     /\ Returns
     /\ UNCHANGED <<adcVars, selected, calls>>
-----------------------------------------------------------------------------
Call == Len(tasks) + Reserved < MaxTasks

getData(c) ==
  /\ Call
  /\ adc_bitmap' = adc_bitmap \cup {c}
  /\ adc_stopbitmap' = adc_stopbitmap \cup {c}
  /\ tasks' = Posted(tasks, "adc_get_data")
  /\ UNCHANGED <<bus, state, chan, conversionNumber, condition, sflag, scount, initflag,
                 i2cwflag, i2crflag, samplecount, excitation, powerTimer, selected, calls>>

(* Called by the application at every period, even if the last one is not   *)
(* over.                                                                    *)
start ==
  /\ Call
  /\ Settled
  /\ calls < MaxCalls
  /\ calls' = calls + 1
  /\ adc_stopbitmap' = {}
  /\ samplecount' = 0
  /\ chan' = MAX_ANALOG_CHNNELS + 1
  /\ tasks' = Posted(tasks, "output_ref")
  /\ UNCHANGED <<bus, state, adc_bitmap, conversionNumber, condition, sflag, scount,
                 initflag, i2cwflag, i2crflag, excitation, powerTimer, selected>>

stop ==
  /\ Call
  /\ Settled
  /\ calls < MaxCalls
  /\ calls' = calls + 1
  /\ sflag' = FALSE
  /\ state' = "IDLE"
  /\ adc_bitmap' = IF initflag THEN {} ELSE adc_bitmap
  /\ scount' = 1
  /\ tasks' = Posted(tasks, "stopchannel")
  /\ excitation' = Reset(excitation)
  /\ initflag' = TRUE
  /\ UNCHANGED <<bus, chan, adc_stopbitmap, conversionNumber, condition, i2cwflag,
                 i2crflag, samplecount, powerTimer, selected>>

(* A packet of DioM.                                                        *)
DioPacket ==
  /\ Call
  /\ calls < MaxCalls
  /\ calls' = calls + 1
  /\ bus.state = "IDLE"
  /\ bus' \in {writePacket(bus, "Dio", "i2c_data"), readPacket(bus, "Dio", 1)}
  /\ tasks' = Posted(tasks, "I2C_task")
  /\ UNCHANGED <<adcVars, selected>>

TaskStep == I2C_task \/ adc_get_data \/ output_ref \/ stopchannel

AdcNext ==
  \/ TaskStep
  \/ PowerTimerFired
  \/ \E c \in Channels : getData(c)
  \/ start
  \/ stop
  \/ DioPacket

AdcSafety == AdcInit /\ [][AdcNext]_ibadcVars

(* The main loop never stops, the timer fires, and output_ref, which tries  *)
(* until the bus is free, is not always just missed: a packet takes a       *)
(* hundredth of the time between two firings.                               *)
AdcSpec ==
  /\ AdcSafety
  /\ WF_ibadcVars(TaskStep)
  /\ WF_ibadcVars(PowerTimerFired)
  /\ SF_ibadcVars(output_ref /\ bus.state = "IDLE")
-----------------------------------------------------------------------------
(* A value is read from the ADC when it is set to the channel that the      *)
(* value will be reported for, whatever stop, start and the tasks of the    *)
(* last period have written in between.                                     *)
ReadsItsChannel ==
  state = "GET_SAMPLE" /\ chan \in Channels => selected = Code(chan)

(* When nothing is under way, all that was asked for is done and the supply *)
(* of the sensors is off.                                                   *)
AtRest ==
  tasks = << >> /\ ~powerTimer /\ bus.state = "IDLE"
    => /\ state = "IDLE"
       /\ sflag => adc_bitmap = {}
       /\ excitation => AlwaysOn # {}

(* A channel that is waiting is converted, or fails, or the board stops.    *)
Sampled ==
  \A c \in Channels :
    c \in adc_bitmap /\ sflag ~> c \notin adc_bitmap \/ ~sflag
=============================================================================
