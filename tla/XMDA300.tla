--------------------------------- MODULE XMDA300 -------------------------------
(***************************************************************************)
(* The application, src/XMDA300M.nc, with the sample records of            *)
(* src/tos/sensorboards/mda300/SamplerM.nc: at every period it asks for a  *)
(* sample of each kind, puts the samples into a packet as they come, stops *)
(* the board and hands the packet to the router.  Commands that the mote   *)
(* hears (XCommandM.nc), by broadcast or from the router, change the       *)
(* period, put it to sleep and wake it up.                                 *)
(*                                                                         *)
(* All of this runs in tasks; only sendDone may come from a handler, and a *)
(* task reads what it changes once.  Assumed: a slot is free in the task   *)
(* queue when send_radio_msg is posted.  Left out: the relays, and whether *)
(* sampling times pass.  The router is outside the repository.             *)
(***************************************************************************)
EXTENDS Bcast, FiniteSets

CONSTANTS
  Order,          \* the kinds of samples in the order in which start asks
  Analog,         \* those of the ADC of the board, which may fail
  MAX_SAMPLERECORD,
  MaxPosts,       \* bounds the send_radio_msg tasks posted
  BoardReturns,   \* may the board be plugged in again once it was unplugged ?
  WakesUnderWay   \* may a command wake the mote while a packet is under way ?

BATTERY == "battery"

Kinds == {Order[i] : i \in 1 .. Len(Order)}

ASSUME XMDA300Assumption ==
  /\ Order \in Seq(STRING)
  /\ \A i, j \in 1 .. Len(Order) : Order[i] = Order[j] => i = j
  /\ BATTERY \in Kinds
  /\ Analog \subseteq Kinds \ {BATTERY}
  /\ MAX_SAMPLERECORD \in Nat
  /\ MAX_SAMPLERECORD >= Len(Order)
  /\ MaxPosts \in Nat \ {0, 1}
  /\ BoardReturns \in BOOLEAN
  /\ WakesUnderWay \in BOOLEAN

VARIABLES
  sleeping,
  sending_packet,
  bBoardOn,
  msg_status,     \* the kinds that are in the packet
  samplebatt,
  records,        \* SamplerM: how many records there are of each kind
  under,          \* the kinds of which a sample is being taken
  posted,         \* how often send_radio_msg is in the task queue
  timer,          \* is Timer running ?
  due,            \* is it in the ring of TimerM, to be fired ?
  held,           \* does the router have the message buffer ?
  plugged         \* is the board there ?

appVars == <<sleeping, sending_packet, bBoardOn, msg_status, samplebatt, records,
             under, posted, timer, due, held, plugged>>
vars == <<appVars, bcastVars>>

TypeOK ==
  /\ BcastTypeOK
  /\ sleeping \in BOOLEAN
  /\ sending_packet \in BOOLEAN
  /\ bBoardOn \in BOOLEAN
  /\ msg_status \subseteq Kinds
  /\ samplebatt \in BOOLEAN
  /\ records \in [Kinds -> 0 .. MAX_SAMPLERECORD]
  /\ under \subseteq Kinds
  /\ posted \in 0 .. MaxPosts
  /\ timer \in BOOLEAN
  /\ due \in BOOLEAN
  /\ held \in BOOLEAN
  /\ plugged \in BOOLEAN

NoRecords == [k \in Kinds |-> 0]

(* After StdControl.init and start.                                         *)
Init ==
  /\ BcastInit
  /\ sleeping = FALSE
  /\ sending_packet = FALSE
  /\ bBoardOn = TRUE
  /\ msg_status = {}
  /\ samplebatt = FALSE
  /\ records = NoRecords
  /\ under = {}
  /\ posted = 0
  /\ timer = TRUE
  /\ due = FALSE
  /\ held = FALSE
  /\ plugged \in BOOLEAN
-----------------------------------------------------------------------------
(* Sample.getSample for each of a sequence of kinds: one record each, while *)
(* there are any.                                                           *)
Used ==
  Cardinality({r \in Kinds \X (1 .. MAX_SAMPLERECORD) : r[2] <= records[r[1]]})

Asked(kinds) ==
  [k \in Kinds |->
     IF \E i \in 1 .. Len(kinds) : kinds[i] = k /\ Used + i <= MAX_SAMPLERECORD
     THEN records[k] + 1
     ELSE records[k]]

(* Mutated: either reason is enough.                                        *)
NotNowWhenEither == sending_packet \/ msg_status # {}

(* "don't overrun buffers".                                                 *)
NotNow == sending_packet /\ msg_status # {}

(* Timer.fired; start() in the second case.                                 *)
TimerFired ==
  /\ due
  /\ due' = FALSE
  /\ \/ /\ NotNow
        /\ UNCHANGED <<bBoardOn, records, samplebatt>>
     \/ /\ ~NotNow
        /\ bBoardOn' = plugged
        /\ records' = Asked(IF plugged THEN Order ELSE <<BATTERY>>)
        /\ samplebatt' = TRUE
  /\ UNCHANGED <<sleeping, sending_packet, msg_status, under, posted, timer, held,
                 plugged, bcastVars>>

(* SamplerTimer.fired: a record of kind k is due, and asks its driver.      *)
sampleRecord(k) ==
  /\ records[k] > 0
  /\ k \notin under
  /\ under' = under \cup {k}
  /\ UNCHANGED <<sleeping, sending_packet, bBoardOn, msg_status, samplebatt, records,
                 posted, timer, due, held, plugged, bcastVars>>

(* Mutated: the last record is not freed.                                   *)
AllButLastFreed == [NoRecords EXCEPT ![Order[Len(Order)]] = records[Order[Len(Order)]]]

(* Sample.stop for every record.                                            *)
AllFreed == NoRecords

(* StdControl.stop with the samples u being taken.  Only the driver of the  *)
(* ADC drops some; the others deliver their sample all the same.            *)
StdControl_stop(u) ==
  /\ records' = AllFreed
  /\ under' \in {u, u \ Analog}

(* Sample.dataReady for a sample of kind k.  A value of the battery is      *)
(* taken once for each start().                                             *)
dataReady(k) ==
  LET taken  == k # BATTERY \/ samplebatt
      status == IF taken THEN msg_status \cup {k} ELSE msg_status
      posts  == IF k = BATTERY /\ samplebatt /\ ~bBoardOn THEN 1 ELSE 0
  IN  /\ k \in under
      /\ posted + 2 <= MaxPosts
      /\ samplebatt' = (samplebatt /\ k # BATTERY)
      /\ \/ /\ ~sending_packet /\ status = Kinds
            /\ msg_status' = {}
            /\ posted' = posted + posts + 1
            /\ StdControl_stop(under \ {k})
         \/ /\ sending_packet \/ status # Kinds
            /\ msg_status' = status
            /\ posted' = posted + posts
            /\ under' = under \ {k}
            /\ UNCHANGED records
      /\ UNCHANGED <<sleeping, sending_packet, bBoardOn, timer, due, held, plugged,
                     bcastVars>>

(* An analog channel reports an error, which SamplerM does not pass on.     *)
SampleFails(k) ==
  /\ k \in under \cap Analog
  /\ under' = under \ {k}
  /\ UNCHANGED <<sleeping, sending_packet, bBoardOn, msg_status, samplebatt, records,
                 posted, timer, due, held, plugged, bcastVars>>
-----------------------------------------------------------------------------
(* Mutated: a packet under way is not looked for.                           *)
MaySendAlways == TRUE

MaySend == ~sending_packet

(* The task send_radio_msg: it does nothing if a packet is under way ...    *)
SendReturns ==
  /\ posted > 0
  /\ ~MaySend
  /\ posted' = posted - 1
  /\ UNCHANGED <<sleeping, sending_packet, bBoardOn, msg_status, samplebatt, records,
                 under, timer, due, held, plugged, bcastVars>>

(* ... else it fills the message buffer, and the router takes it ...        *)
Sends ==
  /\ posted > 0
  /\ MaySend
  /\ posted' = posted - 1
  /\ sending_packet' = TRUE
  /\ held' = TRUE
  /\ UNCHANGED <<sleeping, bBoardOn, msg_status, samplebatt, records, under, timer,
                 due, plugged, bcastVars>>

(* ... or not.                                                              *)
SendRefused ==
  /\ posted > 0
  /\ MaySend
  /\ posted' = posted - 1
  /\ sending_packet' = FALSE
  /\ UNCHANGED <<sleeping, bBoardOn, msg_status, samplebatt, records, under, timer,
                 due, held, plugged, bcastVars>>

(* Send.sendDone, from the router.                                          *)
Send_sendDone ==
  /\ held
  /\ held' = FALSE
  /\ sending_packet' = FALSE
  /\ UNCHANGED <<sleeping, bBoardOn, msg_status, samplebatt, records, under, posted,
                 timer, due, plugged, bcastVars>>
-----------------------------------------------------------------------------
(* XCommand.received, and XEEControl.restoreDone, which does what a new     *)
(* rate does.                                                               *)
SetRate ==
  /\ timer' = TRUE
  /\ UNCHANGED <<sleeping, sending_packet, records, under>>

Sleep ==
  /\ sleeping' = TRUE
  /\ timer' = FALSE
  /\ StdControl_stop(under)
  /\ UNCHANGED sending_packet

Wakeup ==
  \/ /\ sleeping
     /\ WakesUnderWay \/ ~held
     /\ sleeping' = FALSE
     /\ sending_packet' = FALSE
     /\ timer' = TRUE
     /\ UNCHANGED <<records, under>>
  \/ /\ ~sleeping
     /\ UNCHANGED <<sleeping, sending_packet, timer, records, under>>

Received ==
  /\ SetRate \/ Sleep \/ Wakeup
  /\ UNCHANGED <<bBoardOn, msg_status, samplebatt, posted, due, held, plugged>>

(* A command comes in a new wave, or from the router.                       *)
BroadcastCommand(w) == ReceiveNew(w) /\ Received

RoutedCommand == Received /\ UNCHANGED bcastVars

Command == (\E w \in OnAir : BroadcastCommand(w)) \/ RoutedCommand

(* A wave for another group or another node is no command.                  *)
Filtered == (\E w \in OnAir : ReceiveNew(w)) /\ UNCHANGED appVars
-----------------------------------------------------------------------------
(* TimerM finds that the timer is due; a timer that is stopped then still   *)
(* fires.                                                                   *)
TimerDue ==
  /\ timer
  /\ ~due
  /\ due' = TRUE
  /\ UNCHANGED <<sleeping, sending_packet, bBoardOn, msg_status, samplebatt, records,
                 under, posted, timer, held, plugged, bcastVars>>

Plug ==
  /\ BoardReturns \/ plugged
  /\ plugged' = ~plugged
  /\ UNCHANGED <<sleeping, sending_packet, bBoardOn, msg_status, samplebatt, records,
                 under, posted, timer, due, held, bcastVars>>

BcastStep == (SendDone \/ SendWave) /\ UNCHANGED appVars

SendTask == SendReturns \/ Sends \/ SendRefused

Next ==
  \/ TimerDue
  \/ TimerFired
  \/ \E k \in Kinds : sampleRecord(k) \/ dataReady(k) \/ SampleFails(k)
  \/ SendTask
  \/ Send_sendDone
  \/ Command
  \/ Filtered
  \/ Plug
  \/ BcastStep

(* Tasks run, timers fire, samples that are asked for again and again do    *)
(* not all fail, and the router gives the buffer back and does not refuse   *)
(* every packet.                                                            *)
Spec ==
  /\ Init
  /\ [][Next]_vars
  /\ WF_vars(TimerDue)
  /\ WF_vars(TimerFired)
  /\ \A k \in Kinds : WF_vars(sampleRecord(k)) /\ SF_vars(dataReady(k))
  /\ WF_vars(SendTask)
  /\ SF_vars(Sends)
  /\ WF_vars(Send_sendDone)
-----------------------------------------------------------------------------
(* The flag is set as long as the router has the message buffer: it is not  *)
(* filled with the next packet before the last one is sent.                 *)
BufferKept == held => sending_packet

NoMoreCommands == <>[][~Command]_vars

(* A mote that is awake sends packets for ever, with the board or without,  *)
(* once no command changes its period any more.                             *)
Collects == NoMoreCommands /\ <>[]~sleeping => []<>held

(* "Stop collecting data, and go to sleep" (XMDA300M.nc:671): a mote that   *)
(* sleeps comes to rest, though its timer may fire once more after the      *)
(* command.  It needs the board: only a full packet stops the sampling.     *)
ComesToRest ==
  <>[](sleeping /\ ~timer /\ plugged) => <>[](records = NoRecords /\ ~held)
=============================================================================
