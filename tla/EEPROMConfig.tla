------------------------------ MODULE EEPROMConfig -----------------------------
(***************************************************************************)
(* The parameter store, src/tos/lib/XLib/EEPROMConfigM.nc over the driver  *)
(* InternalEEPROMM.nc, with the power failing at any time.                 *)
(*                                                                         *)
(* The EEPROM holds a version block, then one block for each parameter     *)
(* (checksum, application, identifier, size, value), then a closing block. *)
(* The driver reads and writes byte by byte inside the call and signals    *)
(* the end there, so one action is the handler of one such event: it looks *)
(* at what was read, or at the write that is over, and starts the next.    *)
(* The power may fail between two actions, and inside the write.           *)
(*                                                                         *)
(* Blocks follow one another without gaps, so the place of a block is its  *)
(* number and bytes are left out.  Erased memory reads as a block with the *)
(* identifier of the closing block and a wrong checksum.  Assumed: a block *)
(* written in part has a wrong checksum.                                   *)
(***************************************************************************)
EXTENDS Integers, Sequences

CONSTANTS
  Parameters,      \* those in use: pairs of an application and an identifier
  Ignored,         \* TOS_IGNORE_PARAMETER (0xfe)
  Values,
  Default,         \* the value before anything is restored or set
  Sizes,           \* the sizes of parameters
  SizeAtFirst,     \* that of every parameter in the first firmware
  Changed,         \* bound: the parameters that clients change
  Resized,         \* bound: the parameters whose size new firmware changes
  MaxUpgrades      \* bound: how often it does

Applications == {p[1] : p \in Parameters}
Identifiers == {p[2] : p \in Parameters}

ASSUME StoreAssumption ==
  /\ Parameters # {}
  /\ Parameters \subseteq (Nat \ {0}) \X (Nat \ {0})
  /\ Ignored \in Nat
  /\ \A i \in Identifiers : i < Ignored
  /\ Default \in Values
  /\ Sizes \subseteq Nat \ {0}
  /\ SizeAtFirst \in Sizes
  /\ Changed \subseteq Parameters
  /\ Resized \subseteq Parameters
  /\ MaxUpgrades \in Nat

VARIABLES
  paramState,
  currentBlock,    \* the block the driver works on or works on next
  nextParamID,
  endAppParam,
  rescanRequired,
  io,              \* what the driver was asked to do
  version,         \* the version block
  list,            \* the parameter blocks
  closed,          \* the list is followed by a closing block
  ram,             \* the values in memory
  size,            \* the size of each parameter in this firmware
  upgrades,
  restored,        \* the restoreDone that came last, if the client has not
  saved,           \* the same of saveDone      called anything since
  covered,         \* history: the parameters of the save under way
  offered          \* history: what a restart may restore

memoryVars == <<version, list, closed>>
clientVars == <<ram, size, upgrades, restored, saved, covered,
                offered>>
vars == <<paramState, currentBlock, nextParamID, endAppParam, rescanRequired,
          io, memoryVars, clientVars>>

Restoring == {"READ_VERSION", "READ_PARAMETER"}
Saving ==
  {"SAVE_VERSION", "SAVE_PARAMETERS", "SAVE_NEW_PARAMETERS", "SAVE_END_PARAM"}

Blocks ==
  [app : Applications, id : Identifiers \cup {Ignored}, count : Sizes,
   data : Values, crc : BOOLEAN]

Nothing == [op |-> "none"]
Read == [op |-> "read"]
WriteVersion == [op |-> "version"]
WriteEnd == [op |-> "end"]
Write(at, block) == [op |-> "block", at |-> at, block |-> block]

Operations ==
  {Nothing, Read, WriteVersion, WriteEnd}
    \cup [op : {"block"}, at : Nat, block : Blocks]

TypeOK ==
  /\ paramState \in {"NEVER_STARTED", "IDLE"} \cup Restoring \cup Saving
  /\ currentBlock \in Nat
  /\ nextParamID \in Nat
  /\ endAppParam \in Nat \X Nat
  /\ rescanRequired \in BOOLEAN
  /\ io \in Operations
  /\ version \in {"erased", "torn", "good"}
  /\ list \in Seq(Blocks)
  /\ closed \in BOOLEAN
  /\ ram \in [Parameters -> Values]
  /\ size \in [Parameters -> Sizes]
  /\ upgrades \in 0 .. MaxUpgrades
  /\ restored \in {"none", "fail", "success"}
  /\ saved \in {"none", "fail", "success"}
  /\ covered \in SUBSET Parameters
  /\ offered \in [Parameters -> SUBSET Values]

Init ==
  /\ paramState = "NEVER_STARTED"
  /\ currentBlock = 0
  /\ nextParamID = 0
  /\ endAppParam = <<0, 0>>
  /\ rescanRequired = FALSE
  /\ io = Nothing
  /\ ram = [p \in Parameters |-> Default]
  /\ restored = "none"
  /\ saved = "none"
  /\ version = "erased"
  /\ list = << >>
  /\ closed = FALSE
  /\ size = [p \in Parameters |-> SizeAtFirst]
  /\ upgrades = 0
  /\ covered = {}
  /\ offered = [p \in Parameters |-> {Default}]
-----------------------------------------------------------------------------
(* The parameters of a save.                                                *)
App == endAppParam[1]
Last == endAppParam[2]

(* The size Config.get reports: 0 for a parameter that is not in use.       *)
SizeOf(app, id) == IF <<app, id>> \in Parameters THEN size[<<app, id>>] ELSE 0

(* Mutated: the search starts behind the parameter just saved.              *)
NextUsedSkips(app, id, last) ==
  IF id >= last
  THEN id + 1
  ELSE CHOOSE n \in id + 1 .. last + 1 :
         /\ n = last + 1 \/ SizeOf(app, n) # 0
         /\ \A m \in id + 1 .. n - 1 : SizeOf(app, m) = 0

(* findNextParameter: from id on, the first parameter in use, or the one    *)
(* after the last.                                                          *)
NextUsed(app, id, last) ==
  IF id > last
  THEN id
  ELSE CHOOSE n \in id .. last + 1 :
         /\ n = last + 1 \/ SizeOf(app, n) # 0
         /\ \A m \in id .. n - 1 : SizeOf(app, m) = 0

AtEnd == currentBlock > Len(list)
Block == list[currentBlock]

(* Mutated: nor may the closing block be missing.                           *)
DamagedOrOpen == IF AtEnd THEN ~closed ELSE ~Block.crc

(* A block whose checksum is wrong and that is not the closing block.       *)
Damaged == ~AtEnd /\ ~Block.crc

(* A block for a parameter of this firmware.                                *)
Fits == Block.id # Ignored /\ SizeOf(Block.app, Block.id) = Block.count

(* The block of a parameter with the value in memory.                       *)
BlockOf(app, id) ==
  [app |-> app, id |-> id, count |-> SizeOf(app, id),
   data |-> ram[<<app, id>>], crc |-> TRUE]

(* The list when the write is done: a block is replaced or added.           *)
Written(l, at, block) ==
  IF at <= Len(l) THEN [l EXCEPT ![at] = block] ELSE Append(l, block)

(* The write the driver was asked for is in the EEPROM.                     *)
WriteDone ==
  CASE io.op = "version" ->
         version' = "good" /\ UNCHANGED <<list, closed>>
    [] io.op = "end" ->
         /\ list' = SubSeq(list, 1, currentBlock - 1)
         /\ closed' = TRUE
         /\ UNCHANGED version
    [] io.op = "block" ->
         /\ list' = Written(list, io.at, io.block)
         /\ closed' = (closed /\ io.at <= Len(list))
         /\ UNCHANGED version

Finish(result) ==
  /\ paramState' = "IDLE"
  /\ io' = Nothing
  /\ saved' = result
  /\ covered' = {}
  /\ UNCHANGED <<ram, size, upgrades, restored>>
-----------------------------------------------------------------------------
(* StdControl.start after init.                                             *)
Start ==
  /\ paramState = "NEVER_STARTED"
  /\ paramState' = "READ_VERSION"
  /\ currentBlock' = 0
  /\ rescanRequired' = FALSE
  /\ io' = Read
  /\ UNCHANGED <<nextParamID, endAppParam, memoryVars, clientVars>>

(* readDone in READ_VERSION: without a version block nothing is restored    *)
(* and nobody is told.                                                      *)
ReadVersion ==
  /\ paramState = "READ_VERSION"
  /\ IF version = "good"
     THEN paramState' = "READ_PARAMETER" /\ currentBlock' = 1 /\ UNCHANGED io
     ELSE paramState' = "IDLE" /\ io' = Nothing /\ UNCHANGED currentBlock
  /\ UNCHANGED <<nextParamID, endAppParam, rescanRequired, memoryVars,
                 clientVars>>

RestoreDone(result) ==
  /\ paramState' = "IDLE"
  /\ io' = Nothing
  /\ restored' = result
  /\ UNCHANGED ram

(* readDone in READ_PARAMETER.                                              *)
ReadParameter ==
  /\ paramState = "READ_PARAMETER"
  /\ currentBlock' = currentBlock + 1
  /\ \/ AtEnd /\ RestoreDone(IF closed THEN "success" ELSE "fail")
     \/ Damaged /\ RestoreDone("fail")
     \/ /\ ~AtEnd
        /\ Block.crc
        /\ ram' = IF Fits
                  THEN [ram EXCEPT ![<<Block.app, Block.id>>] = Block.data]
                  ELSE ram
        /\ UNCHANGED <<paramState, io, restored>>
  /\ UNCHANGED <<nextParamID, endAppParam, rescanRequired, memoryVars, size,
                 upgrades, saved, covered, offered>>
-----------------------------------------------------------------------------
(* A client changes a value in memory.                                      *)
Set(p, v) ==
  /\ paramState = "IDLE"
  /\ ram' = [ram EXCEPT ![p] = v]
  /\ restored' = "none"
  /\ saved' = "none"
  /\ UNCHANGED <<paramState, currentBlock, nextParamID, endAppParam,
                 rescanRequired, io, memoryVars, size, upgrades, covered, offered>>

(* ConfigSave.save from one parameter in use to another.                    *)
Save(app, first, last) ==
  /\ paramState = "IDLE"
  /\ first <= last
  /\ paramState' = "SAVE_VERSION"
  /\ currentBlock' = 0
  /\ nextParamID' = NextUsed(app, first, last)
  /\ endAppParam' = <<app, last>>
  /\ io' = Read
  /\ restored' = "none"
  /\ saved' = "none"
  /\ covered' = {p \in Parameters : p[1] = app /\ p[2] \in first .. last}
  /\ offered' = [p \in Parameters |->
                   IF p \in covered' THEN offered[p] \cup {ram[p]} ELSE offered[p]]
  /\ UNCHANGED <<rescanRequired, memoryVars, ram, size, upgrades>>

(* readDone in SAVE_VERSION.                                                *)
SaveVersion ==
  /\ paramState = "SAVE_VERSION"
  /\ io = Read
  /\ \/ /\ version = "erased"
        /\ io' = WriteVersion
        /\ currentBlock' = 1
        /\ UNCHANGED <<paramState, clientVars>>
     \/ /\ version = "torn"
        /\ Finish("fail")
        /\ UNCHANGED <<currentBlock, offered>>
     \/ /\ version = "good"
        /\ paramState' = "SAVE_PARAMETERS"
        /\ currentBlock' = 1
        /\ UNCHANGED <<io, clientVars>>
  /\ UNCHANGED <<nextParamID, endAppParam, rescanRequired, memoryVars>>

(* writeDone in SAVE_VERSION.                                               *)
VersionWritten ==
  /\ paramState = "SAVE_VERSION"
  /\ io # Read
  /\ WriteDone
  /\ paramState' = "SAVE_NEW_PARAMETERS"
  /\ io' = WriteEnd
  /\ UNCHANGED <<currentBlock, nextParamID, endAppParam, rescanRequired,
                 clientVars>>
-----------------------------------------------------------------------------
Scanning == paramState = "SAVE_PARAMETERS" /\ io = Read

(* Mutated: of any application.                                             *)
SoughtOfAny == Block.id = nextParamID
LaterOfAny == Block.id > nextParamID

(* Is the block the parameter sought, or one that follows it ?              *)
Sought == Block.app = App /\ Block.id = nextParamID
Later == Block.app = App /\ Block.id > nextParamID

(* readDone in SAVE_PARAMETERS: the list is over.                           *)
ScanEnds ==
  /\ Scanning
  /\ AtEnd
  /\ paramState' = "SAVE_NEW_PARAMETERS"
  /\ io' = WriteEnd
  /\ UNCHANGED <<currentBlock, nextParamID, endAppParam, rescanRequired,
                 memoryVars, clientVars>>

ScanFails ==
  /\ Scanning
  /\ Damaged
  /\ Finish("fail")
  /\ UNCHANGED <<currentBlock, nextParamID, endAppParam, rescanRequired,
                 memoryVars, offered>>

(* A block of the right size takes the new value.                           *)
ScanReplaces ==
  /\ Scanning
  /\ ~AtEnd
  /\ Block.crc
  /\ Sought
  /\ SizeOf(App, nextParamID) = Block.count
  /\ io' = Write(currentBlock, BlockOf(App, nextParamID))
  /\ nextParamID' = nextParamID + 1
  /\ currentBlock' = currentBlock + 1
  /\ UNCHANGED <<paramState, endAppParam, rescanRequired, memoryVars, clientVars>>

(* One of another size is disabled; its data has been replaced by get.      *)
ScanDisables ==
  /\ Scanning
  /\ ~AtEnd
  /\ Block.crc
  /\ Sought
  /\ SizeOf(App, nextParamID) # Block.count
  /\ io' = Write(currentBlock,
                 [Block EXCEPT !.id = Ignored, !.data = ram[<<App, nextParamID>>]])
  /\ currentBlock' = currentBlock + 1
  /\ UNCHANGED <<paramState, nextParamID, endAppParam, rescanRequired,
                 memoryVars, clientVars>>

ScanPasses ==
  /\ Scanning
  /\ ~AtEnd
  /\ Block.crc
  /\ ~Sought
  /\ rescanRequired' = (rescanRequired \/ Later)
  /\ currentBlock' = currentBlock + 1
  /\ UNCHANGED <<paramState, nextParamID, endAppParam, io, memoryVars, clientVars>>
-----------------------------------------------------------------------------
SaveSucceeds ==
  /\ Finish("success")
  /\ offered' = [p \in Parameters |->
                   IF p \in covered THEN {ram[p]} ELSE offered[p]]

(* writeDone in SAVE_PARAMETERS.                                            *)
Replaced ==
  /\ paramState = "SAVE_PARAMETERS"
  /\ io # Read
  /\ WriteDone
  /\ nextParamID' = NextUsed(App, nextParamID, Last)
  /\ IF nextParamID' > Last
     THEN SaveSucceeds
     ELSE io' = Read /\ UNCHANGED <<paramState, clientVars>>
  /\ UNCHANGED <<currentBlock, endAppParam, rescanRequired>>

(* writeDone in SAVE_NEW_PARAMETERS: the closing block, or a new block, is  *)
(* written.                                                                 *)
Appended ==
  /\ paramState = "SAVE_NEW_PARAMETERS"
  /\ WriteDone
  /\ LET next == IF rescanRequired
                 THEN nextParamID ELSE NextUsed(App, nextParamID, Last)
     IN  IF rescanRequired \/ next > Last
         THEN /\ paramState' = "SAVE_END_PARAM"
              /\ io' = WriteEnd
              /\ nextParamID' = next
              /\ UNCHANGED currentBlock
         ELSE /\ io' = Write(currentBlock, BlockOf(App, next))
              /\ currentBlock' = currentBlock + 1
              /\ nextParamID' = next + 1
              /\ UNCHANGED paramState
  /\ UNCHANGED <<endAppParam, rescanRequired, clientVars>>

(* writeDone in SAVE_END_PARAM.                                             *)
EndWritten ==
  /\ paramState = "SAVE_END_PARAM"
  /\ WriteDone
  /\ IF nextParamID > Last
     THEN SaveSucceeds /\ UNCHANGED <<currentBlock, rescanRequired>>
     ELSE /\ paramState' = "SAVE_PARAMETERS"
          /\ io' = Read
          /\ currentBlock' = IF rescanRequired THEN 1 ELSE currentBlock
          /\ rescanRequired' = FALSE
          /\ UNCHANGED clientVars
  /\ UNCHANGED <<nextParamID, endAppParam>>
-----------------------------------------------------------------------------
(* What a write cut short leaves, besides what was there before.            *)
Torn ==
  \/ /\ io.op = "version"
     /\ version' = "torn"
     /\ UNCHANGED <<list, closed>>
  \/ /\ io.op = "block"
     /\ Written(list, io.at, io.block) # list
     /\ list' = Written(list, io.at, [io.block EXCEPT !.crc = FALSE])
     /\ closed' = (closed /\ io.at <= Len(list))
     /\ UNCHANGED version
  \/ /\ io.op = "block"
     /\ io.at > Len(list)
     /\ closed' = FALSE
     /\ UNCHANGED <<version, list>>

(* The power fails and comes back.                                          *)
PowerFails ==
  /\ paramState # "NEVER_STARTED"
  /\ paramState' = "NEVER_STARTED"
  /\ currentBlock' = 0
  /\ nextParamID' = 0
  /\ endAppParam' = <<0, 0>>
  /\ rescanRequired' = FALSE
  /\ io' = Nothing
  /\ ram' = [p \in Parameters |-> Default]
  /\ restored' = "none"
  /\ saved' = "none"
  /\ Torn \/ UNCHANGED memoryVars
  /\ covered' = {}
  /\ UNCHANGED <<size, upgrades, offered>>

(* The next firmware has a parameter of another size.                       *)
Upgrade(p, n) ==
  /\ paramState = "NEVER_STARTED"
  /\ upgrades < MaxUpgrades
  /\ n # size[p]
  /\ size' = [size EXCEPT ![p] = n]
  /\ upgrades' = upgrades + 1
  /\ offered' = [offered EXCEPT ![p] = @ \cup {Default}]
  /\ UNCHANGED <<paramState, currentBlock, nextParamID, endAppParam,
                 rescanRequired, io, memoryVars, ram, restored, saved, covered>>

(* The steps of the program that follow from a call.                        *)
Driver ==
  \/ Start \/ ReadVersion \/ ReadParameter
  \/ SaveVersion \/ VersionWritten
  \/ ScanEnds \/ ScanFails \/ ScanReplaces \/ ScanDisables \/ ScanPasses
  \/ Replaced \/ Appended \/ EndWritten

Next ==
  \/ Driver
  \/ \E p \in Changed, v \in Values : Set(p, v)
  \/ \E p, q \in Parameters : p[1] = q[1] /\ Save(p[1], p[2], q[2])
  \/ PowerFails
  \/ \E p \in Resized, n \in Sizes : Upgrade(p, n)

Spec == Init /\ [][Next]_vars /\ WF_vars(Driver)
-----------------------------------------------------------------------------
(* The blocks a restart gets to.                                            *)
Readable ==
  IF version # "good"
  THEN {}
  ELSE {i \in 1 .. Len(list) : \A j \in 1 .. i : list[j].crc}

(* A block that gives the parameter its value.                              *)
Holds(i, p) ==
  list[i].app = p[1] /\ list[i].id = p[2] /\ list[i].count = size[p]

(* The value a restart brings back.                                         *)
Stored ==
  [p \in Parameters |->
     IF \E i \in Readable : Holds(i, p)
     THEN list[CHOOSE i \in Readable :
                 Holds(i, p) /\ \A j \in Readable : Holds(j, p) => j <= i].data
     ELSE Default]

(* A restore that reports success has given every parameter the value last  *)
(* saved, or that of a save which did not report success.                   *)
RestoreComplete ==
  restored = "success" => \A p \in Parameters : ram[p] \in offered[p]

(* A save is refused only where a write was cut short: not because of a     *)
(* restart between two writes.                                              *)
FailsOnlyTorn ==
  saved = "fail" => version = "torn" \/ \E i \in 1 .. Len(list) : ~list[i].crc

Stable == INSTANCE StableStore
            WITH stored <- Stored, saving <- paramState \in Saving

(* Stored values change only in a save, each to the value in memory, and    *)
(* a restart loses some only if it interrupts a save.                       *)
StoreContract == Stable!Spec

(* No parameter still to be saved is missing while a later one of its       *)
(* application has a block.                                                 *)
Orderly ==
  \A n \in {m \in Identifiers : nextParamID <= m /\ m <= Last} :
    SizeOf(App, n) # 0 =>
      \/ \E i \in 1 .. Len(list) : Holds(i, <<App, n>>)
      \/ \A i \in 1 .. Len(list) : list[i].app = App => list[i].id < n

(* Such a save comes to an end, and so does every restore.                  *)
EndsInOrder ==
  (paramState \in Restoring \/ (paramState \in Saving /\ Orderly))
    ~> paramState \in {"IDLE", "NEVER_STARTED"}

(* "SUCCESS save in progress. Completion will be reported with a saveDone   *)
(* event" (EEPROMConfigM.nc:526).                                           *)
SaveReported ==
  paramState \in Saving ~> paramState \in {"IDLE", "NEVER_STARTED"}
=============================================================================
