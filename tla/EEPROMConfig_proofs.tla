------------------------- MODULE EEPROMConfig_proofs -------------------------
(***************************************************************************)
(* The parameter store keeps its contract and restores what was saved, for *)
(* any parameters, values, sizes and number of firmware upgrades, wherever *)
(* the power fails.                                                        *)
(*                                                                         *)
(* What is stored hangs on Unique: no parameter has two blocks.  With two, *)
(* a torn write of the later one would bring an old value back.  A save    *)
(* keeps it because it appends a block only after a pass over the list has *)
(* met no block of the same application with a later identifier, which is  *)
(* what rescanRequired remembers (Passed).  Done says which parameters of  *)
(* the save under way have their value, Pending what is being written.     *)
(***************************************************************************)
EXTENDS EEPROMConfig, SequenceTheorems, WellFoundedInduction, TLAPS

IsFor(i, p) == list[i].app = p[1] /\ list[i].id = p[2]

AllGood == \A i \in 1 .. Len(list) : list[i].crc

(* No parameter has two blocks.                                             *)
Unique ==
  \A i, j \in 1 .. Len(list) :
    list[i].app = list[j].app /\ list[i].id = list[j].id => i = j \/ list[i].id = Ignored

Listing ==
  {"READ_PARAMETER", "SAVE_PARAMETERS", "SAVE_NEW_PARAMETERS", "SAVE_END_PARAM"}

(* There is a list only behind a version block.                             *)
Version ==
  /\ version # "good" => list = << >>
  /\ paramState \in Listing => version = "good"
  /\ paramState = "SAVE_VERSION" /\ io # Read => version = "erased"

(* The parameter the save looks for is in use.                              *)
Target(n) == <<App, n>> \in Parameters /\ n <= Last

(* A block for the parameter looked for last is being written.              *)
NewBlock ==
  /\ io.block = BlockOf(App, nextParamID - 1)
  /\ nextParamID > 0
  /\ Target(nextParamID - 1)
  /\ <<App, nextParamID - 1>> \in covered

Replacing(at) ==
  /\ NewBlock
  /\ Holds(at, <<App, nextParamID - 1>>)

Disabling(at) ==
  /\ io.block.id = Ignored
  /\ io.block.crc
  /\ IsFor(at, <<App, nextParamID>>)
  /\ ~Holds(at, <<App, nextParamID>>)
  /\ Target(nextParamID)

(* Where the driver is in the list, and what it writes.                     *)
Places ==
  /\ paramState \in {"NEVER_STARTED", "IDLE"} => io = Nothing
  /\ paramState \in Restoring => io = Read
  /\ paramState = "SAVE_VERSION" =>
       /\ io \in {Read, WriteVersion}
       /\ io = WriteVersion => currentBlock = 1
       /\ Target(nextParamID)
  /\ paramState \in {"READ_PARAMETER", "SAVE_PARAMETERS"} =>
       /\ currentBlock \in 1 .. Len(list) + 1
       /\ \A i \in 1 .. currentBlock - 1 : list[i].crc
  /\ paramState = "SAVE_PARAMETERS" =>
       \/ io = Read /\ Target(nextParamID)
       \/ /\ io.op = "block"
          /\ io.at \in 1 .. Len(list)
          /\ currentBlock = io.at + 1
          /\ Replacing(io.at) \/ Disabling(io.at)
  /\ paramState = "SAVE_NEW_PARAMETERS" =>
       /\ AllGood
       /\ rescanRequired => io = WriteEnd /\ Target(nextParamID)
       /\ \/ io = WriteEnd /\ currentBlock = Len(list) + 1
          \/ /\ io.op = "block"
             /\ io.at = Len(list) + 1
             /\ currentBlock = Len(list) + 2
             /\ NewBlock
             /\ \A i \in 1 .. Len(list) : ~IsFor(i, <<App, nextParamID - 1>>)
  /\ paramState = "SAVE_END_PARAM" =>
       /\ AllGood
       /\ io = WriteEnd
       /\ currentBlock = Len(list) + 1
       /\ IF rescanRequired THEN Target(nextParamID) ELSE nextParamID > Last

(* The blocks of the application that a pass has met are those of earlier   *)
(* parameters, unless it is to be made again.                               *)
Passed ==
  paramState \in Saving \ {"SAVE_VERSION"} /\ ~rescanRequired =>
    \A i \in 1 .. Len(list) :
      i < currentBlock /\ list[i].app = App =>
        \/ list[i].id < nextParamID
        \/ list[i].id = Ignored
        \/ io.op = "block" /\ i = io.at

Beginning == io.op = "block" /\ io.block.id # Ignored

(* The parameters of the save that have been dealt with have their value.   *)
Done ==
  paramState \in Saving =>
    /\ \A p \in Parameters :
         p[1] = App /\ nextParamID <= p[2] /\ p[2] <= Last => p \in covered
    /\ \A p \in covered :
         /\ p \in Parameters /\ p[1] = App /\ p[2] <= Last
         /\ ram[p] \in offered[p]
         /\ p[2] < nextParamID =>
              \/ \E i \in Readable : Holds(i, p) /\ list[i].data = ram[p]
              \/ Beginning /\ p[2] = nextParamID - 1

(* Every block has a value that its parameter may be restored to.           *)
Offered ==
  AllGood =>
    \A p \in Parameters :
      /\ \A i \in 1 .. Len(list) : IsFor(i, p) => list[i].data \in offered[p]
      /\ (\A i \in 1 .. Len(list) : ~Holds(i, p)) => Default \in offered[p]

(* The values of the first n blocks are in memory.                          *)
Loaded(n) ==
  \A p \in Parameters :
    /\ \A i \in 1 .. n : Holds(i, p) => ram[p] = list[i].data
    /\ (\A i \in 1 .. n : ~Holds(i, p)) => ram[p] = Default

Results ==
  /\ paramState \in {"NEVER_STARTED", "READ_VERSION"} => ram = [p \in Parameters |-> Default]
  /\ paramState = "READ_PARAMETER" => Loaded(currentBlock - 1)
  /\ restored # "none" \/ saved # "none" => paramState = "IDLE"
  /\ restored = "success" => AllGood /\ Loaded(Len(list))
  /\ FailsOnlyTorn

IInv ==
  /\ TypeOK
  /\ Unique
  /\ Version
  /\ Places
  /\ Passed
  /\ Done
  /\ Offered
  /\ Results
-----------------------------------------------------------------------------
LEMMA ConstantFacts ==
  /\ Parameters \subseteq Nat \X Nat
  /\ \A p \in Parameters : /\ p = <<p[1], p[2]>> /\ p[1] \in Applications /\ p[2] \in Identifiers
                           /\ p[1] \in Nat /\ p[2] \in Nat /\ p[2] < Ignored
  /\ Ignored \in Nat /\ Ignored \notin Identifiers
  /\ Applications \subseteq Nat /\ Identifiers \subseteq Nat
  /\ Default \in Values
  /\ 0 \notin Sizes /\ Sizes \subseteq Nat
BY StoreAssumption DEF Applications, Identifiers

(* A pair in use is one of the parameters.                                  *)
LEMMA PairFacts ==
  ASSUME NEW app, NEW id, <<app, id>> \in Parameters
  PROVE  app \in Applications /\ id \in Identifiers /\ app \in Nat /\ id \in Nat /\ id < Ignored
<1>1. <<app, id>>[1] = app /\ <<app, id>>[2] = id
  OBVIOUS
<1>. QED  BY <1>1, ConstantFacts

LEMMA ListFacts ==
  ASSUME TypeOK
  PROVE  /\ Len(list) \in Nat
         /\ \A i \in 1 .. Len(list) :
              /\ list[i] \in Blocks
              /\ list[i].app \in Nat /\ list[i].id \in Nat /\ list[i].data \in Values
              /\ list[i].count \in Sizes /\ list[i].crc \in BOOLEAN
         /\ App \in Nat /\ Last \in Nat /\ currentBlock \in Nat /\ nextParamID \in Nat
<1>1. App \in Nat /\ Last \in Nat /\ currentBlock \in Nat /\ nextParamID \in Nat
  BY DEF TypeOK, App, Last
<1>2. Len(list) \in Nat /\ \A i \in 1 .. Len(list) : list[i] \in Blocks
  BY DEF TypeOK
<1>3. \A b \in Blocks : /\ b.app \in Nat /\ b.id \in Nat /\ b.data \in Values
                        /\ b.count \in Sizes /\ b.crc \in BOOLEAN
  BY ConstantFacts DEF Blocks
<1>. QED  BY <1>1, <1>2, <1>3

(* The size of a parameter is not 0 if it is in use.                        *)
LEMMA SizeFacts ==
  ASSUME TypeOK, NEW app, NEW id
  PROVE  /\ SizeOf(app, id) # 0 <=> <<app, id>> \in Parameters
         /\ <<app, id>> \in Parameters =>
              SizeOf(app, id) = size[<<app, id>>] /\ SizeOf(app, id) \in Sizes
BY ConstantFacts DEF TypeOK, SizeOf

LEMMA OperationFacts ==
  /\ Nothing.op = "none" /\ Read.op = "read"
  /\ WriteVersion.op = "version" /\ WriteEnd.op = "end"
  /\ \A x \in Operations : x.op = "block" => x.at \in Nat /\ x.block \in Blocks
  /\ Nothing \in Operations /\ Read \in Operations
  /\ WriteVersion \in Operations /\ WriteEnd \in Operations
<1>1. /\ Nothing.op = "none" /\ Read.op = "read"
      /\ WriteVersion.op = "version" /\ WriteEnd.op = "end"
  BY DEF Nothing, Read, WriteVersion, WriteEnd
<1>2. ASSUME NEW x \in Operations, x.op = "block" PROVE x.at \in Nat /\ x.block \in Blocks
  <2>1. x \in [op : {"block"}, at : Nat, block : Blocks]
    BY <1>1, <1>2 DEF Operations
  <2>. QED  BY <2>1
<1>3. /\ Nothing \in Operations /\ Read \in Operations
      /\ WriteVersion \in Operations /\ WriteEnd \in Operations
  BY DEF Operations
<1>. QED  BY <1>1, <1>2, <1>3

LEMMA WriteFacts ==
  ASSUME NEW n \in Nat, NEW block \in Blocks
  PROVE  /\ Write(n, block) \in Operations /\ Write(n, block).op = "block"
         /\ Write(n, block).at = n /\ Write(n, block).block = block
BY DEF Operations, Write

Below == {ss \in Nat \X Nat : ss[1] < ss[2]}

(* A set of natural numbers that is not empty has a least element.          *)
LEMMA Least ==
  ASSUME NEW T, T \subseteq Nat, T # {}
  PROVE  \E x \in T : \A y \in T : x <= y
<1>1. IsWellFoundedOn(Below, Nat)
  BY NatLessThanWellFounded DEF OpToRel, Below
<1>2. PICK x \in T : \A y \in T : ~ (<<y, x>> \in Below)
  BY <1>1, WFMin
<1>3. ASSUME NEW y \in T PROVE x <= y
  <2>1. x \in Nat /\ y \in Nat
    OBVIOUS
  <2>2. ~ (<<y, x>> \in Below)
    BY <1>2
  <2>3. y < x => <<y, x>> \in Below
    BY <2>1 DEF Below
  <2>. QED  BY <2>1, <2>2, <2>3
<1>. QED  BY <1>3

(* What findNextParameter finds.                                            *)
LEMMA NextUsedFacts ==
  ASSUME TypeOK, NEW app, NEW id \in Nat, NEW last \in Nat,
         NEW n, n = NextUsed(app, id, last)
  PROVE  /\ n \in Nat /\ id <= n
         /\ id <= last => n <= last + 1
         /\ id <= last /\ n <= last => <<app, n>> \in Parameters
         /\ \A m \in Nat : id <= m /\ m < n => <<app, m>> \notin Parameters
<1>1. CASE id > last
  BY <1>1 DEF NextUsed
<1>2. CASE id <= last
  <2>. DEFINE found(k) == /\ k = last + 1 \/ SizeOf(app, k) # 0
                          /\ \A m \in id .. k - 1 : SizeOf(app, m) = 0
              T == {k \in id .. last + 1 : k = last + 1 \/ SizeOf(app, k) # 0}
  <2>1. T \subseteq Nat /\ last + 1 \in T
    BY <1>2
  <2>2. PICK k \in T : \A y \in T : k <= y
    BY <2>1, Least
  <2>3. k \in id .. last + 1 /\ found(k)
    <3>1. k \in id .. last + 1 /\ (k = last + 1 \/ SizeOf(app, k) # 0)
      OBVIOUS
    <3>2. ASSUME NEW m \in id .. k - 1, SizeOf(app, m) # 0 PROVE FALSE
      <4>1. m \in T
        BY <3>1, <3>2
      <4>. QED  BY <2>2, <3>1, <4>1
    <3>. QED  BY <3>1, <3>2
  <2>4. n = CHOOSE x \in id .. last + 1 : found(x)
    BY <1>2 DEF NextUsed
  <2>5. n \in id .. last + 1 /\ found(n)
    <3>. HIDE DEF found
    <3>. QED  BY <2>3, <2>4
  <2>6. \A m \in id .. n - 1 : <<app, m>> \notin Parameters
    BY <2>5, SizeFacts
  <2>. QED  BY <1>2, <2>5, <2>6, SizeFacts
<1>. QED  BY <1>1, <1>2
-----------------------------------------------------------------------------
LEMMA InitInv == Init => IInv
<1>. SUFFICES ASSUME Init PROVE IInv
  OBVIOUS
<1>1. list = << >> /\ Len(list) = 0
  BY DEF Init
<1>2. TypeOK
  <2>1. /\ MaxUpgrades \in Nat /\ SizeAtFirst \in Sizes /\ Default \in Values
        /\ << >> \in Seq(Blocks) /\ <<0, 0>> \in Nat \X Nat
    BY StoreAssumption
  <2>2. /\ ram \in [Parameters -> Values] /\ size \in [Parameters -> Sizes]
        /\ offered \in [Parameters -> SUBSET Values]
    BY <2>1 DEF Init
  <2>3. io \in Operations /\ 0 \in 0 .. MaxUpgrades
    BY <2>1, OperationFacts DEF Init
  <2>. QED  BY <2>1, <2>2, <2>3 DEF Init, TypeOK
<1>. QED
  BY <1>1, <1>2, ConstantFacts
  DEF IInv, Init, Unique, Version, Places, Passed, Done, Offered, Results, AllGood, Loaded,
      FailsOnlyTorn, Listing, Restoring, Saving

(* Steps that leave the memory, the sizes and what is offered alone.        *)
Quiet == UNCHANGED <<memoryVars, size, offered>>

LEMMA QuietFacts ==
  ASSUME Quiet, NEW i, NEW p, NEW n
  PROVE  /\ Unique' <=> Unique
         /\ AllGood' <=> AllGood
         /\ Offered' <=> Offered
         /\ Holds(i, p)' <=> Holds(i, p)
         /\ IsFor(i, p)' <=> IsFor(i, p)
         /\ Readable' = Readable
         /\ UNCHANGED ram => (Loaded(n)' <=> Loaded(n))
BY DEF Quiet, Unique, AllGood, Offered, Holds, IsFor, Readable, Loaded, memoryVars

LEMMA StartInv ==
  ASSUME IInv, Start
  PROVE  IInv'
<1>1. Quiet
  BY DEF Start, Quiet, clientVars
<1>2. TypeOK'
  BY OperationFacts DEF IInv, TypeOK, Start, memoryVars, clientVars, Restoring
<1>3. Unique' /\ Offered'
  BY <1>1, QuietFacts DEF IInv
<1>4. Results'
  BY <1>1, QuietFacts DEF IInv, Results, FailsOnlyTorn, Start, memoryVars, clientVars
<1>. QED
  BY <1>2, <1>3, <1>4
  DEF IInv, Version, Places, Passed, Done, Start, memoryVars, Listing, Restoring, Saving

LEMMA ReadVersionInv ==
  ASSUME IInv, ReadVersion
  PROVE  IInv'
<1>1. Quiet
  BY DEF ReadVersion, Quiet, clientVars
<1>2. TypeOK'
  BY OperationFacts DEF IInv, TypeOK, ReadVersion, memoryVars, clientVars, Restoring
<1>3. Unique' /\ Offered'
  BY <1>1, QuietFacts DEF IInv
<1>4. Version'
  BY DEF IInv, Version, ReadVersion, memoryVars, Listing
<1>5. Places'
  BY ListFacts DEF IInv, Places, ReadVersion, memoryVars, Restoring
<1>6. Results'
  BY <1>1, QuietFacts
  DEF IInv, Results, FailsOnlyTorn, ReadVersion, memoryVars, clientVars, Loaded
<1>. QED
  BY <1>2, <1>3, <1>4, <1>5, <1>6 DEF IInv, Passed, Done, ReadVersion, Saving

LEMMA ReadParameterInv ==
  ASSUME IInv, ReadParameter
  PROVE  IInv'
<1>1. Quiet
  BY DEF ReadParameter, Quiet, memoryVars
<1>2. /\ currentBlock \in 1 .. Len(list) + 1 /\ currentBlock' = currentBlock + 1
      /\ \A i \in 1 .. currentBlock - 1 : list[i].crc
      /\ TypeOK /\ Loaded(currentBlock - 1) /\ Len(list) \in Nat
      /\ restored = "none" /\ saved = "none"
  BY ListFacts DEF IInv, Places, Results, ReadParameter
<1>3. Unique' /\ Offered'
  BY <1>1, QuietFacts DEF IInv
<1>4. CASE /\ ~AtEnd
           /\ Block.crc
           /\ ram' = IF Fits
                     THEN [ram EXCEPT ![<<Block.app, Block.id>>] = Block.data]
                     ELSE ram
           /\ UNCHANGED <<paramState, io, restored>>
  <2>1. currentBlock \in 1 .. Len(list)
    BY <1>2, <1>4 DEF AtEnd
  <2>2. Block = list[currentBlock] /\ Block \in Blocks
    BY <1>2, <2>1, ListFacts DEF Block
  <2>3. Fits => <<Block.app, Block.id>> \in Parameters
    BY <1>2, <2>2, SizeFacts, ConstantFacts DEF Fits, Blocks
  <2>4. ram' \in [Parameters -> Values]
    BY <1>2, <1>4, <2>2 DEF TypeOK, Blocks
  <2>5. \A p \in Parameters :
          Holds(currentBlock, p) <=> Fits /\ p = <<Block.app, Block.id>>
    <3>. SUFFICES ASSUME NEW p \in Parameters
                  PROVE  Holds(currentBlock, p) <=> Fits /\ p = <<Block.app, Block.id>>
      OBVIOUS
    <3>1. p = <<p[1], p[2]>> /\ p[2] # Ignored /\ p[2] \in Nat
      BY ConstantFacts
    <3>2. SizeOf(p[1], p[2]) = size[p]
      BY <1>2, <3>1, SizeFacts
    <3>3. p = <<Block.app, Block.id>> <=> p[1] = Block.app /\ p[2] = Block.id
      BY <3>1
    <3>. QED  BY <2>2, <3>1, <3>2, <3>3 DEF Holds, Fits
  <2>6. \A p \in Parameters : ram'[p] = IF Holds(currentBlock, p)
                                        THEN list[currentBlock].data ELSE ram[p]
    BY <1>2, <1>4, <2>2, <2>5 DEF TypeOK
  <2>7. \A p \in Parameters, i \in 1 .. Len(list) :
          Holds(i, p) /\ Holds(currentBlock, p) => i = currentBlock
    BY <2>1, ConstantFacts DEF IInv, Unique, Holds
  <2>8. ASSUME NEW n, n = currentBlock PROVE Loaded(n)'
    <3>. SUFFICES ASSUME NEW p \in Parameters
                  PROVE  /\ \A i \in 1 .. n : Holds(i, p) => ram'[p] = list[i].data
                         /\ (\A i \in 1 .. n : ~Holds(i, p)) => ram'[p] = Default
      BY <1>1, QuietFacts DEF Loaded, Quiet, memoryVars
    <3>1. CASE Holds(n, p)
      <4>1. ram'[p] = list[n].data /\ n \in 1 .. n
        BY <2>1, <2>6, <2>8, <3>1
      <4>2. \A i \in 1 .. n : Holds(i, p) => i = n
        BY <1>2, <2>1, <2>7, <2>8, <3>1
      <4>. QED  BY <3>1, <4>1, <4>2
    <3>2. CASE ~Holds(n, p)
      <4>1. ram'[p] = ram[p]
        BY <2>6, <2>8, <3>2
      <4>2. \A i \in 1 .. n : i \in 1 .. currentBlock - 1 \/ i = n
        BY <2>1, <2>8
      <4>3. \A i \in 1 .. currentBlock - 1 : i \in 1 .. n
        BY <2>1, <2>8
      <4>. QED  BY <1>2, <3>2, <4>1, <4>2, <4>3 DEF Loaded
    <3>. QED  BY <3>1, <3>2
  <2>9. TypeOK'
    BY <1>2, <1>4, <2>4 DEF TypeOK, ReadParameter, memoryVars
  <2>10. Version' /\ Places' /\ Passed' /\ Done'
    BY <1>2, <1>4, <2>1, <2>2, ListFacts
    DEF IInv, Version, Places, Passed, Done, ReadParameter, memoryVars, Restoring, Saving
  <2>11. Results'
    <3>1. currentBlock' - 1 = currentBlock /\ paramState' = "READ_PARAMETER"
          /\ restored' = "none" /\ saved' = "none"
      BY <1>2, <1>4, <2>1 DEF ReadParameter
    <3>2. Loaded(currentBlock - 1)'
      <4>1. PICK n : n = currentBlock
        OBVIOUS
      <4>2. Loaded(n)'
        BY <2>8, <4>1
      <4>. QED  BY <3>1, <4>1, <4>2
    <3>. QED  BY <3>1, <3>2 DEF Results, FailsOnlyTorn
  <2>. QED  BY <1>3, <2>9, <2>10, <2>11 DEF IInv
<1>5. ASSUME NEW result \in {"success", "fail"}, RestoreDone(result),
             result = "success" => AtEnd
      PROVE  IInv'
  <2>1. TypeOK'
    BY <1>2, <1>5, OperationFacts DEF TypeOK, ReadParameter, RestoreDone, memoryVars
  <2>2. Version' /\ Places' /\ Passed' /\ Done'
    BY <1>2, <1>5
    DEF IInv, Version, Places, Passed, Done, ReadParameter, RestoreDone, memoryVars,
        Restoring, Saving, Listing
  <2>3. result = "success" => currentBlock - 1 = Len(list)
    BY <1>2, <1>5 DEF AtEnd
  <2>4. result = "success" => AllGood
    BY <1>2, <2>3 DEF AllGood
  <2>5. result = "success" => Loaded(Len(list))
    BY <1>2, <2>3
  <2>6. UNCHANGED <<list, ram>> /\ restored' = result /\ paramState' = "IDLE" /\ saved' = "none"
    BY <1>2, <1>5 DEF RestoreDone, ReadParameter, memoryVars
  <2>7. Results'
    BY <1>1, <2>4, <2>5, <2>6, QuietFacts DEF Results, FailsOnlyTorn
  <2>. QED  BY <1>3, <2>1, <2>2, <2>7 DEF IInv
<1>. QED  BY <1>4, <1>5 DEF ReadParameter

(* What a step outside a save leaves alone when the driver stays idle.      *)
LEMMA SetInv ==
  ASSUME IInv, NEW q \in Changed, NEW v \in Values, Set(q, v)
  PROVE  IInv'
<1>1. Quiet
  BY DEF Set, Quiet
<1>2. TypeOK'
  BY StoreAssumption DEF IInv, TypeOK, Set, memoryVars
<1>3. Unique' /\ Offered'
  BY <1>1, QuietFacts DEF IInv
<1>. QED
  BY <1>2, <1>3
  DEF IInv, Version, Places, Passed, Done, Results, FailsOnlyTorn, Set, memoryVars, Listing,
      Restoring, Saving

LEMMA SaveInv ==
  ASSUME IInv, NEW p \in Parameters, NEW q \in Parameters, p[1] = q[1], Save(p[1], p[2], q[2])
  PROVE  IInv'
<1>1. TypeOK /\ p[2] \in Nat /\ q[2] \in Nat /\ p[1] \in Nat /\ p[2] <= q[2]
      /\ q = <<p[1], q[2]>>
  BY ConstantFacts DEF IInv, Save
<1>2. /\ nextParamID' \in Nat /\ p[2] <= nextParamID' /\ nextParamID' <= q[2] + 1
      /\ nextParamID' <= q[2] => <<p[1], nextParamID'>> \in Parameters
      /\ \A m \in Nat : p[2] <= m /\ m < nextParamID' => <<p[1], m>> \notin Parameters
  <2>1. nextParamID' = NextUsed(p[1], p[2], q[2])
    BY DEF Save
  <2>2. PICK n : n = NextUsed(p[1], p[2], q[2])
    OBVIOUS
  <2>. QED  BY <1>1, <2>1, <2>2, NextUsedFacts
<1>3. nextParamID' <= q[2]
  BY <1>1, <1>2
<1>4. App' = p[1] /\ Last' = q[2]
  BY DEF App, Last, Save
<1>5. covered' = {r \in Parameters : r[1] = p[1] /\ p[2] <= r[2] /\ r[2] <= q[2]}
  BY <1>1, ConstantFacts DEF Save
<1>6. \A r \in Parameters : r[2] < nextParamID' => r \notin covered'
  <2>. SUFFICES ASSUME NEW r \in Parameters, r[2] < nextParamID', r \in covered' PROVE FALSE
    OBVIOUS
  <2>1. r = <<p[1], r[2]>> /\ p[2] <= r[2] /\ r[2] \in Nat
    BY <1>5, ConstantFacts
  <2>. QED  BY <1>2, <2>1
<1>7. /\ offered' \in [Parameters -> SUBSET Values]
      /\ \A r \in Parameters : offered[r] \subseteq offered'[r]
      /\ \A r \in covered' : ram[r] \in offered'[r]
  BY <1>1, <1>5 DEF TypeOK, Save
<1>8. TypeOK'
  <2>1. endAppParam' \in Nat \X Nat
    BY <1>1 DEF Save
  <2>2. covered' \in SUBSET Parameters
    BY <1>5
  <2>. QED  BY <1>1, <1>2, <1>7, <2>1, <2>2, OperationFacts DEF TypeOK, Save, memoryVars, Saving
<1>9. Unique' /\ (AllGood' <=> AllGood)
  BY DEF IInv, Unique, AllGood, Save, memoryVars
<1>10. Offered'
  BY <1>7, <1>9 DEF IInv, Offered, Save, memoryVars, IsFor, Holds
<1>11. Version' /\ Places' /\ Passed'
  <2>1. Target(nextParamID)'
    BY <1>2, <1>3, <1>4 DEF Target
  <2>2. Version' /\ Passed'
    BY DEF IInv, Version, Passed, Save, memoryVars, Listing
  <2>3. Places'
    BY <2>1, OperationFacts DEF Places, Save, Restoring
  <2>. QED  BY <2>2, <2>3
<1>12. Done'
  <2>1. \A r \in Parameters :
          r[1] = App' /\ nextParamID' <= r[2] /\ r[2] <= Last' => r \in covered'
    BY <1>1, <1>2, <1>4, <1>5, ConstantFacts
  <2>2. UNCHANGED ram
    BY DEF Save
  <2>. QED  BY <1>4, <1>5, <1>6, <1>7, <2>1, <2>2 DEF Done
<1>13. Results'
  BY DEF IInv, Results, FailsOnlyTorn, Save, memoryVars
<1>. QED  BY <1>8, <1>9, <1>10, <1>11, <1>12, <1>13 DEF IInv

LEMMA SaveVersionInv ==
  ASSUME IInv, SaveVersion
  PROVE  IInv'
<1>1. Quiet
  BY DEF SaveVersion, Quiet, Finish, clientVars
<1>2. TypeOK'
  BY OperationFacts DEF IInv, TypeOK, SaveVersion, Finish, memoryVars, clientVars, Saving
<1>3. Unique' /\ Offered'
  BY <1>1, QuietFacts DEF IInv
<1>4. Version'
  BY DEF IInv, Version, SaveVersion, Finish, memoryVars, Listing
<1>5. Places'
  BY ListFacts
  DEF IInv, Places, SaveVersion, Finish, memoryVars, Restoring, Target, App, Last
<1>6. Done'
  <2>1. CASE paramState' = "IDLE"
    BY <2>1 DEF Done, Saving
  <2>2. CASE paramState' # "IDLE"
    <3>1. UNCHANGED <<ram, offered, covered, nextParamID, endAppParam>> /\ ~Beginning
      BY <2>2, OperationFacts DEF SaveVersion, Finish, clientVars, Beginning
    <3>2. Readable' = Readable /\ UNCHANGED <<list, size>>
      BY <2>2, <1>1, QuietFacts DEF Quiet, memoryVars
    <3>. QED
      BY <3>1, <3>2 DEF IInv, Done, SaveVersion, Saving, App, Last, Holds
  <2>. QED  BY <2>1, <2>2
<1>7. Results'
  BY <1>1, QuietFacts
  DEF IInv, Results, FailsOnlyTorn, SaveVersion, Finish, memoryVars, clientVars, Loaded
<1>. QED
  BY <1>2, <1>3, <1>4, <1>5, <1>6, <1>7 DEF IInv, TypeOK, Passed, SaveVersion, Saving, Finish
-----------------------------------------------------------------------------
(* The scan has read the block before it looks at it, and looks for a       *)
(* parameter in use.                                                        *)
LEMMA ScanFacts ==
  ASSUME IInv, Scanning
  PROVE  /\ TypeOK /\ Target(nextParamID) /\ ~Beginning
         /\ <<App, nextParamID>> \in covered
         /\ currentBlock \in 1 .. Len(list) + 1 /\ Len(list) \in Nat
         /\ \A i \in 1 .. currentBlock - 1 : list[i].crc
         /\ ~AtEnd => currentBlock \in 1 .. Len(list)
         /\ AtEnd => currentBlock = Len(list) + 1
         /\ restored = "none" /\ saved = "none"
         /\ version = "good"
<1>1. TypeOK /\ Target(nextParamID) /\ ~Beginning
      /\ currentBlock \in 1 .. Len(list) + 1 /\ Len(list) \in Nat
      /\ \A i \in 1 .. currentBlock - 1 : list[i].crc
  BY OperationFacts, ListFacts DEF IInv, Places, Scanning, Beginning
<1>2. <<App, nextParamID>> \in covered
  <2>1. \A p \in Parameters :
          p[1] = App /\ nextParamID <= p[2] /\ p[2] <= Last => p \in covered
    BY DEF IInv, Done, Scanning, Saving
  <2>. QED  BY <1>1, <2>1, ListFacts DEF Target
<1>3. restored = "none" /\ saved = "none" /\ version = "good"
  BY DEF IInv, Results, Version, Listing, Scanning
<1>. QED  BY <1>1, <1>2, <1>3 DEF AtEnd

LEMMA ScanEndsInv ==
  ASSUME IInv, ScanEnds
  PROVE  IInv'
<1>1. Quiet /\ Scanning /\ AtEnd
  BY DEF ScanEnds, Quiet, clientVars
<1>2. TypeOK'
  BY <1>1, ScanFacts, OperationFacts DEF TypeOK, ScanEnds, memoryVars, clientVars, Saving
<1>3. Unique' /\ Offered'
  BY <1>1, QuietFacts DEF IInv
<1>4. Version' /\ Results'
  BY <1>1, ScanFacts
  DEF IInv, Version, Results, FailsOnlyTorn, ScanEnds, memoryVars, clientVars, Listing
<1>5. Places'
  <2>1. AllGood'
    BY <1>1, ScanFacts, QuietFacts DEF AllGood
  <2>2. Target(nextParamID)'
    BY <1>1, ScanFacts DEF Target, ScanEnds, App, Last
  <2>3. (currentBlock = Len(list) + 1)'
    BY <1>1, ScanFacts DEF ScanEnds, memoryVars
  <2>. QED  BY <2>1, <2>2, <2>3 DEF Places, ScanEnds, Restoring
<1>6. Passed'
  BY <1>1, OperationFacts
  DEF IInv, Passed, ScanEnds, Scanning, memoryVars, Saving, App
<1>7. Done'
  <2>1. Readable' = Readable /\ UNCHANGED <<list, size>>
    BY <1>1, QuietFacts DEF Quiet, memoryVars
  <2>. QED
    BY <1>1, <2>1, ScanFacts
    DEF IInv, Done, ScanEnds, Scanning, clientVars, Saving, App, Last, Holds
<1>. QED  BY <1>2, <1>3, <1>4, <1>5, <1>6, <1>7 DEF IInv

LEMMA ScanFailsInv ==
  ASSUME IInv, ScanFails
  PROVE  IInv'
<1>1. Quiet /\ Scanning /\ Damaged
  BY DEF ScanFails, Quiet, Finish
<1>2. TypeOK'
  BY <1>1, ScanFacts, OperationFacts DEF TypeOK, ScanFails, Finish, memoryVars
<1>3. Unique' /\ Offered'
  BY <1>1, QuietFacts DEF IInv
<1>4. Results'
  <2>1. \E i \in 1 .. Len(list) : ~list[i].crc
    BY <1>1, ScanFacts DEF Damaged, Block
  <2>. QED
    BY <1>1, <2>1, ScanFacts DEF Results, FailsOnlyTorn, ScanFails, Finish, memoryVars
<1>. QED
  BY <1>2, <1>3, <1>4
  DEF IInv, Version, Places, Passed, Done, ScanFails, Finish, memoryVars, Listing, Restoring,
      Saving

LEMMA ScanPassesInv ==
  ASSUME IInv, ScanPasses
  PROVE  IInv'
<1>1. Quiet /\ Scanning /\ ~AtEnd
  BY DEF ScanPasses, Quiet, clientVars
<1>2. TypeOK'
  BY <1>1, ScanFacts, ListFacts DEF TypeOK, ScanPasses, memoryVars, clientVars, Later
<1>3. Unique' /\ Offered'
  BY <1>1, QuietFacts DEF IInv
<1>4. Version' /\ Results'
  BY <1>1, ScanFacts
  DEF IInv, Version, Results, FailsOnlyTorn, ScanPasses, Scanning, memoryVars, clientVars,
      Listing
<1>5. Places'
  <2>1. Target(nextParamID)'
    BY <1>1, ScanFacts DEF Target, ScanPasses, App, Last
  <2>2. currentBlock' \in 1 .. Len(list) + 1
    BY <1>1, ScanFacts DEF ScanPasses
  <2>3. \A i \in 1 .. currentBlock' - 1 : list[i].crc
    BY <1>1, ScanFacts DEF ScanPasses, Block
  <2>. QED  BY <1>1, <2>1, <2>2, <2>3 DEF Places, ScanPasses, Scanning, Restoring, memoryVars
<1>6. Passed'
  <2>. SUFFICES ASSUME ~rescanRequired',
                       NEW i \in 1 .. Len(list), i < currentBlock + 1, list[i].app = App
                PROVE  list[i].id < nextParamID \/ list[i].id = Ignored
    BY <1>1 DEF Passed, ScanPasses, memoryVars, App
  <2>1. CASE i = currentBlock
    BY <1>1, <2>1, ScanFacts, ListFacts DEF ScanPasses, Sought, Later, Block
  <2>2. CASE i # currentBlock
    <3>1. i < currentBlock
      BY <1>1, <2>2, ScanFacts
    <3>2. ~rescanRequired
      BY <1>1, ScanFacts DEF ScanPasses, TypeOK
    <3>. QED  BY <1>1, <3>1, <3>2, OperationFacts DEF IInv, Passed, Scanning, Saving
  <2>. QED  BY <2>1, <2>2
<1>7. Done'
  <2>1. Readable' = Readable /\ UNCHANGED <<list, size>>
    BY <1>1, QuietFacts DEF Quiet, memoryVars
  <2>. QED
    BY <1>1, <2>1, ScanFacts
    DEF IInv, Done, ScanPasses, Scanning, clientVars, Saving, App, Last, Holds
<1>. QED  BY <1>2, <1>3, <1>4, <1>5, <1>6, <1>7 DEF IInv

LEMMA BlockOfFacts ==
  ASSUME TypeOK, NEW app, NEW id, <<app, id>> \in Parameters
  PROVE  /\ BlockOf(app, id) \in Blocks
         /\ BlockOf(app, id).app = app /\ BlockOf(app, id).id = id
         /\ BlockOf(app, id).count = size[<<app, id>>]
         /\ BlockOf(app, id).data = ram[<<app, id>>]
         /\ BlockOf(app, id).crc = TRUE
<1>1. SizeOf(app, id) \in Sizes /\ SizeOf(app, id) = size[<<app, id>>]
  BY SizeFacts
<1>2. app \in Applications /\ id \in Identifiers /\ ram[<<app, id>>] \in Values
  BY PairFacts DEF TypeOK
<1>. QED  BY <1>1, <1>2 DEF BlockOf, Blocks

LEMMA ScanReplacesInv ==
  ASSUME IInv, ScanReplaces
  PROVE  IInv'
<1>1. Quiet /\ Scanning /\ ~AtEnd
  BY DEF ScanReplaces, Quiet, clientVars
<1>. DEFINE block == BlockOf(App, nextParamID)
<1>2. /\ TypeOK /\ currentBlock \in 1 .. Len(list) /\ Target(nextParamID)
      /\ nextParamID \in Nat /\ <<App, nextParamID>> \in Parameters
  BY <1>1, ScanFacts, ListFacts DEF Target
<1>3. /\ block \in Blocks /\ block.id = nextParamID /\ block.id # Ignored
      /\ io' = Write(currentBlock, block)
  <2>1. block \in Blocks /\ block.id = nextParamID
    <3>1. SizeOf(App, nextParamID) \in Sizes
      BY <1>2, SizeFacts
    <3>2. App \in Applications /\ nextParamID \in Identifiers
      BY <1>2, PairFacts
    <3>3. ram[<<App, nextParamID>>] \in Values
      BY <1>2 DEF TypeOK
    <3>. QED  BY <3>1, <3>2, <3>3 DEF BlockOf, Blocks
  <2>2. nextParamID # Ignored
    BY <1>2, PairFacts, ConstantFacts
  <2>3. io' = Write(currentBlock, block)
    BY DEF ScanReplaces
  <2>. QED  BY <2>1, <2>2, <2>3
<1>4. /\ io' \in Operations /\ io'.op = "block" /\ io'.at = currentBlock /\ io'.block = block
  <2>1. currentBlock \in Nat
    BY <1>2
  <2>. HIDE DEF block
  <2>. QED  BY <1>3, <2>1, WriteFacts, ZenonT(60)
<1>5. /\ currentBlock' = currentBlock + 1 /\ nextParamID' = nextParamID + 1
      /\ UNCHANGED <<paramState, endAppParam, rescanRequired, version, list, closed, ram, size,
                     upgrades, restored, saved, covered, offered>>
      /\ App' = App /\ Last' = Last
  BY DEF ScanReplaces, memoryVars, clientVars, App, Last
<1>. HIDE DEF block
<1>6. TypeOK'
  BY <1>2, <1>4, <1>5 DEF TypeOK
<1>7. Unique' /\ Offered'
  BY <1>1, QuietFacts DEF IInv
<1>8. Version' /\ Results'
  BY <1>1, <1>5, ScanFacts DEF IInv, Version, Results, FailsOnlyTorn, Scanning, Listing
<1>9. Places'
  <2>1. nextParamID' - 1 = nextParamID
    BY <1>2, <1>5
  <2>2. NewBlock'
    <3>1. BlockOf(App, nextParamID - 1)' = block
      BY <1>5, <2>1 DEF BlockOf, SizeOf, block
    <3>2. Target(nextParamID - 1)' /\ nextParamID' > 0
      BY <1>2, <1>5, <2>1 DEF Target
    <3>3. <<App, nextParamID - 1>>' \in covered'
      BY <1>1, <1>5, <2>1, ScanFacts
    <3>. QED  BY <1>4, <3>1, <3>2, <3>3 DEF NewBlock
  <2>3. Holds(currentBlock, <<App, nextParamID>>)
    BY <1>1, <1>2, SizeFacts DEF ScanReplaces, Holds, Sought, Block
  <2>4. Replacing(io.at)'
    BY <1>4, <1>5, <2>1, <2>2, <2>3 DEF Replacing, Holds
  <2>5. \A i \in 1 .. currentBlock : list[i].crc
    BY <1>1, <1>2, ScanFacts DEF ScanReplaces, Block
  <2>. QED
    BY <1>1, <1>2, <1>4, <1>5, <2>4, <2>5 DEF Places, Scanning, Restoring
<1>10. Passed'
  <2>. SUFFICES ASSUME ~rescanRequired,
                       NEW i \in 1 .. Len(list), i < currentBlock + 1, list[i].app = App
                PROVE  list[i].id < nextParamID + 1 \/ list[i].id = Ignored \/ i = currentBlock
    BY <1>1, <1>4, <1>5 DEF Passed
  <2>1. CASE i # currentBlock
    <3>1. i < currentBlock
      BY <1>2, <2>1
    <3>2. list[i].id < nextParamID \/ list[i].id = Ignored
      BY <1>1, <3>1, OperationFacts DEF IInv, Passed, Scanning, Saving
    <3>. QED  BY <1>2, <3>2, ListFacts
  <2>. QED  BY <2>1
<1>11. Done'
  <2>1. Readable' = Readable
    BY <1>1, QuietFacts
  <2>2. Beginning'
    BY <1>3, <1>4 DEF Beginning
  <2>3. \A p \in covered : p[2] < nextParamID + 1 =>
          \/ \E i \in Readable : Holds(i, p) /\ list[i].data = ram[p]
          \/ p[2] = nextParamID
    <3>. SUFFICES ASSUME NEW p \in covered, p[2] < nextParamID + 1, p[2] # nextParamID
                  PROVE  \E i \in Readable : Holds(i, p) /\ list[i].data = ram[p]
      OBVIOUS
    <3>1. p \in Parameters
      BY <1>1 DEF IInv, Done, Scanning, Saving
    <3>2. p[2] < nextParamID
      BY <1>2, <3>1, ConstantFacts
    <3>. QED  BY <1>1, <3>2, ScanFacts DEF IInv, Done, Scanning, Saving
  <2>4. \A p \in Parameters :
          p[1] = App /\ nextParamID + 1 <= p[2] /\ p[2] <= Last => p \in covered
    BY <1>1, <1>2, ConstantFacts DEF IInv, Done, Scanning, Saving
  <2>5. \A p \in covered : p \in Parameters /\ p[1] = App /\ p[2] <= Last /\ ram[p] \in offered[p]
    BY <1>1 DEF IInv, Done, Scanning, Saving
  <2>6. nextParamID' - 1 = nextParamID
    BY <1>2, <1>5
  <2>. QED  BY <1>5, <2>1, <2>2, <2>3, <2>4, <2>5, <2>6 DEF Done, Holds
<1>. QED  BY <1>6, <1>7, <1>8, <1>9, <1>10, <1>11 DEF IInv

LEMMA ScanDisablesInv ==
  ASSUME IInv, ScanDisables
  PROVE  IInv'
<1>1. Quiet /\ Scanning /\ ~AtEnd
  BY DEF ScanDisables, Quiet, clientVars
<1>. DEFINE block == [Block EXCEPT !.id = Ignored, !.data = ram[<<App, nextParamID>>]]
<1>2. /\ TypeOK /\ currentBlock \in 1 .. Len(list) /\ Target(nextParamID)
      /\ nextParamID \in Nat /\ <<App, nextParamID>> \in Parameters
  BY <1>1, ScanFacts, ListFacts DEF Target
<1>3. block \in Blocks /\ block.id = Ignored /\ block.crc = TRUE
  <2>1. Block \in Blocks /\ Block.crc
    BY <1>2, ListFacts DEF ScanDisables, Block
  <2>2. ram[<<App, nextParamID>>] \in Values
    BY <1>2 DEF TypeOK
  <2>. QED  BY <2>1, <2>2 DEF Blocks
<1>4. /\ io' \in Operations /\ io'.op = "block" /\ io'.at = currentBlock /\ io'.block = block
  <2>1. currentBlock \in Nat /\ io' = Write(currentBlock, block)
    BY <1>2 DEF ScanDisables
  <2>. HIDE DEF block
  <2>. QED  BY <1>3, <2>1, WriteFacts, ZenonT(60)
<1>5. /\ currentBlock' = currentBlock + 1
      /\ UNCHANGED <<paramState, nextParamID, endAppParam, rescanRequired, version, list, closed,
                     ram, size, upgrades, restored, saved, covered, offered>>
      /\ App' = App /\ Last' = Last
  BY DEF ScanDisables, memoryVars, clientVars, App, Last
<1>. HIDE DEF block
<1>6. TypeOK'
  BY <1>2, <1>4, <1>5 DEF TypeOK
<1>7. Unique' /\ Offered'
  BY <1>1, QuietFacts DEF IInv
<1>8. Version' /\ Results'
  BY <1>1, <1>5, ScanFacts DEF IInv, Version, Results, FailsOnlyTorn, Scanning, Listing
<1>9. Places'
  <2>1. /\ IsFor(currentBlock, <<App, nextParamID>>)
        /\ ~Holds(currentBlock, <<App, nextParamID>>)
    BY <1>1, <1>2, SizeFacts DEF ScanDisables, IsFor, Holds, Sought, Block
  <2>2. Disabling(io.at)'
    BY <1>2, <1>3, <1>4, <1>5, <2>1 DEF Disabling, Holds, IsFor, Target
  <2>3. \A i \in 1 .. currentBlock : list[i].crc
    BY <1>1, <1>2, ScanFacts DEF ScanDisables, Block
  <2>. QED
    BY <1>1, <1>2, <1>4, <1>5, <2>2, <2>3 DEF Places, Scanning, Restoring
<1>10. Passed'
  <2>. SUFFICES ASSUME ~rescanRequired,
                       NEW i \in 1 .. Len(list), i < currentBlock + 1, list[i].app = App
                PROVE  list[i].id < nextParamID \/ list[i].id = Ignored \/ i = currentBlock
    BY <1>1, <1>4, <1>5 DEF Passed
  <2>1. CASE i # currentBlock
    <3>1. i < currentBlock
      BY <1>2, <2>1
    <3>. QED  BY <1>1, <3>1, OperationFacts DEF IInv, Passed, Scanning, Saving
  <2>. QED  BY <2>1
<1>11. Done'
  <2>1. Readable' = Readable
    BY <1>1, QuietFacts
  <2>2. ~Beginning'
    BY <1>3, <1>4 DEF Beginning
  <2>. QED
    BY <1>1, <1>5, <2>1, <2>2, ScanFacts DEF IInv, Done, Scanning, Saving, Holds
<1>. QED  BY <1>6, <1>7, <1>8, <1>9, <1>10, <1>11 DEF IInv

LEMMA UpgradeInv ==
  ASSUME IInv, NEW p \in Resized, NEW n \in Sizes, Upgrade(p, n)
  PROVE  IInv'
<1>1. TypeOK /\ p \in Parameters /\ Default \in Values /\ MaxUpgrades \in Nat
  BY StoreAssumption DEF IInv
<1>2. paramState = "NEVER_STARTED"
  BY DEF Upgrade
<1>3. UNCHANGED <<paramState, currentBlock, nextParamID, endAppParam, rescanRequired, io, version,
                  list, closed, ram, restored, saved, covered>>
  BY DEF Upgrade, memoryVars
<1>4. TypeOK'
  <2>1. size' \in [Parameters -> Sizes]
    BY <1>1 DEF Upgrade, TypeOK
  <2>2. offered' \in [Parameters -> SUBSET Values]
    BY <1>1 DEF Upgrade, TypeOK
  <2>3. upgrades' \in 0 .. MaxUpgrades
    BY <1>1 DEF Upgrade, TypeOK
  <2>. QED  BY <1>1, <1>3, <2>1, <2>2, <2>3 DEF TypeOK
<1>5. Offered'
  <2>. SUFFICES ASSUME AllGood, NEW q \in Parameters
                PROVE  /\ \A i \in 1 .. Len(list) : IsFor(i, q) => list[i].data \in offered'[q]
                       /\ (\A i \in 1 .. Len(list) : ~Holds(i, q)') => Default \in offered'[q]
    BY <1>3 DEF Offered, AllGood, IsFor
  <2>1. /\ \A i \in 1 .. Len(list) : IsFor(i, q) => list[i].data \in offered[q]
        /\ (\A i \in 1 .. Len(list) : ~Holds(i, q)) => Default \in offered[q]
    BY DEF IInv, Offered
  <2>2. offered' = [offered EXCEPT ![p] = offered[p] \cup {Default}]
    BY DEF Upgrade
  <2>3. CASE q = p
    BY <1>1, <2>1, <2>2, <2>3 DEF TypeOK
  <2>4. CASE q # p
    <3>1. offered'[q] = offered[q] /\ size'[q] = size[q]
      BY <1>1, <2>2, <2>4 DEF TypeOK, Upgrade
    <3>. QED  BY <1>3, <2>1, <3>1 DEF Holds
  <2>. QED  BY <2>3, <2>4
<1>6. Unique' /\ Version' /\ Places' /\ Passed' /\ Done'
  BY <1>2, <1>3 DEF IInv, Unique, Version, Places, Passed, Done, Restoring, Saving, Listing
<1>7. Results'
  BY <1>2, <1>3 DEF IInv, Results, FailsOnlyTorn
<1>. QED  BY <1>4, <1>5, <1>6, <1>7 DEF IInv
-----------------------------------------------------------------------------
LEMMA VersionWrittenInv ==
  ASSUME IInv, VersionWritten
  PROVE  IInv'
<1>1. /\ TypeOK /\ list = << >> /\ Len(list) = 0 /\ version = "erased"
      /\ io = WriteVersion /\ currentBlock = 1 /\ Target(nextParamID)
      /\ restored = "none" /\ saved = "none"
  BY DEF IInv, Version, Places, Results, VersionWritten
<1>2. /\ paramState' = "SAVE_NEW_PARAMETERS" /\ io' = WriteEnd /\ version' = "good"
      /\ UNCHANGED <<currentBlock, nextParamID, endAppParam, rescanRequired, list, closed, ram,
                     size, upgrades, restored, saved, covered, offered>>
  BY <1>1, OperationFacts DEF VersionWritten, WriteDone, clientVars
<1>3. TypeOK'
  BY <1>1, <1>2, OperationFacts DEF TypeOK, Saving
<1>4. Unique' /\ Version' /\ Offered'
  BY <1>1, <1>2 DEF IInv, Unique, Version, Offered, AllGood, Holds, IsFor
<1>5. Places'
  BY <1>1, <1>2 DEF Places, AllGood, Target, App, Last, Restoring
<1>6. Passed'
  BY <1>1, <1>2 DEF Passed
<1>7. Done'
  <2>1. Readable = {} /\ ~Beginning
    BY <1>1, OperationFacts DEF Readable, Beginning
  <2>2. paramState \in Saving
    BY DEF VersionWritten, Saving
  <2>. QED  BY <1>2, <2>1, <2>2 DEF IInv, Done, App, Last
<1>8. Results'
  BY <1>1, <1>2 DEF Results, FailsOnlyTorn
<1>. QED  BY <1>3, <1>4, <1>5, <1>6, <1>7, <1>8 DEF IInv
-----------------------------------------------------------------------------
(* The parameter whose block is being written.                              *)
Parameter == <<App, nextParamID - 1>>

LEMMA NewBlockFacts ==
  ASSUME IInv, NewBlock
  PROVE  /\ Parameter \in Parameters /\ Parameter \in covered
         /\ Parameter[1] = App /\ Parameter[2] = nextParamID - 1
         /\ io.block.app = App /\ io.block.id = nextParamID - 1
         /\ io.block.id # Ignored
         /\ io.block.count = size[Parameter]
         /\ io.block.data = ram[Parameter]
         /\ io.block.crc = TRUE
<1>1. TypeOK /\ Parameter \in Parameters /\ Parameter \in covered /\ nextParamID \in Nat
  BY ListFacts DEF IInv, NewBlock, Target, Parameter
<1>2. Parameter[1] = App /\ Parameter[2] = nextParamID - 1
  BY DEF Parameter
<1>3. io.block.id = nextParamID - 1 /\ io.block.app = App
  BY DEF NewBlock, BlockOf
<1>4. io.block.data = ram[Parameter] /\ io.block.crc = TRUE
  BY DEF NewBlock, BlockOf, Parameter
<1>5. io.block.count = size[Parameter]
  BY <1>1, SizeFacts DEF NewBlock, BlockOf, Parameter
<1>6. Parameter[2] # Ignored
  BY <1>1, ConstantFacts
<1>. QED  BY <1>1, <1>2, <1>3, <1>4, <1>5, <1>6

(* A block is being written: where, and whose.                              *)
LEMMA UnderWay ==
  ASSUME IInv, io.op = "block"
  PROVE  /\ paramState \in {"SAVE_PARAMETERS", "SAVE_NEW_PARAMETERS"}
         /\ io.block \in Blocks /\ io.block.crc = TRUE
         /\ io.at \in 1 .. Len(list) + 1 /\ version = "good"
         /\ \A i \in 1 .. Len(list) : i <= io.at => list[i].crc
         /\ io.block.id # Ignored =>
              NewBlock /\ \A i \in 1 .. Len(list) : IsFor(i, Parameter) => i = io.at
         /\ \A p \in Parameters :
              io.at <= Len(list) /\ Holds(io.at, p) => io.block.id # Ignored /\ p = Parameter
<1>1. /\ TypeOK /\ Len(list) \in Nat
      /\ paramState \in {"SAVE_PARAMETERS", "SAVE_NEW_PARAMETERS"} /\ version = "good"
  BY ListFacts, OperationFacts
  DEF IInv, TypeOK, Places, Version, Listing, Restoring, Saving
<1>2. io.block \in Blocks /\ io.at \in Nat
  BY <1>1, OperationFacts DEF TypeOK
<1>3. CASE paramState = "SAVE_PARAMETERS"
  <2>1. /\ io.at \in 1 .. Len(list) /\ currentBlock = io.at + 1
        /\ Replacing(io.at) \/ Disabling(io.at)
        /\ \A i \in 1 .. currentBlock - 1 : list[i].crc
    BY <1>3, OperationFacts DEF IInv, Places
  <2>2. \A i \in 1 .. Len(list) : i <= io.at => list[i].crc
    BY <1>1, <2>1
  <2>3. CASE Replacing(io.at)
    <3>1. NewBlock /\ Holds(io.at, Parameter)
      BY <2>3 DEF Replacing, Parameter
    <3>2. Parameter \in Parameters /\ Parameter[2] # Ignored /\ io.block.id # Ignored
          /\ io.block.crc = TRUE
      BY <3>1, NewBlockFacts, ConstantFacts
    <3>3. \A i \in 1 .. Len(list) : IsFor(i, Parameter) => i = io.at
      BY <2>1, <3>1, <3>2 DEF IInv, Unique, IsFor, Holds
    <3>4. \A p \in Parameters : Holds(io.at, p) => p = Parameter
      BY <3>1, <3>2, ConstantFacts DEF Holds
    <3>. QED  BY <1>1, <1>2, <2>1, <2>2, <3>1, <3>2, <3>3, <3>4
  <2>4. CASE Disabling(io.at)
    <3>. PICK q \in Parameters : q = <<App, nextParamID>>
      BY <2>4 DEF Disabling, Target
    <3>1. IsFor(io.at, q) /\ ~Holds(io.at, q)
      BY <2>4 DEF Disabling
    <3>2. \A p \in Parameters : ~Holds(io.at, p)
      <4>. SUFFICES ASSUME NEW p \in Parameters, Holds(io.at, p) PROVE FALSE
        OBVIOUS
      <4>1. p[1] = q[1] /\ p[2] = q[2]
        BY <3>1 DEF IsFor, Holds
      <4>2. p = q
        BY <4>1, ConstantFacts
      <4>. QED  BY <3>1, <4>2
    <3>3. io.block.id = Ignored /\ io.block.crc = TRUE
      BY <1>2, <2>4 DEF Disabling, Blocks
    <3>. QED  BY <1>1, <1>2, <2>1, <2>2, <3>2, <3>3
  <2>. QED  BY <2>1, <2>3, <2>4
<1>4. CASE paramState = "SAVE_NEW_PARAMETERS"
  <2>1. /\ AllGood /\ io.at = Len(list) + 1 /\ NewBlock
        /\ \A i \in 1 .. Len(list) : ~IsFor(i, Parameter)
    BY <1>4, OperationFacts DEF IInv, Places, Parameter
  <2>2. io.block.crc = TRUE
    BY <2>1, NewBlockFacts
  <2>. QED  BY <1>1, <1>2, <2>1, <2>2 DEF AllGood
<1>. QED  BY <1>1, <1>3, <1>4

LEMMA ListWritten ==
  ASSUME TypeOK, NEW at \in 1 .. Len(list) + 1, NEW block \in Blocks, NEW l,
         l = Written(list, at, block)
  PROVE  /\ l \in Seq(Blocks)
         /\ Len(l) = IF at <= Len(list) THEN Len(list) ELSE Len(list) + 1
         /\ at \in 1 .. Len(l) /\ l[at] = block
         /\ \A i \in 1 .. Len(l) : i # at => i \in 1 .. Len(list) /\ l[i] = list[i]
         /\ \A i \in 1 .. Len(list) : i \in 1 .. Len(l)
<1>1. list \in Seq(Blocks) /\ Len(list) \in Nat
  BY ListFacts DEF TypeOK
<1>2. CASE at <= Len(list)
  BY <1>1, <1>2 DEF Written
<1>3. CASE at > Len(list)
  <2>1. l = Append(list, block) /\ at = Len(list) + 1
    BY <1>1, <1>3 DEF Written
  <2>. QED  BY <1>1, <2>1, AppendProperties
<1>. QED  BY <1>1, <1>2, <1>3

(* The block is written.                                                    *)
LEMMA BlockWritten ==
  ASSUME IInv, io.op = "block", WriteDone, UNCHANGED <<ram, size>>
  PROVE  /\ version' = "good" /\ list' \in Seq(Blocks) /\ closed' \in BOOLEAN
         /\ Len(list') = IF io.at <= Len(list) THEN Len(list) ELSE Len(list) + 1
         /\ io.at \in 1 .. Len(list') /\ list'[io.at] = io.block
         /\ \A i \in 1 .. Len(list') :
              i # io.at => i \in 1 .. Len(list) /\ list'[i] = list[i]
         /\ Unique'
         /\ \A i \in 1 .. Len(list') : i <= io.at => list'[i].crc
         /\ AllGood' => AllGood
         /\ \A p \in Parameters, i \in 1 .. Len(list') :
              IsFor(i, p)' => \/ p = Parameter /\ p \in covered /\ list'[i].data = ram[p]
                              \/ i \in 1 .. Len(list) /\ IsFor(i, p) /\ list'[i] = list[i]
         /\ \A p \in Parameters, i \in 1 .. Len(list) :
              Holds(i, p) => i \in 1 .. Len(list') /\ Holds(i, p)'
         /\ \A p \in covered :
              p[2] < nextParamID =>
                \E i \in Readable' : Holds(i, p)' /\ list'[i].data = ram[p]
<1>0. PICK at, block, l : at = io.at /\ block = io.block /\ l = list'
  OBVIOUS
<1>1. list' = Written(list, at, block) /\ version' = version /\ closed' \in BOOLEAN
  BY <1>0 DEF WriteDone, IInv, TypeOK
<1>2. /\ TypeOK /\ at \in 1 .. Len(list) + 1 /\ block \in Blocks /\ block.crc = TRUE
      /\ version = "good" /\ Len(list) \in Nat /\ paramState \in Saving
      /\ \A i \in 1 .. Len(list) : i <= at => list[i].crc
  BY <1>0, UnderWay, ListFacts DEF IInv, Saving
<1>3. /\ l \in Seq(Blocks)
      /\ Len(l) = IF at <= Len(list) THEN Len(list) ELSE Len(list) + 1
      /\ at \in 1 .. Len(l) /\ l[at] = block
      /\ \A i \in 1 .. Len(l) : i # at => i \in 1 .. Len(list) /\ l[i] = list[i]
      /\ \A i \in 1 .. Len(list) : i \in 1 .. Len(l)
  <2>1. l = Written(list, at, block)
    BY <1>0, <1>1
  <2>2. TypeOK /\ at \in 1 .. Len(list) + 1 /\ block \in Blocks
    BY <1>2
  <2>3. l \in Seq(Blocks) /\ at \in 1 .. Len(l) /\ l[at] = block
    BY <2>1, <2>2, ListWritten
  <2>4. Len(l) = IF at <= Len(list) THEN Len(list) ELSE Len(list) + 1
    BY <2>1, <2>2, ListWritten
  <2>5. \A i \in 1 .. Len(l) : i # at => i \in 1 .. Len(list) /\ l[i] = list[i]
    <3>. SUFFICES ASSUME NEW i \in 1 .. Len(l), i # at
                  PROVE  i \in 1 .. Len(list) /\ l[i] = list[i]
      OBVIOUS
    <3>. QED  BY <2>1, <2>2, ListWritten
  <2>6. \A i \in 1 .. Len(list) : i \in 1 .. Len(l)
    BY <2>1, <2>2, ListWritten
  <2>. QED  BY <2>3, <2>4, <2>5, <2>6
<1>4. block.id # Ignored =>
        /\ NewBlock /\ Parameter \in Parameters /\ Parameter \in covered
        /\ Parameter[1] = App /\ Parameter[2] = nextParamID - 1
        /\ block.app = App /\ block.id = nextParamID - 1
        /\ block.count = size[Parameter] /\ block.data = ram[Parameter]
        /\ \A i \in 1 .. Len(list) : IsFor(i, Parameter) => i = at
  BY <1>0, UnderWay, NewBlockFacts
<1>5. \A p \in Parameters :
        at <= Len(list) /\ Holds(at, p) => block.id # Ignored /\ p = Parameter
  BY <1>0, UnderWay
<1>6. UNCHANGED <<ram, size>>
  OBVIOUS
<1>7. Unique'
  <2>. SUFFICES ASSUME NEW i \in 1 .. Len(l), NEW j \in 1 .. Len(l),
                       l[i].app = l[j].app, l[i].id = l[j].id, i # j, l[i].id # Ignored
                PROVE  FALSE
    BY <1>0 DEF Unique
  <2>1. CASE i # at /\ j # at
    BY <1>3, <2>1 DEF IInv, Unique
  <2>2. ASSUME NEW k \in 1 .. Len(l), k # at, l[k].app = block.app, l[k].id = block.id,
               block.id # Ignored
        PROVE  FALSE
    <3>1. k \in 1 .. Len(list) /\ l[k] = list[k]
      BY <1>3, <2>2
    <3>2. IsFor(k, Parameter)
      BY <1>4, <2>2, <3>1 DEF IsFor
    <3>. QED  BY <1>4, <2>2, <3>1, <3>2
  <2>. QED  BY <1>3, <2>1, <2>2
<1>8. \A i \in 1 .. Len(l) : i <= at => l[i].crc
  BY <1>2, <1>3
<1>9. AllGood' => AllGood
  <2>. SUFFICES ASSUME AllGood', NEW i \in 1 .. Len(list) PROVE list[i].crc
    BY DEF AllGood
  <2>1. CASE i = at
    BY <1>2, <2>1
  <2>2. CASE i # at
    BY <1>0, <1>3, <2>2 DEF AllGood
  <2>. QED  BY <2>1, <2>2
<1>10. \A p \in Parameters, i \in 1 .. Len(l) :
         IsFor(i, p)' => \/ p = Parameter /\ p \in covered /\ l[i].data = ram[p]
                         \/ i \in 1 .. Len(list) /\ IsFor(i, p) /\ l[i] = list[i]
  <2>. SUFFICES ASSUME NEW p \in Parameters, NEW i \in 1 .. Len(l)
                PROVE  IsFor(i, p)' =>
                         \/ p = Parameter /\ p \in covered /\ l[i].data = ram[p]
                         \/ i \in 1 .. Len(list) /\ IsFor(i, p) /\ l[i] = list[i]
    OBVIOUS
  <2>. HAVE IsFor(i, p)'
  <2>0. l[i].app = p[1] /\ l[i].id = p[2]
    BY <1>0 DEF IsFor
  <2>1. CASE i = at
    <3>1. l[i] = block /\ block.id # Ignored
      BY <1>3, <2>0, <2>1, ConstantFacts
    <3>2. p = Parameter
      BY <1>4, <2>0, <3>1, ConstantFacts
    <3>. QED  BY <1>4, <3>1, <3>2
  <2>2. CASE i # at
    BY <1>3, <2>0, <2>2 DEF IsFor
  <2>. QED  BY <2>1, <2>2
<1>11. \A p \in Parameters, i \in 1 .. Len(list) :
         Holds(i, p) => i \in 1 .. Len(l) /\ Holds(i, p)' /\ (i # at => l[i] = list[i])
  <2>. SUFFICES ASSUME NEW p \in Parameters, NEW i \in 1 .. Len(list), Holds(i, p)
                PROVE  /\ i \in 1 .. Len(l) /\ l[i].app = p[1] /\ l[i].id = p[2]
                       /\ l[i].count = size[p] /\ (i # at => l[i] = list[i])
    BY <1>0, <1>6 DEF Holds
  <2>1. CASE i = at
    BY <1>2, <1>3, <1>4, <1>5, <2>1
  <2>2. CASE i # at
    BY <1>3, <2>2 DEF Holds
  <2>. QED  BY <2>1, <2>2
<1>12. Readable' = {i \in 1 .. Len(l) : \A j \in 1 .. i : l[j].crc}
  BY <1>0, <1>1, <1>2 DEF Readable
<1>13. ASSUME NEW p \in covered, p[2] < nextParamID
       PROVE  \E i \in Readable' : Holds(i, p)' /\ l[i].data = ram[p]
  <2>1. /\ p \in Parameters /\ p[1] = App
        /\ \/ \E i \in Readable : Holds(i, p) /\ list[i].data = ram[p]
           \/ block.id # Ignored /\ p[2] = nextParamID - 1
    BY <1>0, <1>2, <1>13 DEF IInv, Done, Beginning
  <2>2. ASSUME block.id # Ignored, p = Parameter
        PROVE  at \in Readable' /\ Holds(at, p)' /\ l[at].data = ram[p]
    <3>1. \A j \in 1 .. at : j \in 1 .. Len(l) /\ l[j].crc
      BY <1>2, <1>3, <1>8
    <3>2. at \in Readable'
      BY <1>3, <1>12, <3>1
    <3>3. /\ l[at].app = p[1] /\ l[at].id = p[2]
          /\ l[at].count = size[p] /\ l[at].data = ram[p]
      BY <1>3, <1>4, <2>2
    <3>. QED  BY <1>0, <1>6, <3>2, <3>3 DEF Holds
  <2>3. CASE block.id # Ignored /\ p[2] = nextParamID - 1
    BY <1>4, <2>1, <2>2, <2>3, ConstantFacts
  <2>4. ASSUME NEW i \in Readable, Holds(i, p), list[i].data = ram[p]
        PROVE  \E k \in Readable' : Holds(k, p)' /\ l[k].data = ram[p]
    <3>1. i \in 1 .. Len(list) /\ \A j \in 1 .. i : list[j].crc
      BY <1>2 DEF Readable
    <3>2. CASE i = at
      BY <1>2, <1>5, <2>1, <2>2, <2>4, <3>1, <3>2
    <3>3. CASE i # at
      <4>1. \A j \in 1 .. i : j \in 1 .. Len(l) /\ l[j].crc
        BY <1>2, <1>3, <3>1
      <4>2. i \in Readable'
        BY <1>12, <3>1, <4>1
      <4>. QED  BY <1>11, <2>1, <2>4, <3>1, <3>3, <4>2
    <3>. QED  BY <3>2, <3>3
  <2>. QED  BY <2>1, <2>3, <2>4
<1>14. version' = "good" /\ l \in Seq(Blocks)
       /\ closed' \in BOOLEAN
  BY <1>1, <1>2, <1>3
<1>15. \A p \in Parameters, i \in 1 .. Len(list) :
         Holds(i, p) => i \in 1 .. Len(l) /\ Holds(i, p)'
  BY <1>11
<1>. QED  BY <1>0, <1>3, <1>7, <1>8, <1>9, <1>10, <1>13, <1>14, <1>15

LEMMA OfferedWritten ==
  ASSUME IInv, io.op = "block", WriteDone, UNCHANGED <<ram, size>>, AllGood',
         NEW p \in Parameters
  PROVE  /\ \A i \in 1 .. Len(list') : IsFor(i, p)' => list'[i].data \in offered[p]
         /\ (\A i \in 1 .. Len(list') : ~Holds(i, p)') => Default \in offered[p]
<1>1. /\ \A i \in 1 .. Len(list) : IsFor(i, p) => list[i].data \in offered[p]
      /\ (\A i \in 1 .. Len(list) : ~Holds(i, p)) => Default \in offered[p]
  BY BlockWritten DEF IInv, Offered
<1>2. p \in covered => ram[p] \in offered[p]
  <2>1. paramState \in Saving
    BY UnderWay DEF Saving
  <2>. QED  BY <2>1 DEF IInv, Done
<1>3. ASSUME NEW i \in 1 .. Len(list'), IsFor(i, p)'
      PROVE  list'[i].data \in offered[p]
  <2>1. \/ p \in covered /\ list'[i].data = ram[p]
        \/ i \in 1 .. Len(list) /\ IsFor(i, p) /\ list'[i] = list[i]
    BY <1>3, BlockWritten
  <2>. QED  BY <1>1, <1>2, <2>1
<1>4. ASSUME \A i \in 1 .. Len(list') : ~Holds(i, p)'
      PROVE  Default \in offered[p]
  <2>1. ASSUME NEW i \in 1 .. Len(list), Holds(i, p) PROVE FALSE
    <3>1. i \in 1 .. Len(list') /\ Holds(i, p)'
      BY <2>1, BlockWritten
    <3>. QED  BY <1>4, <3>1
  <2>. QED  BY <1>1, <2>1
<1>. QED  BY <1>3, <1>4

(* findNextParameter leaves out no parameter of the save.                   *)
LEMMA SkippedFacts ==
  ASSUME IInv, paramState \in Saving, NEW n, n = NextUsed(App, nextParamID, Last)
  PROVE  /\ n \in Nat /\ nextParamID <= n
         /\ n <= Last => <<App, n>> \in Parameters
         /\ \A p \in covered : p[2] < n => p[2] < nextParamID
         /\ n > Last => \A p \in covered : p[2] < nextParamID
<1>1. TypeOK /\ App \in Nat /\ Last \in Nat /\ nextParamID \in Nat
  BY ListFacts DEF IInv
<1>2. /\ n \in Nat /\ nextParamID <= n
      /\ n <= Last => <<App, n>> \in Parameters
      /\ \A m \in Nat : nextParamID <= m /\ m < n => <<App, m>> \notin Parameters
  BY <1>1, NextUsedFacts
<1>3. \A p \in covered : /\ p \in Parameters /\ p[2] \in Nat /\ p[2] <= Last
                         /\ <<App, p[2]>> \in Parameters
  BY ConstantFacts DEF IInv, Done
<1>4. ASSUME NEW p \in covered, p[2] < n PROVE p[2] < nextParamID
  <2>1. p[2] \in Nat /\ <<App, p[2]>> \in Parameters
    BY <1>3
  <2>2. ~ (nextParamID <= p[2] /\ p[2] < n)
    BY <1>2, <2>1
  <2>. QED  BY <1>1, <1>4, <2>1, <2>2
<1>5. ASSUME n > Last, NEW p \in covered PROVE p[2] < nextParamID
  <2>. PICK m \in Nat : m = p[2] /\ m <= Last
    BY <1>3
  <2>1. n \in Nat /\ Last \in Nat /\ n > Last
    BY <1>1, <1>2, <1>5
  <2>2. m < n
    BY <2>1
  <2>. QED  BY <1>4, <2>2
<1>. QED  BY <1>2, <1>4, <1>5

(* A save that succeeds offers what it has stored, and that only.           *)
LEMMA SucceedsInv ==
  ASSUME IInv, paramState \in Saving, SaveSucceeds,
         version' = "good", list' \in Seq(Blocks), closed' \in BOOLEAN,
         currentBlock' \in Nat, nextParamID' \in Nat, UNCHANGED <<endAppParam, rescanRequired>>,
         Unique',
         \A p \in covered : \E i \in Readable' : Holds(i, p)' /\ list'[i].data = ram[p],
         AllGood' => \A p \in Parameters :
           /\ \A i \in 1 .. Len(list') : IsFor(i, p)' => list'[i].data \in offered[p]
           /\ (\A i \in 1 .. Len(list') : ~Holds(i, p)') => Default \in offered[p]
  PROVE  IInv'
<1>1. /\ paramState' = "IDLE" /\ io' = Nothing /\ saved' = "success" /\ covered' = {}
      /\ UNCHANGED <<ram, size, upgrades, restored>>
      /\ offered' = [p \in Parameters |-> IF p \in covered THEN {ram[p]} ELSE offered[p]]
  BY DEF SaveSucceeds, Finish
<1>2. restored = "none"
  BY DEF IInv, Results, Saving
<1>3. TypeOK'
  <2>1. offered' \in [Parameters -> SUBSET Values]
    BY <1>1 DEF IInv, TypeOK
  <2>. QED  BY <1>1, <2>1, OperationFacts DEF IInv, TypeOK
<1>4. Offered'
  <2>. SUFFICES ASSUME AllGood', NEW p \in Parameters
                PROVE  /\ \A i \in 1 .. Len(list') : IsFor(i, p)' => list'[i].data \in offered'[p]
                       /\ (\A i \in 1 .. Len(list') : ~Holds(i, p)') => Default \in offered'[p]
    BY DEF Offered
  <2>1. CASE p \notin covered
    <3>1. offered'[p] = offered[p]
      BY <1>1, <2>1
    <3>. QED  BY <3>1
  <2>2. CASE p \in covered
    <3>. PICK k \in Readable' : Holds(k, p)' /\ list'[k].data = ram[p]
      BY <2>2
    <3>1. k \in 1 .. Len(list')
      BY DEF Readable
    <3>2. offered'[p] = {ram[p]}
      BY <1>1, <2>2
    <3>3. \A i \in 1 .. Len(list') : IsFor(i, p)' => i = k
      BY <3>1, ConstantFacts, SMTT(30) DEF Unique, IsFor, Holds
    <3>. QED  BY <3>1, <3>2, <3>3
  <2>. QED  BY <2>1, <2>2
<1>. QED
  BY <1>1, <1>2, <1>3, <1>4
  DEF IInv, Version, Places, Passed, Done, Results, FailsOnlyTorn, Listing, Restoring, Saving

LEMMA ReplacedInv ==
  ASSUME IInv, Replaced
  PROVE  IInv'
<1>1. /\ TypeOK /\ io.op = "block" /\ io.at \in 1 .. Len(list) /\ currentBlock = io.at + 1
      /\ paramState = "SAVE_PARAMETERS" /\ paramState \in Saving
      /\ Len(list) \in Nat /\ nextParamID \in Nat /\ App \in Nat /\ Last \in Nat
  BY ListFacts DEF IInv, Places, Replaced, Saving
<1>2. /\ WriteDone /\ UNCHANGED <<ram, size, upgrades, restored, currentBlock, endAppParam,
                                  rescanRequired>>
      /\ App' = App /\ Last' = Last
  BY DEF Replaced, SaveSucceeds, Finish, clientVars, App, Last
<1>3. PICK n : n = NextUsed(App, nextParamID, Last) /\ n = nextParamID'
  BY DEF Replaced
<1>4. /\ n \in Nat /\ nextParamID <= n
      /\ n <= Last => <<App, n>> \in Parameters
      /\ \A p \in covered : p[2] < n => p[2] < nextParamID
      /\ n > Last => \A p \in covered : p[2] < nextParamID
  BY <1>1, <1>3, SkippedFacts
<1>5. /\ version' = "good" /\ list' \in Seq(Blocks) /\ closed' \in BOOLEAN
      /\ Len(list') = Len(list) /\ list'[io.at] = io.block
      /\ \A i \in 1 .. Len(list') : i # io.at => i \in 1 .. Len(list) /\ list'[i] = list[i]
      /\ \A i \in 1 .. Len(list') : i <= io.at => list'[i].crc
      /\ Unique'
      /\ \A p \in covered :
           p[2] < nextParamID =>
             \E i \in Readable' : Holds(i, p)' /\ list'[i].data = ram[p]
  BY <1>1, <1>2, BlockWritten
<1>6. AllGood' => \A p \in Parameters :
        /\ \A i \in 1 .. Len(list') : IsFor(i, p)' => list'[i].data \in offered[p]
        /\ (\A i \in 1 .. Len(list') : ~Holds(i, p)') => Default \in offered[p]
  BY <1>1, <1>2, OfferedWritten
<1>7. CASE n > Last
  <2>1. SaveSucceeds
    BY <1>3, <1>7 DEF Replaced
  <2>2. \A p \in covered : \E i \in Readable' : Holds(i, p)' /\ list'[i].data = ram[p]
    BY <1>4, <1>5, <1>7
  <2>3. currentBlock' \in Nat /\ nextParamID' \in Nat
    BY <1>1, <1>2, <1>3, <1>4
  <2>. QED  BY <1>1, <1>2, <1>5, <1>6, <2>1, <2>2, <2>3, SucceedsInv
<1>8. CASE n <= Last
  <2>1. /\ io' = Read /\ nextParamID' = n
        /\ UNCHANGED <<paramState, saved, covered, offered>>
    BY <1>3, <1>4, <1>8, <1>1 DEF Replaced, clientVars
  <2>2. TypeOK'
    BY <1>1, <1>2, <1>4, <1>5, <2>1, OperationFacts DEF TypeOK
  <2>3. Offered'
    BY <1>6, <2>1 DEF Offered
  <2>4. Places'
    <3>1. Target(nextParamID)'
      BY <1>2, <1>4, <1>8, <2>1 DEF Target
    <3>. QED  BY <1>1, <1>2, <1>5, <2>1, <3>1 DEF Places, Restoring
  <2>5. Passed'
    <3>. SUFFICES ASSUME ~rescanRequired, NEW i \in 1 .. Len(list'), i < currentBlock,
                         list'[i].app = App
                  PROVE  list'[i].id < n \/ list'[i].id = Ignored
      BY <1>2, <2>1 DEF Passed
    <3>1. CASE i = io.at
      <4>1. io.block.id # Ignored => io.block.id = nextParamID - 1
        BY <1>1, UnderWay, NewBlockFacts
      <4>. QED  BY <1>1, <1>4, <1>5, <3>1, <4>1
    <3>2. CASE i # io.at
      <4>1. i \in 1 .. Len(list) /\ list'[i] = list[i]
        BY <1>5, <3>2
      <4>2. list[i].id < nextParamID \/ list[i].id = Ignored
        BY <1>1, <3>2, <4>1 DEF IInv, Passed, Saving
      <4>. QED  BY <1>1, <1>4, <4>1, <4>2, ListFacts
    <3>. QED  BY <3>1, <3>2
  <2>6. Done'
    <3>1. \A p \in Parameters : p[1] = App /\ n <= p[2] /\ p[2] <= Last => p \in covered
      BY <1>1, <1>4, ConstantFacts DEF IInv, Done
    <3>2. \A p \in covered : p \in Parameters /\ p[1] = App /\ p[2] <= Last /\ ram[p] \in offered[p]
      BY <1>1 DEF IInv, Done
    <3>. QED  BY <1>2, <1>4, <1>5, <2>1, <3>1, <3>2 DEF Done
  <2>7. Version' /\ Results'
    BY <1>1, <1>2, <1>5, <2>1 DEF IInv, Version, Results, FailsOnlyTorn, Listing
  <2>. QED  BY <1>5, <2>2, <2>3, <2>4, <2>5, <2>6, <2>7 DEF IInv
<1>. QED  BY <1>1, <1>4, <1>7, <1>8

(* What is written behind the last block, or a closing block.               *)
LEMMA WrittenBehind ==
  ASSUME IInv, paramState \in {"SAVE_NEW_PARAMETERS", "SAVE_END_PARAM"}, WriteDone,
         UNCHANGED <<ram, size>>
  PROVE  /\ version' = "good" /\ list' \in Seq(Blocks) /\ closed' \in BOOLEAN
         /\ Len(list') \in Nat /\ currentBlock = Len(list') + 1
         /\ Unique' /\ AllGood'
         /\ \A p \in covered :
              p[2] < nextParamID =>
                \E i \in Readable' : Holds(i, p)' /\ list'[i].data = ram[p]
         /\ ~rescanRequired =>
              \A i \in 1 .. Len(list') :
                list'[i].app = App => list'[i].id < nextParamID \/ list'[i].id = Ignored
         /\ \A p \in Parameters :
              /\ \A i \in 1 .. Len(list') : IsFor(i, p)' => list'[i].data \in offered[p]
              /\ (\A i \in 1 .. Len(list') : ~Holds(i, p)') => Default \in offered[p]
<1>1. /\ TypeOK /\ Len(list) \in Nat /\ nextParamID \in Nat /\ AllGood
      /\ version = "good" /\ paramState \in Saving
      /\ \/ io = WriteEnd /\ currentBlock = Len(list) + 1
         \/ /\ io.op = "block" /\ io.at = Len(list) + 1 /\ currentBlock = Len(list) + 2
            /\ NewBlock
  BY ListFacts DEF IInv, Places, Version, Listing, Saving
<1>2. CASE io = WriteEnd /\ currentBlock = Len(list) + 1
  <2>1. list' = list /\ closed' = TRUE /\ version' = "good" /\ io.op = "end"
    <3>1. SubSeq(list, 1, currentBlock - 1) = list
      <4>1. list \in Seq(Blocks) /\ currentBlock - 1 = Len(list)
        BY <1>1, <1>2 DEF TypeOK
      <4>. QED  BY <4>1, SubSeqFull
    <3>. QED  BY <1>1, <1>2, <3>1, OperationFacts DEF WriteDone
  <2>2. Unique' /\ AllGood' /\ Readable' = Readable
    BY <1>1, <2>1 DEF IInv, Unique, AllGood, Readable
  <2>3. \A p, i : (Holds(i, p)' <=> Holds(i, p)) /\ (IsFor(i, p)' <=> IsFor(i, p))
    BY <2>1 DEF Holds, IsFor
  <2>4. \A p \in covered : p[2] < nextParamID =>
          \E i \in Readable : Holds(i, p) /\ list[i].data = ram[p]
    BY <1>1, <2>1 DEF IInv, Done, Beginning
  <2>5. ~rescanRequired =>
          \A i \in 1 .. Len(list) :
            list[i].app = App => list[i].id < nextParamID \/ list[i].id = Ignored
    BY <1>1, <1>2, <2>1 DEF IInv, Passed
  <2>6. \A p \in Parameters :
          /\ \A i \in 1 .. Len(list) : IsFor(i, p) => list[i].data \in offered[p]
          /\ (\A i \in 1 .. Len(list) : ~Holds(i, p)) => Default \in offered[p]
    BY <1>1 DEF IInv, Offered
  <2>7. list' \in Seq(Blocks)
    BY <1>1, <2>1 DEF TypeOK
  <2>. QED  BY <1>1, <1>2, <2>1, <2>2, <2>3, <2>4, <2>5, <2>6, <2>7
<1>3. CASE io.op = "block" /\ io.at = Len(list) + 1 /\ currentBlock = Len(list) + 2 /\ NewBlock
  <2>1. /\ version' = "good" /\ list' \in Seq(Blocks) /\ closed' \in BOOLEAN
        /\ Len(list') = Len(list) + 1 /\ list'[io.at] = io.block
        /\ \A i \in 1 .. Len(list') : i # io.at => i \in 1 .. Len(list) /\ list'[i] = list[i]
        /\ \A i \in 1 .. Len(list') : i <= io.at => list'[i].crc
        /\ Unique'
        /\ \A p \in covered :
             p[2] < nextParamID =>
               \E i \in Readable' : Holds(i, p)' /\ list'[i].data = ram[p]
    BY <1>1, <1>3, BlockWritten
  <2>2. AllGood'
    BY <1>1, <1>3, <2>1 DEF AllGood
  <2>3. \A p \in Parameters :
          /\ \A i \in 1 .. Len(list') : IsFor(i, p)' => list'[i].data \in offered[p]
          /\ (\A i \in 1 .. Len(list') : ~Holds(i, p)') => Default \in offered[p]
    BY <1>3, <2>2, OfferedWritten
  <2>4. ASSUME ~rescanRequired, NEW i \in 1 .. Len(list'), list'[i].app = App
        PROVE  list'[i].id < nextParamID \/ list'[i].id = Ignored
    <3>1. CASE i = io.at
      <4>1. io.block.id = nextParamID - 1
        BY <1>3, NewBlockFacts
      <4>. QED  BY <1>1, <2>1, <3>1, <4>1
    <3>2. CASE i # io.at
      <4>1. i \in 1 .. Len(list) /\ list'[i] = list[i]
        BY <2>1, <3>2
      <4>2. i < currentBlock
        BY <1>1, <1>3, <4>1
      <4>. QED  BY <1>1, <2>4, <3>2, <4>1, <4>2 DEF IInv, Passed
    <3>. QED  BY <3>1, <3>2
  <2>. QED  BY <1>1, <1>3, <2>1, <2>2, <2>3, <2>4
<1>. QED  BY <1>1, <1>2, <1>3

LEMMA AppendedInv ==
  ASSUME IInv, Appended
  PROVE  IInv'
<1>1. /\ TypeOK /\ paramState = "SAVE_NEW_PARAMETERS" /\ paramState \in Saving
      /\ nextParamID \in Nat /\ currentBlock \in Nat /\ App \in Nat /\ Last \in Nat
      /\ rescanRequired \in BOOLEAN
      /\ rescanRequired => Target(nextParamID)
      /\ restored = "none" /\ saved = "none"
  BY ListFacts DEF IInv, TypeOK, Places, Results, Appended, Saving
<1>2. /\ WriteDone
      /\ UNCHANGED <<endAppParam, rescanRequired, ram, size, upgrades, restored, saved, covered,
                     offered>>
      /\ App' = App /\ Last' = Last
  BY DEF Appended, clientVars, App, Last
<1>3. /\ version' = "good" /\ list' \in Seq(Blocks) /\ closed' \in BOOLEAN
      /\ Len(list') \in Nat /\ currentBlock = Len(list') + 1
      /\ Unique' /\ AllGood'
      /\ \A p \in covered :
           p[2] < nextParamID =>
             \E i \in Readable' : Holds(i, p)' /\ list'[i].data = ram[p]
      /\ ~rescanRequired =>
           \A i \in 1 .. Len(list') :
             list'[i].app = App => list'[i].id < nextParamID \/ list'[i].id = Ignored
      /\ \A p \in Parameters :
           /\ \A i \in 1 .. Len(list') : IsFor(i, p)' => list'[i].data \in offered[p]
           /\ (\A i \in 1 .. Len(list') : ~Holds(i, p)') => Default \in offered[p]
  BY <1>1, <1>2, WrittenBehind
<1>4. Offered'
  BY <1>2, <1>3 DEF Offered
<1>5. \A i \in 1 .. Len(list') : list'[i].id \in Nat
  <2>1. \A b \in Blocks : b.id \in Nat
    BY ConstantFacts DEF Blocks
  <2>. QED  BY <1>3, <2>1
<1>6. /\ \A p \in Parameters :
           p[1] = App /\ nextParamID <= p[2] /\ p[2] <= Last => p \in covered
      /\ \A p \in covered : p \in Parameters /\ p[1] = App /\ p[2] <= Last /\ ram[p] \in offered[p]
  BY <1>1 DEF IInv, Done
<1>7. PICK next : next = IF rescanRequired THEN nextParamID ELSE NextUsed(App, nextParamID, Last)
  OBVIOUS
<1>8. /\ next \in Nat /\ nextParamID <= next
      /\ ~rescanRequired /\ next <= Last => <<App, next>> \in Parameters
      /\ \A p \in covered : p[2] < next => p[2] < nextParamID
  BY <1>1, <1>7, SkippedFacts
<1>9. CASE rescanRequired \/ next > Last
  <2>1. /\ paramState' = "SAVE_END_PARAM" /\ io' = WriteEnd /\ nextParamID' = next
        /\ UNCHANGED currentBlock
    BY <1>7, <1>9 DEF Appended
  <2>2. TypeOK'
    BY <1>1, <1>2, <1>3, <1>8, <2>1, OperationFacts DEF TypeOK, Saving
  <2>3. Places'
    BY <1>1, <1>2, <1>3, <1>7, <1>9, <2>1 DEF Places, Target, Restoring
  <2>4. Passed'
    BY <1>1, <1>2, <1>3, <1>5, <1>8, <2>1 DEF Passed
  <2>5. Done'
    <3>1. \A p \in Parameters : p[1] = App /\ next <= p[2] /\ p[2] <= Last => p \in covered
      BY <1>1, <1>6, <1>8, ConstantFacts
    <3>. QED  BY <1>2, <1>3, <1>6, <1>8, <2>1, <3>1 DEF Done
  <2>6. Version' /\ Results'
    BY <1>1, <1>2, <1>3, <2>1 DEF Version, Results, FailsOnlyTorn, Listing
  <2>. QED  BY <1>3, <1>4, <2>2, <2>3, <2>4, <2>5, <2>6 DEF IInv
<1>10. CASE ~rescanRequired /\ next <= Last
  <2>1. PICK block : block = BlockOf(App, next)
    OBVIOUS
  <2>2. /\ paramState' = "SAVE_NEW_PARAMETERS" /\ io' = Write(currentBlock, block)
        /\ currentBlock' = currentBlock + 1 /\ nextParamID' = next + 1
    BY <1>1, <1>7, <1>8, <1>10, <2>1 DEF Appended
  <2>3. PICK p \in Parameters : p = <<App, next>> /\ p[1] = App /\ p[2] = next
    BY <1>8, <1>10
  <2>4. block \in Blocks /\ block.id = next /\ next # Ignored
    <3>1. SizeOf(App, next) \in Sizes
      BY <1>1, <2>3, SizeFacts
    <3>2. App \in Applications /\ next \in Identifiers /\ next # Ignored
      BY <2>3, ConstantFacts
    <3>3. ram[<<App, next>>] \in Values
      BY <1>1, <2>3 DEF TypeOK
    <3>. QED  BY <2>1, <3>1, <3>2, <3>3 DEF BlockOf, Blocks
  <2>5. /\ io' \in Operations /\ io'.op = "block" /\ io'.at = currentBlock /\ io'.block = block
    <3>1. currentBlock \in Nat /\ block \in Blocks /\ io' = Write(currentBlock, block)
      BY <1>1, <2>2, <2>4
    <3>. QED  BY <3>1, WriteFacts, Zenon
  <2>6. TypeOK'
    <3>1. currentBlock' \in Nat /\ nextParamID' \in Nat
      BY <1>1, <1>8, <2>2
    <3>. QED  BY <1>1, <1>2, <1>3, <2>2, <2>5, <3>1 DEF TypeOK, Saving
  <2>7. nextParamID' - 1 = next /\ next \in Nat /\ nextParamID' > 0
    BY <1>8, <2>2
  <2>8. p \in covered
    BY <1>6, <1>8, <1>10, <2>3
  <2>9. Places'
    <3>1. NewBlock'
      <4>1. BlockOf(App, nextParamID - 1)' = block
        BY <1>2, <2>1, <2>7 DEF BlockOf, SizeOf
      <4>2. Target(nextParamID - 1)'
        BY <1>2, <1>10, <2>3, <2>7 DEF Target
      <4>3. <<App, nextParamID - 1>>' \in covered'
        BY <1>2, <2>3, <2>7, <2>8
      <4>. QED  BY <2>5, <2>7, <4>1, <4>2, <4>3 DEF NewBlock
    <3>2. \A i \in 1 .. Len(list') : ~(list'[i].app = App /\ list'[i].id = next)
      BY <1>1, <1>3, <1>5, <1>8, <1>10, <2>4
    <3>3. \A i \in 1 .. Len(list') : ~IsFor(i, <<App, nextParamID - 1>>)'
      BY <1>2, <2>7, <3>2 DEF IsFor
    <3>4. /\ paramState' = "SAVE_NEW_PARAMETERS" /\ AllGood' /\ ~rescanRequired'
          /\ io'.op = "block" /\ io'.at = Len(list') + 1 /\ currentBlock' = Len(list') + 2
      BY <1>2, <1>3, <1>10, <2>2, <2>5
    <3>. QED  BY <3>1, <3>3, <3>4 DEF Places, Restoring
  <2>10. Passed'
    BY <1>1, <1>2, <1>3, <1>5, <1>8, <1>10, <2>2 DEF Passed
  <2>11. Done'
    <3>1. \A r \in Parameters : r[1] = App /\ next + 1 <= r[2] /\ r[2] <= Last => r \in covered
      BY <1>1, <1>6, <1>8, ConstantFacts
    <3>2. ASSUME NEW r \in covered, r[2] < next + 1, r[2] # next
          PROVE  \E i \in Readable' : Holds(i, r)' /\ list'[i].data = ram[r]
      <4>1. r[2] \in Nat
        BY <1>6, ConstantFacts
      <4>2. r[2] < next
        BY <1>8, <3>2, <4>1
      <4>. QED  BY <1>3, <1>8, <4>2
    <3>3. Beginning'
      BY <2>4, <2>5 DEF Beginning
    <3>. QED  BY <1>2, <1>6, <2>2, <2>7, <3>1, <3>2, <3>3 DEF Done
  <2>12. Version' /\ Results'
    BY <1>1, <1>2, <1>3, <2>2 DEF Version, Results, FailsOnlyTorn, Listing
  <2>. QED  BY <1>3, <1>4, <2>6, <2>9, <2>10, <2>11, <2>12 DEF IInv
<1>. QED  BY <1>1, <1>8, <1>9, <1>10

LEMMA EndWrittenInv ==
  ASSUME IInv, EndWritten
  PROVE  IInv'
<1>1. /\ TypeOK /\ paramState = "SAVE_END_PARAM" /\ paramState \in Saving
      /\ nextParamID \in Nat /\ currentBlock \in Nat /\ Last \in Nat
      /\ IF rescanRequired THEN Target(nextParamID) ELSE nextParamID > Last
      /\ restored = "none" /\ saved = "none"
  BY ListFacts DEF IInv, TypeOK, Places, Results, EndWritten, Saving
<1>2. /\ WriteDone /\ UNCHANGED <<nextParamID, endAppParam, ram, size, upgrades, restored>>
      /\ App' = App /\ Last' = Last
  BY DEF EndWritten, SaveSucceeds, Finish, clientVars, App, Last
<1>3. /\ version' = "good" /\ list' \in Seq(Blocks) /\ closed' \in BOOLEAN
      /\ Len(list') \in Nat /\ Unique' /\ AllGood'
      /\ \A p \in covered :
           p[2] < nextParamID =>
             \E i \in Readable' : Holds(i, p)' /\ list'[i].data = ram[p]
      /\ \A p \in Parameters :
           /\ \A i \in 1 .. Len(list') : IsFor(i, p)' => list'[i].data \in offered[p]
           /\ (\A i \in 1 .. Len(list') : ~Holds(i, p)') => Default \in offered[p]
  BY <1>1, <1>2, WrittenBehind
<1>4. CASE nextParamID > Last
  <2>1. SaveSucceeds /\ UNCHANGED <<currentBlock, rescanRequired>>
    BY <1>4 DEF EndWritten
  <2>2. \A p \in covered : p[2] < nextParamID
    <3>1. \A p \in covered : p \in Parameters /\ p[2] <= Last
      BY <1>1 DEF IInv, Done
    <3>. TAKE p \in covered
    <3>2. p[2] \in Nat /\ p[2] <= Last
      BY <3>1, ConstantFacts
    <3>. QED  BY <1>1, <1>4, <3>2
  <2>. QED  BY <1>1, <1>2, <1>3, <2>1, <2>2, SucceedsInv
<1>5. CASE nextParamID <= Last
  <2>1. /\ paramState' = "SAVE_PARAMETERS" /\ io' = Read /\ currentBlock' = 1
        /\ rescanRequired' = FALSE /\ UNCHANGED <<saved, covered, offered>> /\ Target(nextParamID)
    BY <1>1, <1>5 DEF EndWritten, clientVars
  <2>2. TypeOK'
    BY <1>1, <1>2, <1>3, <2>1, OperationFacts DEF TypeOK, Saving
  <2>3. Offered'
    BY <1>3, <2>1 DEF Offered
  <2>4. Places'
    BY <1>2, <1>3, <2>1 DEF Places, Target, Restoring
  <2>5. Passed'
    BY <2>1 DEF Passed
  <2>6. Done'
    BY <1>1, <1>2, <1>3, <2>1 DEF IInv, Done
  <2>7. Version' /\ Results'
    BY <1>1, <1>2, <1>3, <2>1 DEF Version, Results, FailsOnlyTorn, Listing
  <2>. QED  BY <1>3, <2>2, <2>3, <2>4, <2>5, <2>6, <2>7 DEF IInv
<1>. QED  BY <1>1, <1>4, <1>5
-----------------------------------------------------------------------------
(* What the power may leave of a write under way.                           *)
LEMMA TornFacts ==
  ASSUME IInv, Torn, UNCHANGED <<size, offered>>
  PROVE  /\ version' \in {"erased", "torn", "good"} /\ list' \in Seq(Blocks)
         /\ closed' \in BOOLEAN
         /\ version' # "good" => list' = << >>
         /\ Unique' /\ Offered'
<1>1. TypeOK /\ Len(list) \in Nat
  BY ListFacts DEF IInv
<1>2. CASE io.op = "version" /\ version' = "torn" /\ UNCHANGED <<list, closed>>
  <2>1. list = << >>
    BY <1>1, <1>2, OperationFacts DEF IInv, Places, Version, Restoring, Saving, TypeOK
  <2>. QED  BY <1>1, <1>2, <2>1 DEF IInv, TypeOK, Unique, Offered, AllGood, Holds, IsFor
<1>3. CASE /\ io.op = "block"
           /\ list' = Written(list, io.at, [io.block EXCEPT !.crc = FALSE])
           /\ closed' = (closed /\ io.at <= Len(list))
           /\ UNCHANGED version
  <2>1. PICK at, block, l : at = io.at /\ block = [io.block EXCEPT !.crc = FALSE] /\ l = list'
    OBVIOUS
  <2>2. /\ version = "good" /\ at \in 1 .. Len(list) + 1
        /\ block \in Blocks /\ block.crc = FALSE
        /\ block.app = io.block.app /\ block.id = io.block.id
    BY <1>3, <2>1, UnderWay DEF Blocks
  <2>3. l = Written(list, at, block)
    BY <1>3, <2>1
  <2>4. l \in Seq(Blocks) /\ at \in 1 .. Len(l) /\ l[at] = block
    <3>1. TypeOK /\ at \in 1 .. Len(list) + 1 /\ block \in Blocks
      BY <1>1, <2>2
    <3>. QED  BY <3>1, <2>3, ListWritten
  <2>5. ASSUME NEW i \in 1 .. Len(l), i # at
        PROVE  i \in 1 .. Len(list) /\ l[i] = list[i]
    <3>1. TypeOK /\ at \in 1 .. Len(list) + 1 /\ block \in Blocks
      BY <1>1, <2>2
    <3>. QED  BY <2>3, <2>5, <3>1, ListWritten
  <2>6. block.id # Ignored =>
          /\ \A i \in 1 .. Len(list) : IsFor(i, Parameter) => i = at
          /\ block.app = Parameter[1] /\ block.id = Parameter[2]
    BY <1>3, <2>1, <2>2, UnderWay, NewBlockFacts
  <2>7. Unique'
    <3>. SUFFICES ASSUME NEW i \in 1 .. Len(l), NEW j \in 1 .. Len(l),
                         l[i].app = l[j].app, l[i].id = l[j].id, i # j, l[i].id # Ignored
                  PROVE  FALSE
      BY <2>1 DEF Unique
    <3>1. CASE i # at /\ j # at
      BY <2>5, <3>1 DEF IInv, Unique
    <3>2. ASSUME NEW k \in 1 .. Len(l), k # at, l[k].app = block.app, l[k].id = block.id,
                 block.id # Ignored
          PROVE  FALSE
      <4>1. k \in 1 .. Len(list) /\ l[k] = list[k]
        BY <2>5, <3>2
      <4>2. IsFor(k, Parameter)
        BY <2>6, <3>2, <4>1 DEF IsFor
      <4>. QED  BY <2>6, <3>2, <4>1, <4>2
    <3>. QED  BY <2>4, <3>1, <3>2
  <2>8. ~AllGood'
    BY <2>1, <2>2, <2>4 DEF AllGood
  <2>. QED  BY <1>1, <1>3, <2>1, <2>2, <2>4, <2>7, <2>8 DEF TypeOK, Offered
<1>4. CASE io.op = "block" /\ closed' = FALSE /\ UNCHANGED <<version, list>>
  BY <1>4 DEF IInv, TypeOK, Version, Unique, Offered, AllGood, Holds, IsFor
<1>. QED  BY <1>2, <1>3, <1>4 DEF Torn

LEMMA PowerFailsInv ==
  ASSUME IInv, PowerFails
  PROVE  IInv'
<1>1. /\ paramState' = "NEVER_STARTED" /\ io' = Nothing /\ covered' = {}
      /\ currentBlock' = 0 /\ nextParamID' = 0 /\ endAppParam' = <<0, 0>>
      /\ rescanRequired' = FALSE
      /\ ram' = [p \in Parameters |-> Default] /\ restored' = "none" /\ saved' = "none"
      /\ UNCHANGED <<size, upgrades, offered>>
  BY DEF PowerFails
<1>2. /\ version' \in {"erased", "torn", "good"} /\ list' \in Seq(Blocks)
      /\ closed' \in BOOLEAN
      /\ version' # "good" => list' = << >>
      /\ Unique' /\ Offered'
  <2>1. CASE Torn
    BY <1>1, <2>1, TornFacts
  <2>2. CASE UNCHANGED memoryVars
    BY <1>1, <2>2
    DEF IInv, TypeOK, Version, Unique, Offered, AllGood, Holds, IsFor, memoryVars
  <2>. QED  BY <2>1, <2>2 DEF PowerFails
<1>3. TypeOK'
  <2>1. ram' \in [Parameters -> Values] /\ <<0, 0>> \in Nat \X Nat
    BY <1>1, ConstantFacts
  <2>. QED  BY <1>1, <1>2, <2>1, OperationFacts DEF IInv, TypeOK
<1>. QED
  BY <1>1, <1>2, <1>3
  DEF IInv, Version, Places, Passed, Done, Results, FailsOnlyTorn, Listing, Restoring, Saving

LEMMA StutterInv ==
  ASSUME IInv, UNCHANGED vars
  PROVE  IInv'
<1>. USE DEF IInv, vars, memoryVars, clientVars
<1>1. TypeOK'
  BY DEF TypeOK
<1>2. Unique' /\ Version' /\ Passed'
  BY DEF Unique, Version, Passed, App
<1>3. Places'
  BY DEF Places, AllGood, NewBlock, Replacing, Disabling, Target, Holds, IsFor, BlockOf,
         SizeOf, App, Last
<1>4. Done'
  BY DEF Done, Beginning, Readable, Holds, App, Last
<1>5. Offered'
  BY DEF Offered, AllGood, IsFor, Holds
<1>6. Results'
  BY DEF Results, AllGood, Loaded, FailsOnlyTorn, Holds
<1>. QED  BY <1>1, <1>2, <1>3, <1>4, <1>5, <1>6

LEMMA StepInv == IInv /\ [Next]_vars => IInv'
<1>. SUFFICES ASSUME IInv, [Next]_vars PROVE IInv'
  OBVIOUS
<1>1. CASE Driver
  BY <1>1, StartInv, ReadVersionInv, ReadParameterInv, SaveVersionInv, VersionWrittenInv,
     ScanEndsInv, ScanFailsInv, ScanReplacesInv, ScanDisablesInv, ScanPassesInv, ReplacedInv,
     AppendedInv, EndWrittenInv
  DEF Driver
<1>2. CASE \E p \in Changed, v \in Values : Set(p, v)
  BY <1>2, SetInv
<1>3. CASE \E p, q \in Parameters : p[1] = q[1] /\ Save(p[1], p[2], q[2])
  BY <1>3, SaveInv
<1>4. CASE PowerFails
  BY <1>4, PowerFailsInv
<1>5. CASE \E p \in Resized, n \in Sizes : Upgrade(p, n)
  BY <1>5, UpgradeInv
<1>6. CASE UNCHANGED vars
  BY <1>6, StutterInv
<1>. QED  BY <1>1, <1>2, <1>3, <1>4, <1>5, <1>6 DEF Next

LEMMA Invariance == Spec => []IInv
<1>1. Init => IInv
  BY InitInv
<1>2. IInv /\ [Next]_vars => IInv'
  BY StepInv
<1>. QED  BY <1>1, <1>2, PTL DEF Spec

(* Every variable has a value of its type, wherever the power fails.        *)
THEOREM TypeCorrect == Spec => []TypeOK
<1>1. IInv => TypeOK
  BY DEF IInv
<1>. QED  BY <1>1, Invariance, PTL

(* A save is refused only over a block that a write cut short has left, or  *)
(* over such a version block.                                               *)
THEOREM FailsOnlyTornAlways == Spec => []FailsOnlyTorn
<1>1. IInv => FailsOnlyTorn
  BY DEF IInv, Results
<1>. QED  BY <1>1, Invariance, PTL

(* A restore that reports success has brought back, for every parameter,    *)
(* the value saved last or that of a save which did not report success.     *)
THEOREM RestoreCompleteAlways == Spec => []RestoreComplete
<1>1. IInv => RestoreComplete
  <2>. SUFFICES ASSUME IInv, restored = "success", NEW p \in Parameters
                PROVE  ram[p] \in offered[p]
    BY DEF RestoreComplete
  <2>1. /\ \A i \in 1 .. Len(list) : Holds(i, p) => ram[p] = list[i].data
        /\ (\A i \in 1 .. Len(list) : ~Holds(i, p)) => ram[p] = Default
        /\ AllGood
    BY DEF IInv, Results, Loaded
  <2>2. /\ \A i \in 1 .. Len(list) : IsFor(i, p) => list[i].data \in offered[p]
        /\ (\A i \in 1 .. Len(list) : ~Holds(i, p)) => Default \in offered[p]
    BY <2>1 DEF IInv, Offered
  <2>3. \A i : Holds(i, p) => IsFor(i, p)
    BY DEF Holds, IsFor
  <2>. QED  BY <2>1, <2>2, <2>3
<1>. QED  BY <1>1, Invariance, PTL
-----------------------------------------------------------------------------
(* What a restart brings back: the block of the parameter, if it gets to it.*)
LEMMA StoredFacts ==
  ASSUME TypeOK, Unique, NEW p \in Parameters
  PROVE  /\ \A i \in Readable : Holds(i, p) => Stored[p] = list[i].data
         /\ (\A i \in Readable : ~Holds(i, p)) => Stored[p] = Default
         /\ Stored[p] \in Values
<1>. DEFINE last(i) == Holds(i, p) /\ \A j \in Readable : Holds(j, p) => j <= i
<1>1. Readable \subseteq 1 .. Len(list) /\ Len(list) \in Nat
  BY ListFacts DEF Readable
<1>2. \A i, j \in Readable : Holds(i, p) /\ Holds(j, p) => i = j
  BY <1>1, ConstantFacts DEF Unique, Holds
<1>3. Stored[p] = IF \E i \in Readable : Holds(i, p)
                  THEN list[CHOOSE i \in Readable : last(i)].data
                  ELSE Default
  BY DEF Stored
<1>4. ASSUME NEW i \in Readable, Holds(i, p)
      PROVE  Stored[p] = list[i].data /\ Stored[p] \in Values
  <2>1. last(i)
    BY <1>1, <1>2, <1>4
  <2>2. \A j \in Readable : last(j) => j = i
    BY <1>2, <1>4
  <2>3. PICK c : c = CHOOSE k \in Readable : last(k)
    OBVIOUS
  <2>4. c \in Readable /\ last(c)
    <3>. HIDE DEF last
    <3>. QED  BY <2>1, <2>3
  <2>5. c = i
    BY <2>2, <2>4
  <2>. QED  BY <1>1, <1>3, <1>4, <2>3, <2>5, ListFacts
<1>5. (\A i \in Readable : ~Holds(i, p)) => Stored[p] = Default
  BY <1>3
<1>. QED  BY <1>4, <1>5, ConstantFacts

StoredFits ==
  \A p \in Parameters :
    /\ \A i \in Readable : Holds(i, p) => Stored[p] = list[i].data
    /\ (\A i \in Readable : ~Holds(i, p)) => Stored[p] = Default
    /\ Stored[p] \in Values

LEMMA StoredNow == IInv => StoredFits
<1>. SUFFICES ASSUME IInv, NEW p \in Parameters
              PROVE  /\ \A i \in Readable : Holds(i, p) => Stored[p] = list[i].data
                     /\ (\A i \in Readable : ~Holds(i, p)) => Stored[p] = Default
                     /\ Stored[p] \in Values
  BY DEF StoredFits
<1>. QED  BY StoredFacts DEF IInv

LEMMA StoredThen == IInv' => StoredFits'
BY StoredNow, PTL

LEMMA StoredSame ==
  ASSUME UNCHANGED <<version, list, size>>
  PROVE  Stored' = Stored
<1>1. Readable' = Readable
  BY DEF Readable
<1>2. \A i, p : Holds(i, p)' <=> Holds(i, p)
  BY DEF Holds
<1>. QED  BY <1>1, <1>2 DEF Stored, Readable, Holds

(* A block of a parameter that is written stores its value, one that is     *)
(* disabled stores nothing.                                                 *)
LEMMA StoredWritten ==
  ASSUME IInv, IInv', io.op = "block", WriteDone, UNCHANGED <<ram, size>>
  PROVE  /\ io.block.id # Ignored =>
              Parameter \in Parameters /\ Stored' = [Stored EXCEPT ![Parameter] = ram[Parameter]]
         /\ io.block.id = Ignored => Stored' = Stored
<1>1. PICK at, block : at = io.at /\ block = io.block
  OBVIOUS
<1>2. /\ version = "good" /\ at \in 1 .. Len(list) + 1 /\ Len(list) \in Nat
      /\ block.crc = TRUE
      /\ \A i \in 1 .. Len(list) : i <= at => list[i].crc
      /\ block.id # Ignored => NewBlock
      /\ \A p \in Parameters :
           at <= Len(list) /\ Holds(at, p) => block.id # Ignored /\ p = Parameter
  BY <1>1, UnderWay, ListFacts DEF IInv
<1>3. /\ version' = "good" /\ Len(list') \in Nat
      /\ at \in 1 .. Len(list') /\ list'[at] = block
      /\ \A i \in 1 .. Len(list') : i # at => i \in 1 .. Len(list) /\ list'[i] = list[i]
      /\ \A i \in 1 .. Len(list) : i \in 1 .. Len(list')
      /\ \A i \in 1 .. Len(list') : i <= at => list'[i].crc
  BY <1>1, <1>2, BlockWritten
<1>4. /\ Readable = {i \in 1 .. Len(list) : \A j \in 1 .. i : list[j].crc}
      /\ Readable' = {i \in 1 .. Len(list') : \A j \in 1 .. i : list'[j].crc}
  BY <1>2, <1>3 DEF Readable
<1>5. ASSUME NEW p \in Parameters, block.id # Ignored, p = Parameter
      PROVE  Stored'[p] = ram[p]
  <2>1. /\ Parameter[1] = App /\ Parameter[2] = nextParamID - 1
        /\ block.app = App /\ block.id = nextParamID - 1
        /\ block.count = size[Parameter] /\ block.data = ram[Parameter]
    BY <1>1, <1>2, <1>5, NewBlockFacts
  <2>2. \A j \in 1 .. at : j \in 1 .. Len(list')
    BY <1>3
  <2>3. at \in Readable'
    BY <1>3, <1>4, <2>2
  <2>4. Holds(at, p)'
    BY <1>3, <1>5, <2>1 DEF Holds
  <2>. QED  BY <1>3, <1>5, <2>1, <2>3, <2>4, StoredThen DEF StoredFits
<1>6. ASSUME NEW p \in Parameters, ~(block.id # Ignored /\ p = Parameter)
      PROVE  Stored'[p] = Stored[p]
  <2>1. ASSUME NEW i \in Readable, Holds(i, p)
        PROVE  i \in Readable' /\ Holds(i, p)' /\ list'[i] = list[i]
    <3>1. i \in 1 .. Len(list) /\ \A j \in 1 .. i : list[j].crc
      BY <1>4
    <3>2. i # at
      BY <1>2, <1>6, <2>1, <3>1
    <3>3. i \in 1 .. Len(list') /\ list'[i] = list[i]
      BY <1>3, <3>1, <3>2
    <3>4. \A j \in 1 .. i : j \in 1 .. Len(list') /\ list'[j].crc
      BY <1>2, <1>3, <3>1
    <3>. QED  BY <1>4, <2>1, <3>3, <3>4 DEF Holds
  <2>2. ASSUME NEW i \in Readable', Holds(i, p)'
        PROVE  i \in Readable /\ Holds(i, p)
    <3>1. i \in 1 .. Len(list')
      BY <1>4
    <3>2. i # at
      <4>1. p[2] # Ignored /\ list'[i].id = p[2] /\ list'[i].app = p[1]
        BY <2>2, ConstantFacts DEF Holds
      <4>2. block.id # Ignored => Parameter = <<block.app, block.id>>
        BY <1>1, <1>2, NewBlockFacts DEF Parameter
      <4>. QED  BY <1>3, <1>6, <4>1, <4>2, ConstantFacts
    <3>3. i \in 1 .. Len(list) /\ list'[i] = list[i]
      BY <1>3, <3>1, <3>2
    <3>4. \A j \in 1 .. i : list[j].crc
      <4>. TAKE j \in 1 .. i
      <4>1. j \in 1 .. Len(list) /\ j \in 1 .. Len(list') /\ list'[j].crc
        BY <1>2, <1>3, <1>4, <3>1, <3>3
      <4>2. CASE j = at
        BY <1>2, <4>1, <4>2
      <4>3. CASE j # at
        BY <1>3, <4>1, <4>3
      <4>. QED  BY <4>2, <4>3
    <3>. QED  BY <1>4, <2>2, <3>3, <3>4 DEF Holds
  <2>3. CASE \E i \in Readable : Holds(i, p)
    <3>. PICK i \in Readable : Holds(i, p)
      BY <2>3
    <3>1. i \in Readable' /\ Holds(i, p)' /\ list'[i] = list[i]
      BY <2>1
    <3>. QED  BY <3>1, StoredNow, StoredThen DEF StoredFits
  <2>4. CASE \A i \in Readable : ~Holds(i, p)
    <3>1. \A i \in Readable' : ~Holds(i, p)'
      BY <2>2, <2>4
    <3>. QED  BY <2>4, <3>1, StoredNow, StoredThen DEF StoredFits
  <2>. QED  BY <2>3, <2>4
<1>7. Stored = [p \in Parameters |-> Stored[p]] /\ Stored' = [p \in Parameters |-> Stored'[p]]
  BY DEF Stored
<1>8. CASE block.id # Ignored
  <2>1. Parameter \in Parameters
    BY <1>1, <1>2, <1>8, NewBlockFacts
  <2>. QED  BY <1>1, <1>5, <1>6, <1>7, <1>8, <2>1
<1>9. CASE block.id = Ignored
  BY <1>1, <1>6, <1>7, <1>9
<1>. QED  BY <1>1, <1>8, <1>9
-----------------------------------------------------------------------------
(* The steps of the contract.                                               *)
Stutters == UNCHANGED <<ram, Stored, paramState \in Saving>>

Contract == Stable!Next \/ Stutters

LEMMA ContractStutter ==
  ASSUME UNCHANGED <<ram, version, list, size>>, paramState' \in Saving <=> paramState \in Saving
  PROVE  Contract
<1>1. Stored' = Stored
  BY StoredSame
<1>2. (paramState \in Saving)' = (paramState \in Saving)
  OBVIOUS
<1>. QED  BY <1>1, <1>2 DEF Contract, Stutters

LEMMA ContractEnds ==
  ASSUME UNCHANGED ram, Stored' = Stored, paramState \in Saving, paramState' \notin Saving
  PROVE  Contract
<1>1. (paramState \in Saving)' = FALSE
  OBVIOUS
<1>. QED  BY <1>1 DEF Contract, Stable!Next, Stable!SaveEnds

LEMMA ContractStores ==
  ASSUME NEW p \in Parameters, paramState \in Saving, UNCHANGED ram,
         Stored' = [Stored EXCEPT ![p] = ram[p]]
  PROVE  Contract
<1>1. (paramState \in Saving)' \in BOOLEAN
  OBVIOUS
<1>2. Stable!SaveStores(p)
  BY <1>1 DEF Stable!SaveStores
<1>. QED  BY <1>2 DEF Contract, Stable!Next

LEMMA ContractRestarts ==
  ASSUME paramState' \notin Saving, ram' = [p \in Parameters |-> Default],
         \A p \in Parameters : Stored'[p] = Stored[p] \/ Stored'[p] = Default,
         paramState \notin Saving => Stored' = Stored
  PROVE  Contract
<1>. DEFINE lost == IF paramState \in Saving THEN {p \in Parameters : Stored'[p] = Default} ELSE {}
<1>1. (paramState \in Saving)' = FALSE
  OBVIOUS
<1>2. lost \in SUBSET Parameters /\ (lost = {} \/ paramState \in Saving)
  OBVIOUS
<1>3. Stored' = [p \in Parameters |-> Stored'[p]] /\ Stored = [p \in Parameters |-> Stored[p]]
  BY DEF Stored
<1>4. Stored' = [p \in Parameters |-> IF p \in lost THEN Default ELSE Stored[p]]
  BY <1>3
<1>5. PICK l \in SUBSET Parameters : l = lost
  BY <1>2
<1>. HIDE DEF lost
<1>6. Stable!Restart(l)
  BY <1>1, <1>2, <1>4, <1>5 DEF Stable!Restart
<1>. QED  BY <1>6 DEF Contract, Stable!Next

LEMMA InitContract == Init => Stable!Init
<1>. SUFFICES ASSUME Init PROVE Stable!Init
  OBVIOUS
<1>1. Readable = {}
  BY DEF Init, Readable
<1>2. Stored = [p \in Parameters |-> Default]
  BY <1>1 DEF Stored
<1>3. (paramState \in Saving) = FALSE
  BY DEF Init, Saving
<1>. QED  BY <1>2, <1>3 DEF Init, Stable!Init

LEMMA QuietContract ==
  ASSUME Start \/ ReadVersion \/ ScanEnds \/ ScanReplaces \/ ScanDisables \/ ScanPasses
  PROVE  Contract
<1>1. UNCHANGED <<ram, version, list, size>>
  BY DEF Start, ReadVersion, ScanEnds, ScanReplaces, ScanDisables, ScanPasses, memoryVars, clientVars
<1>2. paramState' \in Saving <=> paramState \in Saving
  BY DEF Start, ReadVersion, ScanEnds, ScanReplaces, ScanDisables, ScanPasses, Scanning, Saving
<1>. QED  BY <1>1, <1>2, ContractStutter

LEMMA ReadParameterContract ==
  ASSUME IInv, ReadParameter
  PROVE  Contract
<1>1. /\ TypeOK /\ version = "good" /\ Len(list) \in Nat
      /\ currentBlock \in 1 .. Len(list) + 1
      /\ \A i \in 1 .. currentBlock - 1 : list[i].crc
  BY ListFacts DEF IInv, Version, Places, Listing, ReadParameter
<1>2. UNCHANGED <<version, list, size>> /\ Stored' = Stored
  BY StoredSame DEF ReadParameter, memoryVars
<1>3. paramState \notin Saving /\ paramState' \notin Saving
  BY DEF ReadParameter, RestoreDone, Saving
<1>4. CASE UNCHANGED ram
  BY <1>2, <1>3, <1>4, ContractStutter
<1>5. CASE /\ ~AtEnd /\ Block.crc /\ Fits
           /\ ram' = [ram EXCEPT ![<<Block.app, Block.id>>] = Block.data]
  <2>1. currentBlock \in 1 .. Len(list) /\ Block = list[currentBlock] /\ Block \in Blocks
    BY <1>1, <1>5, ListFacts DEF AtEnd, Block
  <2>2. PICK p \in Parameters : p = <<Block.app, Block.id>> /\ p[1] = Block.app /\ p[2] = Block.id
    BY <1>1, <1>5, <2>1, SizeFacts, ConstantFacts DEF Fits, Blocks
  <2>3. Holds(currentBlock, p)
    BY <1>1, <1>5, <2>1, <2>2, SizeFacts DEF Fits, Holds
  <2>4. currentBlock \in Readable
    BY <1>1, <1>5, <2>1 DEF Readable
  <2>5. Stored[p] = Block.data
    BY <2>1, <2>3, <2>4, StoredNow DEF StoredFits
  <2>6. (paramState \in Saving)' = (paramState \in Saving)
    BY <1>3
  <2>7. Stable!Load(p)
    BY <1>2, <1>3, <1>5, <2>2, <2>5, <2>6 DEF Stable!Load
  <2>. QED  BY <2>7 DEF Contract, Stable!Next
<1>. QED  BY <1>4, <1>5 DEF ReadParameter, RestoreDone

LEMMA SetContract ==
  ASSUME NEW p \in Changed, NEW v \in Values, Set(p, v)
  PROVE  Contract
<1>1. Stored' = Stored
  BY StoredSame DEF Set, memoryVars
<1>2. paramState \notin Saving /\ (paramState \in Saving)' = (paramState \in Saving)
  BY DEF Set, Saving
<1>3. Stable!Set(p, v)
  BY <1>1, <1>2 DEF Set, Stable!Set
<1>. QED  BY <1>3, StoreAssumption DEF Contract, Stable!Next

LEMMA SaveContract ==
  ASSUME NEW app, NEW first, NEW last, Save(app, first, last)
  PROVE  Contract
<1>1. Stored' = Stored
  BY StoredSame DEF Save, memoryVars
<1>2. paramState \notin Saving /\ (paramState \in Saving)' = TRUE
  BY DEF Save, Saving
<1>3. Stable!SaveBegins
  BY <1>1, <1>2 DEF Save, Stable!SaveBegins
<1>. QED  BY <1>3 DEF Contract, Stable!Next

LEMMA SaveVersionContract ==
  ASSUME SaveVersion
  PROVE  Contract
<1>1. UNCHANGED <<ram, version, list, size>> /\ paramState \in Saving
  BY DEF SaveVersion, Finish, memoryVars, clientVars, Saving
<1>2. CASE paramState' \in Saving
  BY <1>1, <1>2, ContractStutter
<1>3. CASE paramState' \notin Saving
  BY <1>1, <1>3, StoredSame, ContractEnds
<1>. QED  BY <1>2, <1>3

LEMMA ScanFailsContract ==
  ASSUME ScanFails
  PROVE  Contract
<1>1. UNCHANGED <<ram, version, list, size>> /\ paramState \in Saving /\ paramState' \notin Saving
  BY DEF ScanFails, Scanning, Finish, memoryVars, Saving
<1>. QED  BY <1>1, StoredSame, ContractEnds

(* An empty list stores nothing.                                            *)
LEMMA StoredNothing ==
  ASSUME list = << >>
  PROVE  Stored = [p \in Parameters |-> Default]
<1>1. Readable = {}
  BY DEF Readable
<1>. QED  BY <1>1 DEF Stored

LEMMA StoredNothingThen ==
  ASSUME list' = << >>
  PROVE  Stored' = [p \in Parameters |-> Default]
<1>1. Readable' = {}
  BY DEF Readable
<1>. QED  BY <1>1 DEF Stored

LEMMA VersionWrittenContract ==
  ASSUME IInv, VersionWritten
  PROVE  Contract
<1>1. list = << >> /\ list' = << >> /\ UNCHANGED ram
  <2>1. io = WriteVersion /\ list = << >>
    BY DEF IInv, Places, Version, VersionWritten
  <2>. QED  BY <2>1, OperationFacts DEF VersionWritten, WriteDone, clientVars
<1>2. Stored' = Stored
  BY <1>1, StoredNothing, StoredNothingThen
<1>3. (paramState \in Saving)' = (paramState \in Saving)
  BY DEF VersionWritten, Saving
<1>. QED  BY <1>1, <1>2, <1>3 DEF Contract, Stutters

(* A block is written, or the closing block.                                *)
LEMMA WriteContract ==
  ASSUME IInv, IInv', Replaced \/ Appended \/ EndWritten
  PROVE  Contract
<1>1. WriteDone /\ UNCHANGED <<ram, size>> /\ paramState \in Saving
  BY DEF Replaced, Appended, EndWritten, SaveSucceeds, Finish, clientVars, Saving
<1>2. CASE io.op = "block"
  <2>1. PICK p : p = Parameter
    OBVIOUS
  <2>2. CASE io.block.id # Ignored
    <3>1. p \in Parameters /\ Stored' = [Stored EXCEPT ![p] = ram[p]]
      BY <1>1, <1>2, <2>1, <2>2, StoredWritten
    <3>. QED  BY <1>1, <3>1, ContractStores
  <2>3. CASE io.block.id = Ignored
    <3>1. Stored' = Stored
      BY <1>1, <1>2, <2>3, StoredWritten
    <3>2. CASE paramState' \notin Saving
      BY <1>1, <3>1, <3>2, ContractEnds
    <3>3. CASE paramState' \in Saving
      <4>1. (paramState \in Saving)' = (paramState \in Saving)
        BY <1>1, <3>3
      <4>. QED  BY <1>1, <3>1, <4>1 DEF Contract, Stutters
    <3>. QED  BY <3>2, <3>3
  <2>. QED  BY <2>2, <2>3
<1>3. CASE io = WriteEnd /\ currentBlock = Len(list) + 1
  <2>1. list \in Seq(Blocks) /\ Len(list) \in Nat /\ currentBlock - 1 = Len(list)
    BY <1>3, ListFacts DEF IInv, TypeOK
  <2>2. list' = SubSeq(list, 1, currentBlock - 1) /\ version' = version
    BY <1>1, <1>3, OperationFacts DEF WriteDone
  <2>3. list' = list
    BY <2>1, <2>2, SubSeqFull
  <2>4. CASE paramState' \notin Saving
    BY <1>1, <2>2, <2>3, <2>4, StoredSame, ContractEnds
  <2>5. CASE paramState' \in Saving
    BY <1>1, <2>2, <2>3, <2>5, ContractStutter
  <2>. QED  BY <2>4, <2>5
<1>. QED  BY <1>2, <1>3 DEF IInv, Places, Replaced, Appended, EndWritten

(* A write cut short leaves at worst a block that no restart gets behind.   *)
LEMMA PowerFailsContract ==
  ASSUME IInv, IInv', PowerFails
  PROVE  Contract
<1>1. /\ paramState' \notin Saving /\ ram' = [p \in Parameters |-> Default] /\ UNCHANGED size
      /\ Torn \/ UNCHANGED memoryVars
  BY DEF PowerFails, Saving
<1>2. CASE Stored' = Stored
  BY <1>1, <1>2, ContractRestarts
<1>3. CASE UNCHANGED memoryVars
  BY <1>1, <1>2, <1>3, StoredSame DEF memoryVars
<1>4. CASE io.op = "version" /\ UNCHANGED list
  <2>1. list = << >>
    BY <1>4, OperationFacts DEF IInv, TypeOK, Places, Version, Restoring, Saving
  <2>. QED  BY <1>2, <1>4, <2>1, StoredNothing, StoredNothingThen
<1>5. CASE UNCHANGED <<version, list>>
  BY <1>1, <1>2, <1>5, StoredSame
<1>6. CASE io.op = "block" /\ list' = Written(list, io.at, [io.block EXCEPT !.crc = FALSE])
           /\ UNCHANGED version
  <2>1. PICK at, block, l : at = io.at /\ block = [io.block EXCEPT !.crc = FALSE] /\ l = list'
    OBVIOUS
  <2>2. /\ TypeOK /\ Len(list) \in Nat /\ version = "good" /\ paramState \in Saving
        /\ at \in 1 .. Len(list) + 1 /\ block \in Blocks /\ block.crc = FALSE
    BY <1>6, <2>1, UnderWay, ListFacts DEF IInv, Blocks, Saving
  <2>3. l = Written(list, at, block)
    BY <1>6, <2>1
  <2>4. at \in 1 .. Len(l) /\ l[at] = block
    <3>1. TypeOK /\ at \in 1 .. Len(list) + 1 /\ block \in Blocks
      BY <2>2
    <3>. QED  BY <3>1, <2>3, ListWritten
  <2>5. ASSUME NEW i \in 1 .. Len(l), i # at
        PROVE  i \in 1 .. Len(list) /\ l[i] = list[i]
    <3>1. TypeOK /\ at \in 1 .. Len(list) + 1 /\ block \in Blocks
      BY <2>2
    <3>. QED  BY <2>3, <2>5, <3>1, ListWritten
  <2>6. /\ Readable = {i \in 1 .. Len(list) : \A j \in 1 .. i : list[j].crc}
        /\ Readable' = {i \in 1 .. Len(l) : \A j \in 1 .. i : l[j].crc}
    BY <1>6, <2>1, <2>2 DEF Readable
  <2>7. ASSUME NEW i \in Readable'
        PROVE  i \in Readable /\ l[i] = list[i]
    <3>1. i \in 1 .. Len(l) /\ \A j \in 1 .. i : l[j].crc
      BY <2>6
    <3>2. \A j \in 1 .. i : j # at /\ j \in 1 .. Len(l)
      BY <2>2, <2>4, <3>1
    <3>3. \A j \in 1 .. i : j \in 1 .. Len(list) /\ l[j] = list[j]
      BY <2>5, <3>2
    <3>4. i \in 1 .. i
      BY <3>1
    <3>. QED  BY <2>6, <3>1, <3>3, <3>4
  <2>8. ASSUME NEW p \in Parameters
        PROVE  Stored'[p] = Stored[p] \/ Stored'[p] = Default
    <3>1. CASE \E i \in Readable' : Holds(i, p)'
      <4>. PICK i \in Readable' : Holds(i, p)'
        BY <3>1
      <4>1. i \in Readable /\ list'[i] = list[i]
        BY <2>1, <2>7
      <4>2. Holds(i, p)
        BY <1>1, <4>1 DEF Holds
      <4>. QED  BY <4>1, <4>2, StoredNow, StoredThen DEF StoredFits
    <3>2. CASE \A i \in Readable' : ~Holds(i, p)'
      BY <3>2, StoredThen DEF StoredFits
    <3>. QED  BY <3>1, <3>2
  <2>. QED  BY <1>1, <2>2, <2>8, ContractRestarts
<1>. QED  BY <1>1, <1>3, <1>4, <1>5, <1>6 DEF Torn

LEMMA UpgradeContract ==
  ASSUME IInv, IInv', NEW p \in Resized, NEW n \in Sizes, Upgrade(p, n)
  PROVE  Contract
<1>1. /\ p \in Parameters /\ TypeOK /\ UNCHANGED <<ram, version, list>>
      /\ ram = [q \in Parameters |-> Default]
      /\ paramState \notin Saving /\ (paramState \in Saving)' = (paramState \in Saving)
  BY StoreAssumption DEF IInv, Results, Upgrade, memoryVars, Saving
<1>2. Readable' = Readable
  BY <1>1 DEF Readable
<1>3. ASSUME NEW q \in Parameters, q # p PROVE Stored'[q] = Stored[q]
  <2>1. size'[q] = size[q]
    BY <1>1, <1>3 DEF Upgrade, TypeOK
  <2>2. \A i : Holds(i, q)' <=> Holds(i, q)
    BY <1>1, <2>1 DEF Holds
  <2>. QED  BY <1>1, <1>2, <2>2, StoredNow, StoredThen DEF StoredFits
<1>4. PICK v \in Values : v = Stored'[p]
  BY <1>1, StoredThen DEF StoredFits
<1>5. Stored = [q \in Parameters |-> Stored[q]] /\ Stored' = [q \in Parameters |-> Stored'[q]]
  BY DEF Stored
<1>6. Stored' = [Stored EXCEPT ![p] = v]
  BY <1>1, <1>3, <1>4, <1>5
<1>7. Stable!Upgrade(p, v)
  BY <1>1, <1>6 DEF Stable!Upgrade
<1>. QED  BY <1>1, <1>7 DEF Contract, Stable!Next

LEMMA StepContract ==
  ASSUME IInv, IInv', [Next]_vars
  PROVE  Contract
<1>1. CASE Driver
  BY <1>1, QuietContract, ReadParameterContract, SaveVersionContract, VersionWrittenContract,
     ScanFailsContract, WriteContract
  DEF Driver
<1>2. CASE \E p \in Changed, v \in Values : Set(p, v)
  BY <1>2, SetContract
<1>3. CASE \E p, q \in Parameters : p[1] = q[1] /\ Save(p[1], p[2], q[2])
  BY <1>3, SaveContract
<1>4. CASE PowerFails
  BY <1>4, PowerFailsContract
<1>5. CASE \E p \in Resized, n \in Sizes : Upgrade(p, n)
  BY <1>5, UpgradeContract
<1>6. CASE UNCHANGED vars
  BY <1>6, ContractStutter DEF vars, memoryVars, clientVars
<1>. QED  BY <1>1, <1>2, <1>3, <1>4, <1>5, <1>6 DEF Next

(* The store keeps its contract: stored values change only in a save, each  *)
(* to the value in memory, and a restart loses some only if it interrupts   *)
(* a save.                                                                  *)
THEOREM StoreContractKept == Spec => StoreContract
<1>1. Init => Stable!Init
  BY InitContract
<1>2. IInv /\ IInv' /\ [Next]_vars => [Stable!Next]_<<ram, Stored, paramState \in Saving>>
  BY StepContract DEF Contract, Stutters
<1>. QED  BY <1>1, <1>2, Invariance, PTL DEF Spec, StoreContract, Stable!Spec
=============================================================================
