------------------------------ MODULE StableStore ------------------------------
(***************************************************************************)
(* What the clients of ConfigSave are promised: a value per parameter that *)
(* outlives a restart.  The stored values change only while a save is      *)
(* under way, each to the value in memory; a restart never alters one, and *)
(* loses some only if it interrupts a save.                                *)
(***************************************************************************)
CONSTANTS
  Parameters,
  Values,
  Default      \* the value of a parameter that is not stored

VARIABLES
  ram,         \* the values in memory
  stored,      \* the values a restart brings back
  saving       \* a save is under way

Init ==
  /\ ram = [p \in Parameters |-> Default]
  /\ stored = [p \in Parameters |-> Default]
  /\ saving = FALSE

Set(p, v) ==
  /\ ~saving
  /\ ram' = [ram EXCEPT ![p] = v]
  /\ UNCHANGED <<stored, saving>>

SaveBegins ==
  /\ ~saving
  /\ saving' = TRUE
  /\ UNCHANGED <<ram, stored>>

(* The last value may be stored in the step that ends the save.             *)
SaveStores(p) ==
  /\ saving
  /\ stored' = [stored EXCEPT ![p] = ram[p]]
  /\ saving' \in BOOLEAN
  /\ UNCHANGED ram

SaveEnds ==
  /\ saving
  /\ saving' = FALSE
  /\ UNCHANGED <<ram, stored>>

(* Memory is empty after a restart; lost are the parameters whose stored   *)
(* value an interrupted save has made unreadable.                          *)
Restart(lost) ==
  /\ lost = {} \/ saving
  /\ ram' = [p \in Parameters |-> Default]
  /\ stored' = [p \in Parameters |-> IF p \in lost THEN Default ELSE stored[p]]
  /\ saving' = FALSE

(* New firmware gives a parameter another size: the value stored under the *)
(* old one is not for it; what it finds is the default, or what firmware   *)
(* with the same size has left.                                            *)
Upgrade(p, v) ==
  /\ ~saving
  /\ ram = [q \in Parameters |-> Default]
  /\ stored' = [stored EXCEPT ![p] = v]
  /\ UNCHANGED <<ram, saving>>

Load(p) ==
  /\ ~saving
  /\ ram' = [ram EXCEPT ![p] = stored[p]]
  /\ UNCHANGED <<stored, saving>>

Next ==
  \/ \E p \in Parameters : SaveStores(p) \/ Load(p)
  \/ \E p \in Parameters, v \in Values : Set(p, v) \/ Upgrade(p, v)
  \/ SaveBegins
  \/ SaveEnds
  \/ \E lost \in SUBSET Parameters : Restart(lost)

Spec == Init /\ [][Next]_<<ram, stored, saving>>
=============================================================================
