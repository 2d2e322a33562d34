---------------------------- MODULE MCRadioStack ----------------------------
(***************************************************************************)
(* Two messages, one task function of the other components, a task queue   *)
(* that fills up.                                                          *)
(***************************************************************************)
EXTENDS RadioStack, TLC

CONSTANTS m1, m2

MCMessages == {m1, m2}

MCTasks == RadioTasks \cup {"other"}

Symmetric == Permutations(MCMessages)
=============================================================================
