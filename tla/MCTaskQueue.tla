----------------------------- MODULE MCTaskQueue -----------------------------
(***************************************************************************)
(* A list of four slots (TOSH_MAX_TASKS_LOG2 = 2) and three task functions: *)
(* small enough to wrap around many times, large enough for free to be      *)
(* before, at and after full with the list empty, part full and full.       *)
(***************************************************************************)
EXTENDS TaskQueue

CONSTANTS t1, t2, t3

MCTasks == {t1, t2, t3}
=============================================================================
