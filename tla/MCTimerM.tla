------------------------------- MODULE MCTimerM -------------------------------
(* Instances of TimerM for TLC.                                             *)
EXTENDS TimerM

MCTasks == {"HandleFire", "signalOneTimer", "client"}
=============================================================================
