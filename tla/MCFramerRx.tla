------------------------------- MODULE MCFramerRx ------------------------------
EXTENDS FramerRx

MCTasks == RxTasks
=============================================================================
