------------------------------- MODULE MCFramerTx ------------------------------
EXTENDS FramerTx

MCTasks == TxTasks
=============================================================================
