-------------------------- MODULE MCOperationQueue --------------------------
EXTENDS OperationQueue
=============================================================================
