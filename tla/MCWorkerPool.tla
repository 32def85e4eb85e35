---------------------------- MODULE MCWorkerPool ----------------------------
EXTENDS WorkerPool

=============================================================================
