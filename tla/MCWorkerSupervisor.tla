-------------------------- MODULE MCWorkerSupervisor --------------------------
\* One call and two tokens, up to two worker processes.
EXTENDS WorkerSupervisor

CONSTANTS r1, tA, tB
=============================================================================
