-------------------------- MODULE MCWorkerLifecycle --------------------------
(* Instances of WorkerLifecycle for TLC: two tasks on two workers. *)
EXTENDS WorkerLifecycle

CONSTANTS t1, t2
=============================================================================
