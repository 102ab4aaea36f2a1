---------------------------- MODULE MCLifecycle ----------------------------
(* The main thread and one worker, one process id.                         *)
EXTENDS Lifecycle

CONSTANTS w1, p1
=============================================================================
