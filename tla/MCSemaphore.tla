---------------------------- MODULE MCSemaphore ----------------------------
(* Instances of Semaphore for TLC. *)
EXTENDS Semaphore

CONSTANTS t1, t2, t3

OneTask == {t1}
ThreeTasks == {t1, t2, t3}

=============================================================================
