------------------------------ MODULE MCRwSem ------------------------------
(* Instances of RwSem for TLC. *)
EXTENDS RwSem

CONSTANTS t1, t2, t3

ThreeTasks == {t1, t2, t3}

=============================================================================
