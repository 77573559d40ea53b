---------------------------- MODULE MCWorkQueue ----------------------------
(***************************************************************************)
(* WorkQueue for TLC: a task that flushes or cancels while a CPU goes down *)
(* and up, a flush against a cancel, and two cancels.                      *)
(***************************************************************************)
EXTENDS WorkQueue

MCRoles == {
  [t1 |-> Flushes \cup {"cancel_delayed_work_sync"}, t2 |-> {"cpu_down"}],
  [t1 |-> {"flush_work"}, t2 |-> {"cancel_work_sync"}],
  [t1 |-> {"cancel_work_sync"}, t2 |-> {"cancel_delayed_work"}]}

=============================================================================
