------------------------------ MODULE RwLock ------------------------------
(***************************************************************************)
(* What a reader-writer lock promises: readers share it, a writer has it   *)
(* alone.  A release may pass the lock straight to tasks that wait for it; *)
(* how they wait is not visible here.                                      *)
(***************************************************************************)
CONSTANT Tasks

VARIABLES readers, writers   \* the tasks that have the lock

vars == <<readers, writers>>

Init == readers = {} /\ writers = {}

(* The lock, held by r and w once the caller is done, goes to more readers *)
(* if there is no writer, or to one writer if nobody holds it.             *)
PassOn(r, w) ==
  \/ readers' = r /\ writers' = w
  \/ /\ w = {}
     /\ \E S \in SUBSET (Tasks \ r) : readers' = r \cup S /\ writers' = {}
  \/ /\ r = {} /\ w = {}
     /\ \E u \in Tasks : readers' = {} /\ writers' = {u}

Acquire == PassOn(readers, writers)
ReleaseRead(t) == t \in readers /\ PassOn(readers \ {t}, writers)
ReleaseWrite(t) == t \in writers /\ PassOn(readers, writers \ {t})
Downgrade(t) == t \in writers /\ PassOn(readers \cup {t}, writers \ {t})

Next ==
  \/ Acquire
  \/ \E t \in Tasks : ReleaseRead(t) \/ ReleaseWrite(t) \/ Downgrade(t)

Spec == Init /\ [][Next]_vars

(* The promise itself. *)
Exclusion ==
  \/ writers = {}
  \/ readers = {} /\ \E t \in Tasks : writers = {t}

=============================================================================
