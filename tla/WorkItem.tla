------------------------------ MODULE WorkItem ------------------------------
(***************************************************************************)
(* What a workqueue promises about works: a work that is queued is         *)
(* executed once, by one of the workers, unless a call that cancels it     *)
(* takes it away, and it is not executed otherwise.  A worker executes one *)
(* work at a time; a work may be queued again as soon as its execution has *)
(* begun.  A cancel takes the work at most once and returns whether it did *)
(* (got); it returns when the work is not to be executed any more and, if  *)
(* it is synchronous, is not being executed either.                        *)
(***************************************************************************)
EXTENDS Integers

CONSTANTS Works, Cpus, Tasks, NoWork

VARIABLES armed,    \* the works that are to be executed
          running,  \* what each worker executes
          calls     \* the cancel that each task is in; work is NoWork if none

vars == <<armed, running, calls>>

NoCall == [work |-> NoWork, sync |-> TRUE, got |-> FALSE]

Init ==
  /\ armed = {} /\ running = [c \in Cpus |-> NoWork]
  /\ calls = [t \in Tasks |-> NoCall]

Queue(w) ==
  /\ w \notin armed
  /\ armed' = armed \cup {w}
  /\ UNCHANGED <<running, calls>>

Begin(w, c) ==
  /\ w \in armed /\ running[c] = NoWork
  /\ armed' = armed \ {w}
  /\ running' = [running EXCEPT ![c] = w]
  /\ UNCHANGED calls

End(c) ==
  /\ running[c] # NoWork
  /\ running' = [running EXCEPT ![c] = NoWork]
  /\ UNCHANGED <<armed, calls>>

(* A task calls a cancel, which may take the work at once, ... *)
Cancel(t, w, sync, got) ==
  /\ calls[t] = NoCall
  /\ got => w \in armed
  /\ armed' = IF got THEN armed \ {w} ELSE armed
  /\ calls' = [calls EXCEPT ![t] = [work |-> w, sync |-> sync, got |-> got]]
  /\ UNCHANGED running

(* ... or later, ... *)
Take(t) ==
  /\ calls[t].work \in armed /\ ~calls[t].got
  /\ armed' = armed \ {calls[t].work}
  /\ calls' = [calls EXCEPT ![t].got = TRUE]
  /\ UNCHANGED running

(* ... and returns. *)
Return(t) ==
  /\ calls[t].work \in Works \ armed
  /\ calls[t].sync => \A c \in Cpus : running[c] # calls[t].work
  /\ calls' = [calls EXCEPT ![t] = NoCall]
  /\ UNCHANGED <<armed, running>>

Next ==
  \/ \E w \in Works : Queue(w) \/ \E c \in Cpus : Begin(w, c)
  \/ \E c \in Cpus : End(c)
  \/ \E t \in Tasks :
       Take(t) \/ Return(t) \/ \E w \in Works, sync, got \in BOOLEAN : Cancel(t, w, sync, got)

Spec == Init /\ [][Next]_vars

=============================================================================
