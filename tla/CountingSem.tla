---------------------------- MODULE CountingSem ----------------------------
(***************************************************************************)
(* What a counting semaphore promises: there are some free units, each     *)
(* task owns at most one, and a unit only ever moves between the free pool *)
(* and one owner, or from one owner to the next.  How tasks wait, time out *)
(* or are interrupted is not visible here.                                 *)
(***************************************************************************)
EXTENDS Integers

CONSTANTS Tasks, InitCount

VARIABLES free,    \* units nobody owns
          owners   \* the tasks that own a unit

vars == <<free, owners>>

Init == free = InitCount /\ owners = {}

Acquire(t) ==
  /\ t \notin owners /\ free > 0
  /\ owners' = owners \cup {t}
  /\ free' = free - 1

Release(t) ==
  /\ t \in owners
  /\ owners' = owners \ {t}
  /\ free' = free + 1

(* A release whose unit goes straight to a waiter. *)
Handoff(t, u) ==
  /\ t \in owners /\ u \notin owners
  /\ owners' = (owners \ {t}) \cup {u}
  /\ UNCHANGED free

(* A unit that nobody owned appears: up() by a task that never called down. *)
Post == free' = free + 1 /\ UNCHANGED owners

PostTo(u) == u \notin owners /\ owners' = owners \cup {u} /\ UNCHANGED free

Next ==
  \/ \E t \in Tasks : Acquire(t) \/ Release(t) \/ PostTo(t)
  \/ \E t, u \in Tasks : Handoff(t, u)
  \/ Post

Spec == Init /\ [][Next]_vars

=============================================================================
