----------------------------- MODULE EventCount -----------------------------
(***************************************************************************)
(* What a completion promises: a count of events that have been signalled  *)
(* and not been waited for.  A wait that reports success has taken one     *)
(* event; a wait that reports a timeout or a signal has taken none, and    *)
(* there was none to take at that moment.                                  *)
(***************************************************************************)
EXTENDS Integers

CONSTANTS Tasks, UINT_MAX

VARIABLES events,  \* events that can be taken; an unsigned int
          result   \* of each task: what its last call reported, if it is over

vars == <<events, result>>

Init == events = 0 /\ result = [t \in Tasks |-> "none"]

Signal(n) == events' = (events + n) % (UINT_MAX + 1) /\ UNCHANGED result

Take(t) ==
  /\ result[t] = "none" /\ events > 0
  /\ events' = events - 1
  /\ result' = [result EXCEPT ![t] = "success"]

Fail(t) ==
  /\ result[t] = "none" /\ events = 0
  /\ result' = [result EXCEPT ![t] = "failure"]
  /\ UNCHANGED events

Again(t) ==
  /\ result[t] # "none"
  /\ result' = [result EXCEPT ![t] = "none"]
  /\ UNCHANGED events

Clear == events' = 0 /\ UNCHANGED result

Next ==
  \/ Signal(1) \/ Signal(UINT_MAX \div 2) \/ Clear
  \/ \E t \in Tasks : Take(t) \/ Fail(t) \/ Again(t)

Spec == Init /\ [][Next]_vars

=============================================================================
