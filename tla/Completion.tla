----------------------------- MODULE Completion -----------------------------
(***************************************************************************)
(* The completions of kernel/sched.c.                                      *)
(*                                                                         *)
(* Everything under x->wait.lock is one action.  do_wait_for_common()      *)
(* drops the lock around schedule_timeout() only: a wait is a first action *)
(* that queues the caller, and one Relock for every time it wakes up.      *)
(*                                                                         *)
(* pc[t] says where task t is:                                             *)
(*   idle     outside the completion code                                  *)
(*   asleep   in schedule_timeout(), not runnable                          *)
(*   woken    runnable again, about to retake x->wait.lock                 *)
(*   success  its wait returned 0 or the time left, try_wait TRUE          *)
(*   failure  its wait returned -ERESTARTSYS or timed out, try_wait FALSE  *)
(***************************************************************************)
EXTENDS WaitQueue, FiniteSets

CONSTANTS Tasks,
          UINT_MAX  \* 2^32 - 1, scaled down

ASSUME CompletionAssumption == IsFiniteSet(Tasks) /\ UINT_MAX \in Nat \ {0}

VARIABLES done,     \* x->done, an unsigned int
          wait,     \* x->wait, the waiting tasks in order
          pc,       \* where each task is
          state,    \* the task state a waiting task sleeps in
          timed,    \* the waiting tasks that gave a timeout
          expired,  \* the tasks whose schedule_timeout() timer has fired
          sig       \* the signal pending for each task

vars == <<done, wait, pc, state, timed, expired, sig>>

States == {"uninterruptible", "interruptible", "killable"}
Waiting(t) == pc[t] \in {"asleep", "woken"}

TypeOK ==
  /\ done \in 0 .. UINT_MAX
  /\ wait \in Seq(Tasks)
  /\ pc \in [Tasks -> {"idle", "asleep", "woken", "success", "failure"}]
  /\ state \in [Tasks -> States]
  /\ timed \subseteq Tasks /\ expired \subseteq Tasks
  /\ sig \in [Tasks -> {"none", "signal", "kill"}]

Init ==
  /\ done = 0 /\ wait = <<>>
  /\ pc = [t \in Tasks |-> "idle"]
  /\ state = [t \in Tasks |-> "uninterruptible"]
  /\ timed = {} /\ expired = {}
  /\ sig = [t \in Tasks |-> "none"]

Goto(t, place) == pc' = [pc EXCEPT ![t] = place]

(* signal_pending_state(state, task). *)
SignalPending(st, s) == \/ st = "interruptible" /\ s # "none"
                        \/ st = "killable" /\ s = "kill"

-----------------------------------------------------------------------------
Sleepers == {i \in Positions(wait) : pc[wait[i]] = "asleep"}

(* Mutant: the first entry of the queue uses up the wake-up, awake or not. *)
WakeUpOneHead ==
  IF wait = <<>> THEN pc ELSE [pc EXCEPT ![Head(wait)] = "woken"]

(* __wake_up_common() for one exclusive waiter: try_to_wake_up() returns 0 *)
(* for a waiter that is awake already, and the next entry is tried.        *)
WakeUpOne ==
  IF Sleepers = {} THEN pc
  ELSE LET first == CHOOSE i \in Sleepers : \A j \in Sleepers : i <= j
       IN  [pc EXCEPT ![wait[first]] = "woken"]

WakeUpAll == [t \in Tasks |-> IF pc[t] = "asleep" THEN "woken" ELSE pc[t]]

(* complete() *)
Complete ==
  /\ done' = (done + 1) % (UINT_MAX + 1)
  /\ pc' = WakeUpOne
  /\ UNCHANGED <<wait, state, timed, expired, sig>>

(* complete_all(): x->done += UINT_MAX/2 *)
CompleteAll ==
  /\ done' = (done + UINT_MAX \div 2) % (UINT_MAX + 1)
  /\ pc' = WakeUpAll
  /\ UNCHANGED <<wait, state, timed, expired, sig>>

(* The beginning of do_wait_for_common(), for all the waits with a task    *)
(* state and with or without a timeout: an event is taken at once, even if *)
(* others wait; otherwise the caller queues and sleeps, or leaves again    *)
(* because a signal is pending.                                            *)
WaitForCommon(t, st, timeout) ==
  /\ pc[t] = "idle"
  /\ \/ /\ done > 0
        /\ done' = done - 1
        /\ Goto(t, "success")
        /\ UNCHANGED <<wait, state, timed, expired>>
     \/ /\ done = 0 /\ SignalPending(st, sig[t])
        /\ Goto(t, "failure")
        /\ UNCHANGED <<done, wait, state, timed, expired>>
     \/ /\ done = 0 /\ ~SignalPending(st, sig[t])
        /\ wait' = Append(wait, t)
        /\ state' = [state EXCEPT ![t] = st]
        /\ timed' = IF timeout THEN timed \cup {t} ELSE timed \ {t}
        /\ expired' = expired \ {t}
        /\ Goto(t, "asleep")
        /\ UNCHANGED done
  /\ UNCHANGED sig

(* __remove_wait_queue() *)
RemoveWaitQueue(t) ==
  \E i \in Positions(wait) : wait[i] = t /\ wait' = Without(wait, i)

(* Mutants of the loop: the timeout looked at before x->done; the loop     *)
(* left only for x->done; the entry left in the queue by a success.        *)
RelockTimeoutFirst(t) ==
  /\ pc[t] = "woken"
  /\ \/ t \in expired /\ RemoveWaitQueue(t) /\ Goto(t, "failure") /\ UNCHANGED done
     \/ /\ t \notin expired /\ done > 0
        /\ RemoveWaitQueue(t) /\ done' = done - 1 /\ Goto(t, "success")
     \/ t \notin expired /\ done = 0 /\ Goto(t, "asleep") /\ UNCHANGED <<done, wait>>
  /\ UNCHANGED <<state, timed, expired, sig>>

RelockNoTimeout(t) ==
  /\ pc[t] = "woken"
  /\ \/ done > 0 /\ RemoveWaitQueue(t) /\ done' = done - 1 /\ Goto(t, "success")
     \/ done = 0 /\ Goto(t, "asleep") /\ UNCHANGED <<done, wait>>
  /\ UNCHANGED <<state, timed, expired, sig>>

RelockNoRemove(t) ==
  /\ pc[t] = "woken"
  /\ \/ done > 0 /\ done' = done - 1 /\ Goto(t, "success") /\ UNCHANGED wait
     \/ done = 0 /\ Goto(t, "asleep") /\ UNCHANGED <<done, wait>>
  /\ UNCHANGED <<state, timed, expired, sig>>

(* The rest of do_wait_for_common() after schedule_timeout(): x->done is   *)
(* looked at first, then the timeout, then, at the top of the loop, the    *)
(* signal.                                                                 *)
Relock(t) ==
  /\ pc[t] = "woken"
  /\ \/ /\ done > 0
        /\ RemoveWaitQueue(t)
        /\ done' = done - 1
        /\ Goto(t, "success")
     \/ /\ done = 0 /\ (t \in expired \/ SignalPending(state[t], sig[t]))
        /\ RemoveWaitQueue(t)
        /\ Goto(t, "failure")
        /\ UNCHANGED done
     \/ /\ done = 0 /\ t \notin expired /\ ~SignalPending(state[t], sig[t])
        /\ Goto(t, "asleep")
        /\ UNCHANGED <<done, wait>>
  /\ UNCHANGED <<state, timed, expired, sig>>

TryWaitForCompletion(t) ==
  /\ pc[t] = "idle"
  /\ IF done = 0 THEN Goto(t, "failure") /\ UNCHANGED done
     ELSE Goto(t, "success") /\ done' = done - 1
  /\ UNCHANGED <<wait, state, timed, expired, sig>>

(* INIT_COMPLETION(), which the owner calls between two uses. *)
InitCompletion ==
  /\ wait = <<>>
  /\ done' = 0
  /\ UNCHANGED <<wait, pc, state, timed, expired, sig>>

-----------------------------------------------------------------------------
(* The environment of a waiter. *)
Signal(t, s) ==
  /\ sig[t] = "none" \/ (sig[t] = "signal" /\ s = "kill")
  /\ sig' = [sig EXCEPT ![t] = s]
  /\ IF pc[t] = "asleep" /\ SignalPending(state[t], s)
     THEN Goto(t, "woken") ELSE UNCHANGED pc
  /\ UNCHANGED <<done, wait, state, timed, expired>>

TimerFires(t) ==
  /\ Waiting(t) /\ t \in timed \ expired
  /\ expired' = expired \cup {t}
  /\ Goto(t, "woken")
  /\ UNCHANGED <<done, wait, state, timed, sig>>

SpuriousWake(t) ==
  /\ pc[t] = "asleep"
  /\ Goto(t, "woken")
  /\ UNCHANGED <<done, wait, state, timed, expired, sig>>

(* The caller looks at the result and at its signals. *)
Return(t) ==
  /\ pc[t] \in {"success", "failure"}
  /\ Goto(t, "idle")
  /\ sig' = [sig EXCEPT ![t] = "none"]
  /\ UNCHANGED <<done, wait, state, timed, expired>>

Next ==
  \/ Complete \/ CompleteAll \/ InitCompletion
  \/ \E t \in Tasks :
       \/ \E st \in States, timeout \in BOOLEAN : WaitForCommon(t, st, timeout)
       \/ Relock(t) \/ TryWaitForCompletion(t)
       \/ \E s \in {"signal", "kill"} : Signal(t, s)
       \/ TimerFires(t) \/ SpuriousWake(t) \/ Return(t)

Spec == Init /\ [][Next]_vars

(* A woken task runs and gets the spinlock; timers fire. *)
FairSpec == Spec /\ \A t \in Tasks : WF_vars(Relock(t)) /\ WF_vars(TimerFires(t))

-----------------------------------------------------------------------------
(* Properties. *)

(* No wake-up is lost or wasted: of the tasks in the queue at least as     *)
(* many are awake as there are events to take (or all are), although       *)
(* timeouts, signals and stray wake-ups wake tasks too, tasks that do not  *)
(* queue take events, and a complete() may find its first waiter awake.    *)
NoLostWakeup ==
  LET awake == {t \in Tasks : In(t, wait) /\ pc[t] = "woken"}
  IN  Cardinality(awake) >= done \/ Cardinality(awake) = Len(wait)

(* x->wait holds exactly the waiting tasks, each once: nobody returns with *)
(* its wait queue entry, which is on its stack, still in the list.  The    *)
(* count stays an unsigned int.                                            *)
QueueExact ==
  /\ TypeOK
  /\ Distinct(wait) /\ \A t \in Tasks : In(t, wait) <=> Waiting(t)

(* An event does not stay untaken while somebody waits.                    *)
EventTaken == (done > 0 /\ wait # <<>>) ~> (done = 0 \/ wait = <<>>)

(* A wait with a timeout returns even if complete() is never called.       *)
TimeoutReturns == \A t \in Tasks : (Waiting(t) /\ t \in timed) ~> ~Waiting(t)

(* A completion counts events: success takes exactly one, and a timeout or *)
(* a signal is reported only if there is no event at that moment, so that  *)
(* a complete() that comes before the waiter runs again is never lost.     *)
Abstract == INSTANCE EventCount WITH events <- done,
  result <- [t \in Tasks |-> IF pc[t] \in {"success", "failure"} THEN pc[t] ELSE "none"]
ImplementsEventCount == Abstract!Spec

=============================================================================
