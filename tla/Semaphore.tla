----------------------------- MODULE Semaphore -----------------------------
(***************************************************************************)
(* The counting semaphore of kernel/semaphore.c.                           *)
(*                                                                         *)
(* Everything between spin_lock_irqsave(&sem->lock) and the matching       *)
(* unlock is one action: the spinlock is held with interrupts off.  The    *)
(* one place where the lock is dropped inside an operation is the          *)
(* schedule_timeout() of __down_common, so a contended down is a first     *)
(* action that queues the caller and puts it to sleep, and then one        *)
(* Relock action for every time it wakes up.                               *)
(*                                                                         *)
(* pc[t] says where task t is:                                             *)
(*   idle     outside the semaphore code                                   *)
(*   asleep   in schedule_timeout(), not runnable                          *)
(*   woken    runnable again, about to retake sem->lock                    *)
(*   holding  its down returned 0 and it has not called up() yet           *)
(*   failed   its down returned -EINTR or -ETIME, or down_trylock 1        *)
(***************************************************************************)
EXTENDS WaitQueue, FiniteSets

CONSTANTS Tasks,      \* the tasks that use the semaphore
          InitCount,  \* the value given to sema_init()
          MaxUnits,   \* bound: how far up() of non-holders may raise the total
          Interruptible \* bound: the tasks that sleep interruptibly and get signals

ASSUME SemAssumption == /\ IsFiniteSet(Tasks) /\ Interruptible \subseteq Tasks
                        /\ InitCount \in Nat
                        /\ MaxUnits \in Nat

VARIABLES count,      \* sem->count
          wait_list,  \* sem->wait_list, the waiting tasks in order
          waiter_up,  \* the tasks whose struct semaphore_waiter has up set
          pc,         \* where each task is
          mode,       \* which down variant a waiting task called
          sig,        \* the signal pending for each task
          expired,    \* the tasks whose schedule_timeout() timer has fired
          units       \* history: units that exist, free or owned

vars == <<count, wait_list, waiter_up, pc, mode, sig, expired, units>>

Modes == {"down", "interruptible", "killable", "timeout"}
Signals == {"none", "signal", "kill"}
Places == {"idle", "asleep", "woken", "holding", "failed"}

TypeOK ==
  /\ count \in Nat
  /\ wait_list \in Seq(Tasks)
  /\ waiter_up \subseteq Tasks
  /\ pc \in [Tasks -> Places]
  /\ mode \in [Tasks -> Modes]
  /\ sig \in [Tasks -> Signals]
  /\ expired \subseteq Tasks
  /\ units \in Nat

Init ==
  /\ count = InitCount
  /\ wait_list = <<>>
  /\ waiter_up = {}
  /\ pc = [t \in Tasks |-> "idle"]
  /\ mode = [t \in Tasks |-> "down"]
  /\ sig = [t \in Tasks |-> "none"]
  /\ expired = {}
  /\ units = InitCount

Waiting(t) == pc[t] \in {"asleep", "woken"}

(* Who owns a unit: the tasks whose down returned 0 and the waiters an     *)
(* up() has already granted one to.                                        *)
Owners == {t \in Tasks : pc[t] = "holding" \/ t \in waiter_up}

-----------------------------------------------------------------------------
(* MAX_SCHEDULE_TIMEOUT; only the sign of a timeout matters to the model.  *)
MaxScheduleTimeout == 1

(* signal_pending_state(state, task) for the task state of each variant.   *)
SignalPending(m, s) ==
  \/ m = "interruptible" /\ s # "none"
  \/ m = "killable" /\ s = "kill"

Leave(t, place) == pc' = [pc EXCEPT ![t] = place]

(* The uncontended branch every down variant has: sem->count--.            *)
TakeUnit(t) ==
  /\ pc[t] = "idle"
  /\ count > 0
  /\ count' = count - 1
  /\ Leave(t, "holding")
  /\ UNCHANGED <<wait_list, waiter_up, mode, sig, expired, units>>

(* The contended branch up to the first schedule_timeout(): the caller is  *)
(* queued, and removed again at once if a signal is already pending or the *)
(* timeout is not positive.                                                *)
DownContended(t, m, timeout) ==
  /\ pc[t] = "idle"
  /\ count = 0
  /\ \/ /\ SignalPending(m, sig[t]) \/ timeout <= 0
        /\ Leave(t, "failed")
        /\ UNCHANGED <<wait_list, mode, expired>>
     \/ /\ ~SignalPending(m, sig[t]) /\ timeout > 0
        /\ wait_list' = Append(wait_list, t)
        /\ mode' = [mode EXCEPT ![t] = m]
        /\ expired' = expired \ {t}
        /\ Leave(t, "asleep")
  /\ UNCHANGED <<count, waiter_up, sig, units>>

Down(t) == TakeUnit(t) \/ DownContended(t, "down", MaxScheduleTimeout)

DownInterruptible(t) == TakeUnit(t) \/ DownContended(t, "interruptible", MaxScheduleTimeout)

DownKillable(t) == TakeUnit(t) \/ DownContended(t, "killable", MaxScheduleTimeout)

DownTimeout(t, jiffies) == TakeUnit(t) \/ DownContended(t, "timeout", jiffies)

DownTrylock(t) ==
  \/ TakeUnit(t)
  \/ /\ pc[t] = "idle"
     /\ count = 0
     /\ Leave(t, "failed")
     /\ UNCHANGED <<count, wait_list, waiter_up, mode, sig, expired, units>>

(* list_del(&waiter.list).                                                 *)
ListDel(t) ==
  \E i \in Positions(wait_list) :
    wait_list[i] = t /\ wait_list' = Without(wait_list, i)

(* Mutants of the loop: the timer looked at before the grant; a waiter     *)
(* that gives up without list_del(); a timeout that is never looked at.    *)
RelockTimerFirst(t) ==
  /\ pc[t] = "woken"
  /\ \/ /\ t \in expired
        /\ waiter_up' = waiter_up \ {t}
        /\ ListDel(t) \/ (t \in waiter_up /\ UNCHANGED wait_list)
        /\ Leave(t, "failed")
     \/ /\ t \notin expired /\ t \in waiter_up
        /\ waiter_up' = waiter_up \ {t}
        /\ Leave(t, "holding")
        /\ UNCHANGED wait_list
     \/ /\ t \notin expired /\ t \notin waiter_up
        /\ Leave(t, "asleep")
        /\ UNCHANGED <<wait_list, waiter_up>>
  /\ UNCHANGED <<count, mode, sig, expired, units>>

RelockNoListDel(t) ==
  /\ pc[t] = "woken"
  /\ Leave(t, IF t \in waiter_up THEN "holding"
              ELSE IF SignalPending(mode[t], sig[t]) \/ t \in expired
              THEN "failed" ELSE "asleep")
  /\ waiter_up' = waiter_up \ {t}
  /\ UNCHANGED <<count, wait_list, mode, sig, expired, units>>

RelockNoTimeout(t) ==
  /\ pc[t] = "woken"
  /\ Leave(t, IF t \in waiter_up THEN "holding" ELSE "asleep")
  /\ waiter_up' = waiter_up \ {t}
  /\ UNCHANGED <<count, wait_list, mode, sig, expired, units>>

(* The rest of the loop of __down_common, with sem->lock held again: a     *)
(* grant is looked at before the signal, and the signal before the timer.  *)
Relock(t) ==
  /\ pc[t] = "woken"
  /\ \/ /\ t \in waiter_up
        /\ waiter_up' = waiter_up \ {t}
        /\ Leave(t, "holding")
        /\ UNCHANGED wait_list
     \/ /\ t \notin waiter_up
        /\ SignalPending(mode[t], sig[t]) \/ t \in expired
        /\ ListDel(t)
        /\ Leave(t, "failed")
        /\ UNCHANGED waiter_up
     \/ /\ t \notin waiter_up
        /\ ~SignalPending(mode[t], sig[t]) /\ t \notin expired
        /\ Leave(t, "asleep")
        /\ UNCHANGED <<wait_list, waiter_up>>
  /\ UNCHANGED <<count, mode, sig, expired, units>>

(* Mutants of up(): the unit is freed and granted; the waiter is granted   *)
(* it but not woken.                                                       *)
UpFromTwice(p) ==
  /\ count' = count + 1
  /\ pc' = IF wait_list = <<>> THEN p ELSE [p EXCEPT ![Head(wait_list)] = "woken"]
  /\ wait_list' = IF wait_list = <<>> THEN <<>> ELSE Tail(wait_list)
  /\ waiter_up' = waiter_up \cup (IF wait_list = <<>> THEN {} ELSE {Head(wait_list)})

UpFromNoWake(p) ==
  /\ pc' = p
  /\ \/ /\ wait_list = <<>>
        /\ count' = count + 1
        /\ UNCHANGED <<wait_list, waiter_up>>
     \/ /\ wait_list # <<>>
        /\ wait_list' = Tail(wait_list)
        /\ waiter_up' = waiter_up \cup {Head(wait_list)}
        /\ UNCHANGED count

(* up(), called when the tasks are at places p: free the unit, or take the *)
(* first waiter off the list, grant it the unit and wake it (__up).        *)
UpFrom(p) ==
  \/ /\ wait_list = <<>>
     /\ count' = count + 1
     /\ pc' = p
     /\ UNCHANGED <<wait_list, waiter_up>>
  \/ /\ wait_list # <<>>
     /\ wait_list' = Tail(wait_list)
     /\ waiter_up' = waiter_up \cup {Head(wait_list)}
     /\ pc' = [p EXCEPT ![Head(wait_list)] = "woken"]
     /\ UNCHANGED count

(* up() by a task that holds a unit. *)
Up(t) ==
  /\ pc[t] = "holding"
  /\ UpFrom([pc EXCEPT ![t] = "idle"])
  /\ UNCHANGED <<mode, sig, expired, units>>

(* up() from an interrupt or from a task that never called down().         *)
UpByOther ==
  /\ units < MaxUnits
  /\ units' = units + 1
  /\ UpFrom(pc)
  /\ UNCHANGED <<mode, sig, expired>>

-----------------------------------------------------------------------------
(* The environment of a waiter: signals, the timer of schedule_timeout()   *)
(* and wake-ups that are not meant for it.                                 *)
WakeIf(t, cond) ==
  pc' = IF pc[t] = "asleep" /\ cond THEN [pc EXCEPT ![t] = "woken"] ELSE pc

Signal(t, s) ==
  /\ sig[t] = "none" \/ (sig[t] = "signal" /\ s = "kill")
  /\ sig' = [sig EXCEPT ![t] = s]
  /\ WakeIf(t, SignalPending(mode[t], s))
  /\ UNCHANGED <<count, wait_list, waiter_up, mode, expired, units>>

TimerFires(t) ==
  /\ Waiting(t)
  /\ mode[t] = "timeout"
  /\ t \notin expired
  /\ expired' = expired \cup {t}
  /\ WakeIf(t, TRUE)
  /\ UNCHANGED <<count, wait_list, waiter_up, mode, sig, units>>

SpuriousWake(t) ==
  /\ pc[t] = "asleep"
  /\ Leave(t, "woken")
  /\ UNCHANGED <<count, wait_list, waiter_up, mode, sig, expired, units>>

(* The caller handles the error, and its signals, and may call again.      *)
Retry(t) ==
  /\ pc[t] = "failed"
  /\ Leave(t, "idle")
  /\ sig' = [sig EXCEPT ![t] = "none"]
  /\ UNCHANGED <<count, wait_list, waiter_up, mode, expired, units>>

Next ==
  \/ \E t \in Tasks :
       \/ Down(t) \/ DownTrylock(t)
       \/ t \in Interruptible /\ (DownInterruptible(t) \/ DownKillable(t))
       \/ \E jiffies \in 0..1 : DownTimeout(t, jiffies)
       \/ Relock(t)
       \/ Up(t)
       \/ t \in Interruptible /\ \E s \in Signals \ {"none"} : Signal(t, s)
       \/ TimerFires(t) \/ SpuriousWake(t) \/ Retry(t)
  \/ UpByOther

Spec == Init /\ [][Next]_vars

(* A woken task runs and gets the spinlock; timers fire.                   *)
SchedFairness ==
  \A t \in Tasks : WF_vars(Relock(t)) /\ WF_vars(TimerFires(t))

FairSpec == Spec /\ SchedFairness

(* Callers that hold a unit release it in the end.                         *)
ReleaseFairness == \A t \in Tasks : WF_vars(Up(t))

-----------------------------------------------------------------------------
(* Properties. *)

(* No unit is lost or invented, whatever mixture of grants, timeouts,      *)
(* signals and spurious wake-ups the waiters meet: the free units of       *)
(* sem->count and the owned ones always add up to what was put in.         *)
Conservation == count + Cardinality(Owners) = units

(* A unit is never left free while a task waits for one: down() queues     *)
(* only when sem->count is 0 and up() hands over before it increments.     *)
NoIdleUnit == count > 0 => wait_list = <<>>

(* sem->wait_list holds each waiter that has not been granted a unit       *)
(* exactly once, and nobody else, so list_del(&waiter.list) in             *)
(* __down_common never removes an entry that __up has removed already.     *)
ListExact ==
  /\ Distinct(wait_list)
  /\ \A t \in Tasks : In(t, wait_list) <=> (Waiting(t) /\ t \notin waiter_up)

(* A waiter that was granted a unit is runnable: the wake-up of __up is    *)
(* not lost, and the grant is not forgotten when the task leaves.          *)
GrantedIsWoken == \A t \in Tasks : t \in waiter_up => pc[t] = "woken"

(* A task in down() gets its unit if the holders release theirs: waiters   *)
(* are served first come, first served, and cannot be overtaken.           *)
DownServed ==
  ReleaseFairness =>
    \A t \in Tasks : (Waiting(t) /\ mode[t] = "down") ~> pc[t] = "holding"

(* down_timeout() returns, one way or the other, even if no holder ever    *)
(* calls up(): the timer wakes the waiter and the loop gives up.           *)
TimeoutReturns ==
  \A t \in Tasks : (Waiting(t) /\ mode[t] = "timeout") ~> ~Waiting(t)

(* The implementation only moves units as an abstract counting semaphore   *)
(* does; a failed, timed out or interrupted down moves none.               *)
Abstract == INSTANCE CountingSem WITH free <- count, owners <- Owners
ImplementsCountingSem == Abstract!Spec

=============================================================================
