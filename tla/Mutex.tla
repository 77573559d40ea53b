------------------------------- MODULE Mutex -------------------------------
(***************************************************************************)
(* The mutex of kernel/mutex.c with the ARMv6 fast paths of                *)
(* arch/arm/include/asm/mutex.h (CONFIG_SMP, CONFIG_MUTEX_SPIN_ON_OWNER,   *)
(* no DEBUG_MUTEXES).                                                      *)
(*                                                                         *)
(* The fast paths change lock->count without lock->wait_lock, and spinners *)
(* read lock->owner without it, so a section under wait_lock is split at   *)
(* each access to count and owner; wait_lock says which task is in one.    *)
(* A strex that fails has stored nothing and sends its task to the slow    *)
(* path.                                                                   *)
(*                                                                         *)
(* pc[t] says where task t is:                                             *)
(*   idle       outside the mutex code                                     *)
(*   setowner   the fast path took the lock, owner is not set yet          *)
(*   spin       at the head of the optimistic spinning loop                *)
(*   spinowner  in mutex_spin_on_owner()                                   *)
(*   try        about to cmpxchg, it saw an owner                          *)
(*   trynull    about to cmpxchg, it saw no owner                          *)
(*   queue      about to take wait_lock and join wait_list                 *)
(*   xchg       in the section, about to xchg count in the wait loop       *)
(*   asleep     in schedule(), not runnable                                *)
(*   woken      runnable again, about to retake wait_lock                  *)
(*   done       in the section, has the lock, at the label done            *)
(*   setcount   in the section, has left wait_list and set owner           *)
(*   holding    has the lock                                               *)
(*   unlock     in mutex_unlock(), owner is cleared                        *)
(*   unlockslow in __mutex_unlock_slowpath(), count still says locked      *)
(*   wake       in the section of the slow path, count is 1                *)
(*   failed     its lock call returned -EINTR                              *)
(***************************************************************************)
EXTENDS WaitQueue, FiniteSets

CONSTANTS Tasks, NULL,
          Interruptible  \* bound: the tasks that lock interruptibly and get signals

ASSUME MutexAssumption ==
  IsFiniteSet(Tasks) /\ NULL \notin Tasks /\ Interruptible \subseteq Tasks

VARIABLES count,      \* lock->count
          owner,      \* lock->owner
          wait_lock,  \* the task in a section under lock->wait_lock
          wait_list,  \* lock->wait_list, the waiting tasks in order
          pc,         \* where each task is
          mode,       \* the state a task waits in: which lock call it made
          sig         \* the signal pending for each task

vars == <<count, owner, wait_lock, wait_list, pc, mode, sig>>

Modes == {"uninterruptible", "interruptible", "killable"}
Signals == {"none", "signal", "kill"}
Places == {"idle", "setowner", "spin", "spinowner", "try", "trynull", "queue",
           "xchg", "asleep", "woken", "done", "setcount", "holding",
           "unlock", "unlockslow", "wake", "failed"}

TypeOK ==
  /\ count \in Int
  /\ owner \in Tasks \cup {NULL}
  /\ wait_lock \in Tasks \cup {NULL}
  /\ wait_list \in Seq(Tasks)
  /\ pc \in [Tasks -> Places]
  /\ mode \in [Tasks -> Modes]
  /\ sig \in [Tasks -> Signals]

Init ==
  /\ count = 1
  /\ owner = NULL
  /\ wait_lock = NULL
  /\ wait_list = <<>>
  /\ pc = [t \in Tasks |-> "idle"]
  /\ mode = [t \in Tasks |-> "uninterruptible"]
  /\ sig = [t \in Tasks |-> "none"]

Goto(t, place) == pc' = [pc EXCEPT ![t] = place]

(* The tasks that have the lock: from the step that took count from 1 to   *)
(* the one that makes it 1 again.                                          *)
HasLock ==
  {t \in Tasks : pc[t] \in {"setowner", "done", "setcount", "holding",
                            "unlock", "unlockslow"}}

(* signal_pending_state(state, task) *)
SignalPending(m, s) ==
  \/ m = "interruptible" /\ s # "none"
  \/ m = "killable" /\ s = "kill"

-----------------------------------------------------------------------------
(* Mutant: a fast path that takes a lock it found locked.                  *)
FastpathLockAny(t, m) ==
  /\ pc[t] = "idle"
  /\ mode' = [mode EXCEPT ![t] = m]
  /\ count' = count - 1 /\ Goto(t, "setowner")
  /\ UNCHANGED <<owner, wait_lock, wait_list, sig>>

(* __mutex_fastpath_lock() and __mutex_fastpath_lock_retval(): count is    *)
(* decremented even if that does not take the lock.                        *)
FastpathLock(t, m) ==
  /\ pc[t] = "idle"
  /\ mode' = [mode EXCEPT ![t] = m]
  /\ \/ count = 1 /\ count' = 0 /\ Goto(t, "setowner")
     \/ count # 1 /\ count' = count - 1 /\ Goto(t, "spin")
     \/ UNCHANGED count /\ Goto(t, "spin")            \* strex failed
  /\ UNCHANGED <<owner, wait_lock, wait_list, sig>>

(* mutex_trylock(): without the lock it returns 0 and changes nothing; a   *)
(* strex that fails is tried again.                                        *)
Trylock(t) ==
  /\ pc[t] = "idle"
  /\ count = 1
  /\ count' = 0
  /\ Goto(t, "setowner")
  /\ UNCHANGED <<owner, wait_lock, wait_list, mode, sig>>

(* mutex_set_owner() after a fast path, a trylock or a spin; mutex_lock()  *)
(* does it once more after the slow path, to no effect.                    *)
SetOwner(t) ==
  /\ pc[t] = "setowner"
  /\ owner' = t
  /\ Goto(t, "holding")
  /\ UNCHANGED <<count, wait_lock, wait_list, mode, sig>>

-----------------------------------------------------------------------------
(* Optimistic spinning.  A task that owns the BKL does not spin.           *)
ReadOwner(t) ==
  /\ pc[t] = "spin"
  /\ \/ Goto(t, "queue")
     \/ owner = NULL /\ Goto(t, "trynull")
     \/ owner # NULL /\ Goto(t, "spinowner")
  /\ UNCHANGED <<count, owner, wait_lock, wait_list, mode, sig>>

(* mutex_spin_on_owner(): returns 1 when it finds owner cleared, and may   *)
(* return 0 at any time (the owner changed or sleeps, need_resched()).     *)
SpinOnOwner(t) ==
  /\ pc[t] = "spinowner"
  /\ \/ owner = NULL /\ Goto(t, "try")
     \/ Goto(t, "queue")
  /\ UNCHANGED <<count, owner, wait_lock, wait_list, mode, sig>>

(* atomic_cmpxchg(&lock->count, 1, 0); with no owner to wait for, a task   *)
(* that must reschedule, or a real-time one, stops spinning.               *)
Cmpxchg(t) ==
  /\ pc[t] \in {"try", "trynull"}
  /\ \/ count = 1 /\ count' = 0 /\ Goto(t, "setowner")
     \/ /\ count # 1 /\ UNCHANGED count
        /\ Goto(t, "spin") \/ (pc[t] = "trynull" /\ Goto(t, "queue"))
  /\ UNCHANGED <<owner, wait_lock, wait_list, mode, sig>>

-----------------------------------------------------------------------------
(* Mutant: the waiter leaves count alone before it first sleeps.           *)
QueueNoXchg(t) ==
  /\ pc[t] = "queue"
  /\ wait_lock = NULL
  /\ wait_list' = Append(wait_list, t)
  /\ IF count = 1 THEN wait_lock' = t /\ count' = 0 /\ Goto(t, "done")
                  ELSE wait_lock' = NULL /\ UNCHANGED count /\ Goto(t, "asleep")
  /\ UNCHANGED <<owner, mode, sig>>

(* The section that queues the caller, up to its first xchg.               *)
Queue(t) ==
  /\ pc[t] = "queue"
  /\ wait_lock = NULL
  /\ wait_lock' = t
  /\ wait_list' = Append(wait_list, t)
  /\ count' = -1
  /\ Goto(t, IF count = 1 THEN "done" ELSE "xchg")
  /\ UNCHANGED <<owner, mode, sig>>

(* mutex_remove_waiter() *)
RemoveWaiter(t) ==
  \E i \in Positions(wait_list) :
    wait_list[i] = t /\ wait_list' = Without(wait_list, i)

(* Mutant: the waiter gives up on a signal before it tries the lock.       *)
WaitLoopSignalFirst(t) ==
  /\ \/ pc[t] = "xchg" /\ wait_lock = t
     \/ pc[t] = "woken" /\ wait_lock = NULL
  /\ \/ /\ SignalPending(mode[t], sig[t])
        /\ RemoveWaiter(t) /\ Goto(t, "failed")
        /\ wait_lock' = NULL /\ UNCHANGED count
     \/ /\ ~SignalPending(mode[t], sig[t])
        /\ count' = -1 /\ UNCHANGED wait_list
        /\ IF count = 1 THEN Goto(t, "done") /\ wait_lock' = t
                        ELSE Goto(t, "asleep") /\ wait_lock' = NULL
  /\ UNCHANGED <<owner, mode, sig>>

(* One round of the wait loop of __mutex_lock_common, entered with         *)
(* wait_lock held or, after schedule(), by taking it: the lock is tried    *)
(* before the signal is looked at.                                         *)
WaitLoop(t) ==
  /\ \/ pc[t] = "xchg" /\ wait_lock = t
     \/ pc[t] = "woken" /\ wait_lock = NULL
  /\ count' = -1
  /\ \/ /\ count = 1
        /\ wait_lock' = t
        /\ Goto(t, "done")
        /\ UNCHANGED wait_list
     \/ /\ count # 1 /\ SignalPending(mode[t], sig[t])
        /\ RemoveWaiter(t)
        /\ wait_lock' = NULL
        /\ Goto(t, "failed")
     \/ /\ count # 1 /\ ~SignalPending(mode[t], sig[t])
        /\ wait_lock' = NULL
        /\ Goto(t, "asleep")
        /\ UNCHANGED wait_list
  /\ UNCHANGED <<owner, mode, sig>>

(* The label done: leave the list and set the owner ...                    *)
Done(t) ==
  /\ pc[t] = "done"
  /\ RemoveWaiter(t)
  /\ owner' = t
  /\ Goto(t, "setcount")
  /\ UNCHANGED <<count, wait_lock, mode, sig>>

(* ... then set count to 0 if no waiter is left, and leave the section.    *)
SetCount(t) ==
  /\ pc[t] = "setcount"
  /\ count' = IF wait_list = <<>> THEN 0 ELSE count
  /\ wait_lock' = NULL
  /\ Goto(t, "holding")
  /\ UNCHANGED <<owner, wait_list, mode, sig>>

-----------------------------------------------------------------------------
(* mutex_unlock() clears the owner before it gives the lock up.            *)
Unlock(t) ==
  /\ pc[t] = "holding"
  /\ owner' = NULL
  /\ Goto(t, "unlock")
  /\ UNCHANGED <<count, wait_lock, wait_list, mode, sig>>

(* __mutex_fastpath_unlock(): count is incremented even if that does not   *)
(* unlock, and the slow path is taken unless it was exactly 0.             *)
FastpathUnlock(t) ==
  /\ pc[t] = "unlock"
  /\ \/ count = 0 /\ count' = 1 /\ Goto(t, "idle")
     \/ count # 0 /\ count' = count + 1 /\ Goto(t, "unlockslow")
     \/ UNCHANGED count /\ Goto(t, "unlockslow")      \* strex failed
  /\ UNCHANGED <<owner, wait_lock, wait_list, mode, sig>>

(* __mutex_unlock_common_slowpath(), up to atomic_set(&lock->count, 1) ... *)
UnlockSlowpath(t) ==
  /\ pc[t] = "unlockslow"
  /\ wait_lock = NULL
  /\ wait_lock' = t
  /\ count' = 1
  /\ Goto(t, "wake")
  /\ UNCHANGED <<owner, wait_list, mode, sig>>

(* Mutant: the waiter is not woken. *)
WakeWaiterLost(t) ==
  /\ pc[t] = "wake"
  /\ wait_lock' = NULL
  /\ Goto(t, "idle")
  /\ UNCHANGED <<count, owner, wait_list, mode, sig>>

(* ... then wake the first waiter, which stays on the list.                *)
WakeWaiter(t) ==
  /\ pc[t] = "wake"
  /\ wait_lock' = NULL
  /\ \/ /\ wait_list # <<>> /\ pc[Head(wait_list)] = "asleep"
        /\ pc' = [pc EXCEPT ![t] = "idle", ![Head(wait_list)] = "woken"]
     \/ /\ wait_list # <<>> => pc[Head(wait_list)] # "asleep"
        /\ Goto(t, "idle")
  /\ UNCHANGED <<count, owner, wait_list, mode, sig>>

-----------------------------------------------------------------------------
(* The environment: signals, stray wake-ups, and the caller's handling of  *)
(* -EINTR.                                                                 *)
Signal(t, s) ==
  /\ sig[t] = "none" \/ (sig[t] = "signal" /\ s = "kill")
  /\ sig' = [sig EXCEPT ![t] = s]
  /\ pc' = IF pc[t] = "asleep" /\ SignalPending(mode[t], s)
           THEN [pc EXCEPT ![t] = "woken"] ELSE pc
  /\ UNCHANGED <<count, owner, wait_lock, wait_list, mode>>

SpuriousWake(t) ==
  /\ pc[t] = "asleep"
  /\ Goto(t, "woken")
  /\ UNCHANGED <<count, owner, wait_lock, wait_list, mode, sig>>

Return(t) ==
  /\ pc[t] = "failed"
  /\ Goto(t, "idle")
  /\ sig' = [sig EXCEPT ![t] = "none"]
  /\ UNCHANGED <<count, owner, wait_lock, wait_list, mode>>

ModesOf(t) == IF t \in Interruptible THEN Modes ELSE {"uninterruptible"}

(* What a task does by itself once it has called mutex_lock(); a holder    *)
(* unlocks in the end.                                                     *)
Step(t) ==
  \/ SetOwner(t) \/ ReadOwner(t) \/ SpinOnOwner(t) \/ Cmpxchg(t)
  \/ Queue(t) \/ WaitLoop(t) \/ Done(t) \/ SetCount(t)
  \/ Unlock(t) \/ FastpathUnlock(t) \/ UnlockSlowpath(t) \/ WakeWaiter(t)

Next ==
  \E t \in Tasks :
    \/ \E m \in ModesOf(t) : FastpathLock(t, m)
    \/ Trylock(t)
    \/ Step(t)
    \/ t \in Interruptible /\ \E s \in Signals \ {"none"} : Signal(t, s)
    \/ SpuriousWake(t) \/ Return(t)

Spec == Init /\ [][Next]_vars

(* Every runnable task runs, and is not denied wait_lock forever.          *)
FairSpec == Spec /\ \A t \in Tasks : SF_vars(Step(t))

-----------------------------------------------------------------------------
(* Properties. *)

(* Two tasks never have the mutex, and count is 1 exactly when nobody has  *)
(* it, so no fast path, spinner or woken waiter can take it then.  This is *)
(* "only one task can hold the mutex at a time" (include/linux/mutex.h),   *)
(* through every mixture of failed strex, spinning, stealing and signals.  *)
MutualExclusion ==
  /\ \A t, u \in HasLock : t = u
  /\ count = 1 <=> HasLock = {}
  /\ count <= 1

(* The decrements of fast paths that fail never pile up: the xchg of the   *)
(* slow path each of them leads to undoes it, so count is below -1 by at   *)
(* most the number of tasks on their way there, and cannot wrap around.    *)
Undecided ==
  {t \in Tasks : pc[t] \in {"spin", "spinowner", "try", "trynull", "queue"}}
CountBounded == count + Cardinality(Undecided) >= -1

(* lock->owner, which spinners follow without a lock, is never stale: it   *)
(* is NULL or the task that has the mutex, and a holder is recorded in it. *)
OwnerExact ==
  \A t \in Tasks : owner = t <=> pc[t] \in {"setcount", "holding"}

(* Sections under wait_lock exclude each other, and the list holds exactly *)
(* the tasks in the slow path, once each.                                  *)
ListExact ==
  /\ \A t \in Tasks : wait_lock = t <=> pc[t] \in {"xchg", "done", "setcount", "wake"}
  /\ Distinct(wait_list)
  /\ \A t \in Tasks :
       In(t, wait_list) <=> pc[t] \in {"xchg", "asleep", "woken", "done"}

(* If all the waiters sleep, somebody will wake one: an unlocker is in the *)
(* slow path, or the holder is sent there because count is negative.  It   *)
(* is what lets a spinner steal the lock from a woken waiter, and a waiter *)
(* leave on a signal, without the others sleeping forever.                 *)
NoLostWakeup ==
  wait_list # <<>> /\ (\A i \in Positions(wait_list) : pc[wait_list[i]] = "asleep")
    => \E t \in Tasks :
         \/ pc[t] \in {"unlockslow", "wake"}
         \/ t \in HasLock /\ count < 0

(* While tasks want the mutex, it keeps being taken.  No single waiter is  *)
(* promised it: spinners may overtake the list.                            *)
Progress ==
  (\E t \in Tasks : /\ pc[t] \in {"spin", "queue", "asleep", "woken"}
                   /\ mode[t] = "uninterruptible")
    ~> (\E t \in Tasks : pc[t] = "holding")

(* The mutex is a reader-writer lock without readers. *)
Abstract == INSTANCE RwLock WITH readers <- {}, writers <- HasLock
ImplementsLock == Abstract!Spec

=============================================================================
