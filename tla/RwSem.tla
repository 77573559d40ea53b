------------------------------- MODULE RwSem -------------------------------
(***************************************************************************)
(* The reader-writer semaphore of lib/rwsem-spinlock.c.                    *)
(*                                                                         *)
(* Everything under sem->wait_lock is one action, except the calls of      *)
(* wake_up_process(): a waiter reads its waiter.task without the lock, so  *)
(* it may see that it was granted the lock, and run, before the waker gets *)
(* to wake it.  While waking is not empty the waker still holds wait_lock, *)
(* and no other section can start.                                         *)
(*                                                                         *)
(* pc[t] says where task t is:                                             *)
(*   idle    outside the semaphore code                                    *)
(*   check   in the wait loop, about to test waiter.task                   *)
(*   sched   in the wait loop, in schedule()                               *)
(*   read    it has the lock for reading                                   *)
(*   write   it has the lock for writing                                   *)
(***************************************************************************)
EXTENDS WaitQueue, FiniteSets

CONSTANT Tasks
ASSUME RwAssumption == IsFiniteSet(Tasks)

VARIABLES activity,   \* sem->activity
          wait_list,  \* sem->wait_list, the waiting tasks in order
          flags,      \* waiter.flags of each task: what it waits for
          granted,    \* the waiters whose waiter.task has been NULLed
          waking,     \* the tasks the lock section has still to wake up
          pc,         \* where each task is
          state       \* task->state of each task

vars == <<activity, wait_list, flags, granted, waking, pc, state>>

Places == {"idle", "check", "sched", "read", "write"}
States == {"running", "uninterruptible"}

TypeOK ==
  /\ activity \in Int /\ activity >= -1
  /\ wait_list \in Seq(Tasks)
  /\ flags \in [Tasks -> {"read", "write"}]
  /\ granted \subseteq Tasks
  /\ waking \subseteq Tasks
  /\ pc \in [Tasks -> Places]
  /\ state \in [Tasks -> States]

Init ==
  /\ activity = 0
  /\ wait_list = <<>>
  /\ flags = [t \in Tasks |-> "read"]
  /\ granted = {}
  /\ waking = {}
  /\ pc = [t \in Tasks |-> "idle"]
  /\ state = [t \in Tasks |-> "running"]

Waiting(t) == pc[t] \in {"check", "sched"}

(* The tasks that have the lock: those that run with it, and the waiters   *)
(* it was granted to.                                                      *)
Holders(how) ==
  {t \in Tasks : pc[t] = how \/ (t \in granted /\ flags[t] = how)}

Readers == Holders("read")
Writers == Holders("write")

LockFree == waking = {}   \* sem->wait_lock can be taken

-----------------------------------------------------------------------------
(* The contended half of __down_read and __down_write_nested.              *)
Enqueue(t, how) ==
  /\ wait_list' = Append(wait_list, t)
  /\ flags' = [flags EXCEPT ![t] = how]
  /\ state' = [state EXCEPT ![t] = "uninterruptible"]
  /\ pc' = [pc EXCEPT ![t] = "check"]
  /\ UNCHANGED <<activity, granted, waking>>

Take(t, how, a) ==
  /\ activity' = a
  /\ pc' = [pc EXCEPT ![t] = how]
  /\ UNCHANGED <<wait_list, flags, granted, waking, state>>

(* Mutants: a reader joins the readers although a writer waits, or         *)
(* although a writer has the lock.                                         *)
ReadFreeBarge == activity >= 0
ReadFreeNoCheck == wait_list = <<>>

(* The test a reader, and the test a writer, makes before it queues.       *)
ReadFree == activity >= 0 /\ wait_list = <<>>
WriteFree == activity = 0 /\ wait_list = <<>>

DownRead(t) ==
  /\ LockFree /\ pc[t] = "idle"
  /\ \/ ReadFree /\ Take(t, "read", activity + 1)
     \/ ~ReadFree /\ Enqueue(t, "read")

DownWrite(t) ==
  /\ LockFree /\ pc[t] = "idle"
  /\ \/ WriteFree /\ Take(t, "write", -1)
     \/ ~WriteFree /\ Enqueue(t, "write")

(* The trylocks; without the lock they return 0 and change nothing.        *)
DownReadTrylock(t) ==
  LockFree /\ pc[t] = "idle" /\ ReadFree /\ Take(t, "read", activity + 1)

DownWriteTrylock(t) ==
  LockFree /\ pc[t] = "idle" /\ WriteFree /\ Take(t, "write", -1)

(* The wait loop. *)
CheckWaiter(t) ==
  /\ pc[t] = "check"
  /\ \/ /\ t \in granted
        /\ granted' = granted \ {t}
        /\ pc' = [pc EXCEPT ![t] = flags[t]]
        /\ state' = [state EXCEPT ![t] = "running"]
     \/ /\ t \notin granted
        /\ pc' = [pc EXCEPT ![t] = "sched"]
        /\ UNCHANGED <<granted, state>>
  /\ UNCHANGED <<activity, wait_list, flags, waking>>

(* schedule() returns only to a task that is runnable.                     *)
Schedule(t) ==
  /\ pc[t] = "sched"
  /\ state[t] = "running"
  /\ state' = [state EXCEPT ![t] = "uninterruptible"]
  /\ pc' = [pc EXCEPT ![t] = "check"]
  /\ UNCHANGED <<activity, wait_list, flags, granted, waking>>

-----------------------------------------------------------------------------
(* The first n waiters get the lock: they leave the list, their            *)
(* waiter.task becomes NULL and they are to be woken.                      *)
Grant(n) ==
  /\ wait_list' = Drop(wait_list, n)
  /\ granted' = granted \cup FirstOf(wait_list, n)
  /\ waking' = FirstOf(wait_list, n)

GrantNone == UNCHANGED <<wait_list, granted, waking>>

(* __rwsem_wake_one_writer(): it does not look at the waiter's flags.      *)
WakeOneWriter ==
  /\ activity' = -1
  /\ Grant(1)

(* n is the number of readers at the front of the queue. *)
LeadingReaders(n) ==
  /\ \A i \in 1..n : flags[wait_list[i]] = "read"
  /\ n < Len(wait_list) => flags[wait_list[n + 1]] = "write"

(* dont_wake_writers: with sem->activity = a, all the readers at the front *)
(* of the queue.                                                           *)
WakeReaders(a) ==
  \E n \in 1..Len(wait_list) :
    LeadingReaders(n) /\ Grant(n) /\ activity' = a + n

(* __rwsem_do_wake(sem, wakewrite) on a queue that is not empty, with      *)
(* sem->activity = a.                                                      *)
DoWake(a, wakewrite) ==
  \/ /\ flags[Head(wait_list)] = "write" /\ ~wakewrite
     /\ activity' = a
     /\ GrantNone
  \/ /\ flags[Head(wait_list)] = "write" /\ wakewrite
     /\ activity' = -1
     /\ Grant(1)
  \/ /\ flags[Head(wait_list)] = "read"
     /\ WakeReaders(a)

UpRead(t) ==
  /\ LockFree /\ pc[t] = "read"
  /\ pc' = [pc EXCEPT ![t] = "idle"]
  /\ \/ /\ activity - 1 = 0 /\ wait_list # <<>>
        /\ WakeOneWriter
     \/ /\ activity - 1 # 0 \/ wait_list = <<>>
        /\ activity' = activity - 1 /\ GrantNone
  /\ UNCHANGED <<flags, state>>

UpWrite(t) ==
  /\ LockFree /\ pc[t] = "write"
  /\ pc' = [pc EXCEPT ![t] = "idle"]
  /\ \/ wait_list = <<>> /\ activity' = 0 /\ GrantNone
     \/ wait_list # <<>> /\ DoWake(0, TRUE)
  /\ UNCHANGED <<flags, state>>

(* Mutant: the downgrade that wakes nobody. *)
DowngradeNoWake(t) ==
  /\ LockFree /\ pc[t] = "write"
  /\ pc' = [pc EXCEPT ![t] = "read"]
  /\ activity' = 1 /\ GrantNone
  /\ UNCHANGED <<flags, state>>

DowngradeWrite(t) ==
  /\ LockFree /\ pc[t] = "write"
  /\ pc' = [pc EXCEPT ![t] = "read"]
  /\ \/ wait_list = <<>> /\ activity' = 1 /\ GrantNone
     \/ wait_list # <<>> /\ DoWake(1, FALSE)
  /\ UNCHANGED <<flags, state>>

(* Mutant: the wake-up is dropped. *)
WakeUpLost(t) ==
  /\ t \in waking
  /\ waking' = waking \ {t}
  /\ UNCHANGED <<activity, wait_list, flags, granted, pc, state>>

(* wake_up_process(tsk), with wait_lock held. *)
WakeUp(t) ==
  /\ t \in waking
  /\ waking' = waking \ {t}
  /\ state' = [state EXCEPT ![t] = "running"]
  /\ UNCHANGED <<activity, wait_list, flags, granted, pc>>

(* A wake-up that has nothing to do with this semaphore: the late          *)
(* wake_up_process() of another lock the task has just been granted.       *)
SpuriousWake(t) ==
  /\ Waiting(t) /\ state[t] = "uninterruptible"
  /\ state' = [state EXCEPT ![t] = "running"]
  /\ UNCHANGED <<activity, wait_list, flags, granted, waking, pc>>

Next ==
  \E t \in Tasks :
    \/ DownRead(t) \/ DownWrite(t)
    \/ DownReadTrylock(t) \/ DownWriteTrylock(t)
    \/ CheckWaiter(t) \/ Schedule(t)
    \/ UpRead(t) \/ UpWrite(t) \/ DowngradeWrite(t)
    \/ WakeUp(t) \/ SpuriousWake(t)

Spec == Init /\ [][Next]_vars

(* A runnable task runs, the waker goes on, and holders release the lock.  *)
Fairness ==
  \A t \in Tasks :
    /\ WF_vars(CheckWaiter(t)) /\ WF_vars(Schedule(t)) /\ WF_vars(WakeUp(t))
    /\ SF_vars(UpRead(t)) /\ SF_vars(UpWrite(t))

FairSpec == Spec /\ Fairness

-----------------------------------------------------------------------------
(* Properties. *)

(* sem->activity counts the readers exactly, those that still sleep on a   *)
(* grant included, and is -1 exactly while a writer has the lock: the      *)
(* increments of __down_read, the bulk increment of __rwsem_do_wake, the   *)
(* assignments of the write side and the downgrade never drift apart.      *)
ActivityExact ==
  /\ activity = -1 <=> Writers # {}
  /\ Writers = {} => activity = Cardinality(Readers)

(* While readers have the lock the first waiter is a writer.  The last     *)
(* reader to leave hands the lock to the first waiter as a writer without  *)
(* looking at waiter->flags, so a reader at the head would be let in with  *)
(* sem->activity = -1.                                                     *)
WriterAtHead ==
  activity > 0 /\ wait_list # <<>> => flags[Head(wait_list)] = "write"

(* The lock is not free while a task waits for it.                         *)
NoIdleLock == activity = 0 => wait_list = <<>>

(* The list holds each waiter that has not been granted the lock, once.    *)
ListExact ==
  /\ Distinct(wait_list)
  /\ \A t \in Tasks : In(t, wait_list) <=> (Waiting(t) /\ t \notin granted)

(* A waiter that was granted the lock and is in schedule() is runnable, or *)
(* the waker is about to make it so: neither the unlocked test of          *)
(* waiter.task nor a stray wake-up loses the grant.                        *)
NoLostWakeup ==
  \A t \in granted :
    /\ Waiting(t)
    /\ pc[t] = "sched" /\ state[t] = "uninterruptible" => t \in waking

(* Who comes to hold the lock was first in the queue: nobody still on the  *)
(* list was there before it, so a stream of readers cannot starve a writer.*)
NoOvertaking ==
  [][\A u \in Tasks :
       u \notin Readers \cup Writers /\ u \in (Readers \cup Writers)' =>
         \A j \in Positions(wait_list) :
           In(wait_list[j], wait_list') =>
             \E i \in 1..(j - 1) : wait_list[i] = u]_vars

(* Every task in __down_read or __down_write gets the lock if the holders  *)
(* release it.                                                             *)
LockServed ==
  \A t \in Tasks : Waiting(t) ~> pc[t] \in {"read", "write"}

(* The semaphore is a reader-writer lock. *)
Abstract == INSTANCE RwLock WITH readers <- Readers, writers <- Writers
ImplementsRwLock == Abstract!Spec

(* Readers exclude the writer, and a writer everybody else.                *)
Exclusion == Abstract!Exclusion

=============================================================================
