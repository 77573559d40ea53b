------------------------------ MODULE Kthread ------------------------------
(***************************************************************************)
(* Kernel threads, kernel/kthread.c: kthread_create() asks the kthreadd    *)
(* thread to make a thread, kthread_bind() and wake_up_process() start it, *)
(* kthread_stop() ends it and waits for that, while the thread may be      *)
(* returning by itself.                                                    *)
(*                                                                         *)
(* Each task of Creators makes, binds, wakes and stops one thread at a     *)
(* time; thread c is the one made for task c.  A struct completion is the  *)
(* set of those that were completed (module Completion).                   *)
(*                                                                         *)
(* A task that sets its state to something else than TASK_RUNNING goes on  *)
(* running until schedule(), and does not block there if wake_up_process() *)
(* came in between: in the places "schedule" a task is blocked exactly     *)
(* while it is in the set sleepy.                                          *)
(***************************************************************************)
EXTENDS WaitQueue, FiniteSets

CONSTANTS Creators, Kthreadd

ASSUME KthreadAssumption == IsFiniteSet(Creators) /\ Kthreadd \notin Creators

VARIABLES kthread_create_list,
          sleepy,      \* threads whose task state is not TASK_RUNNING
          kthreadd,    \* where kthreadd is
          create,      \* the request kthreadd works on, or Kthreadd for none
          pc,          \* where each creator is
          thread,      \* where each thread is
          result,      \* create->result of each request
          created,     \* the requests with create->done completed
          should_stop, exited,  \* struct kthread: flags and completions
          vfork_done,  \* the threads whose vfork_done is not NULL
          exit_code,
          woken,       \* auxiliary: the threads wake_up_process() was called for
          started      \* auxiliary: the threads that called threadfn()

kd == <<kthreadd, create>>
request == <<kthread_create_list, result, created>>
struct == <<should_stop, exited, vfork_done, exit_code>>
aux == <<woken, started>>
vars == <<kd, request, struct, sleepy, pc, thread, aux>>

TypeOK ==
  /\ kthread_create_list \in Seq(Creators)
  /\ Len(kthread_create_list) <= Cardinality(Creators)
  /\ sleepy \subseteq Creators \cup {Kthreadd}
  /\ kthreadd \in {"mark", "test", "schedule", "take", "fork"}
  /\ create \in Creators \cup {Kthreadd}
  /\ pc \in [Creators -> {"idle", "wake", "wait", "have", "error", "bind", "warned", "running",
                          "test", "set", "wake2", "exit", "code", "stopped"}]
  /\ thread \in [Creators -> {"none", "new", "told", "schedule", "check", "fn", "fnTest",
                              "fnSchedule", "release", "complete", "dead"}]
  /\ result \in [Creators -> {"none", "task", "error"}]
  /\ exit_code \in [Creators -> {"0", "EINTR", "ret"}]
  /\ \A S \in {created, should_stop, exited, vfork_done, woken, started} : S \subseteq Creators

Init ==
  /\ kthread_create_list = <<>> /\ sleepy = {}
  /\ kthreadd = "mark" /\ create = Kthreadd
  /\ pc = [c \in Creators |-> "idle"]
  /\ thread = [c \in Creators |-> "none"]
  /\ result = [c \in Creators |-> "none"]
  /\ exit_code = [c \in Creators |-> "0"]
  /\ created = {} /\ should_stop = {} /\ exited = {} /\ vfork_done = {}
  /\ woken = {} /\ started = {}

Goto(c, from, to) == pc[c] = from /\ pc' = [pc EXCEPT ![c] = to]
Move(c, from, to) == thread[c] = from /\ thread' = [thread EXCEPT ![c] = to]

-----------------------------------------------------------------------------
(* Mutant: list_add() instead of list_add_tail(). *)
KthreadCreateAtHead(c) ==
  /\ Goto(c, "idle", "wake")
  /\ kthread_create_list' = <<c>> \o kthread_create_list
  /\ result' = [result EXCEPT ![c] = "none"]
  /\ created' = created \ {c}
  /\ UNCHANGED <<kd, struct, sleepy, thread, aux>>

(* kthread_create(): queue the request, wake kthreadd, wait for the answer. *)
KthreadCreate(c) ==
  /\ Goto(c, "idle", "wake")
  /\ kthread_create_list' = Append(kthread_create_list, c)
  /\ result' = [result EXCEPT ![c] = "none"]
  /\ created' = created \ {c}
  /\ UNCHANGED <<kd, struct, sleepy, thread, aux>>

WakeKthreadd(c) ==
  /\ Goto(c, "wake", "wait")
  /\ sleepy' = sleepy \ {Kthreadd}
  /\ UNCHANGED <<kd, request, struct, thread, aux>>

WaitForCreated(c) ==
  /\ c \in created
  /\ Goto(c, "wait", IF result[c] = "task" THEN "have" ELSE "error")
  /\ UNCHANGED <<kd, request, struct, sleepy, thread, aux>>

(* The caller gives up, or tries again. *)
CreateFailed(c) ==
  /\ Goto(c, "error", "idle")
  /\ UNCHANGED <<kd, request, struct, sleepy, thread, aux>>

(* kthread_bind(): wait_task_inactive() waits until the thread is off its  *)
(* CPU, and fails if it is not in TASK_UNINTERRUPTIBLE.                    *)
KthreadBind(c) ==
  /\ c \in sleepy => thread[c] = "schedule"
  /\ Goto(c, "have", IF c \in sleepy THEN "bind" ELSE "warned")
  /\ UNCHANGED <<kd, request, struct, sleepy, thread, aux>>

(* wake_up_process(k), by the creator, after kthread_bind() or without it.  *)
WakeUpProcess(c) ==
  /\ Goto(c, "have", "running") \/ Goto(c, "bind", "running")
  /\ sleepy' = sleepy \ {c}
  /\ woken' = woken \cup {c}
  /\ UNCHANGED <<kd, request, struct, thread, started>>

(* kthread_stop(): to_kthread(k), a first look at k->vfork_done. *)
KthreadStop(c) ==
  /\ \E from \in {"have", "bind", "running"} : Goto(c, from, "test")
  /\ UNCHANGED <<kd, request, struct, sleepy, thread, aux>>

(* if (k->vfork_done != NULL): it might have exited. *)
StopTest(c) ==
  /\ Goto(c, "test", IF c \in vfork_done THEN "set" ELSE "code")
  /\ UNCHANGED <<kd, request, struct, sleepy, thread, aux>>

(* Mutant: the thread is woken before it is told to stop. *)
StopWakeFirst(c) ==
  \/ /\ Goto(c, "set", "wake2")
     /\ sleepy' = sleepy \ {c}
     /\ UNCHANGED <<kd, request, struct, thread, aux>>
  \/ /\ Goto(c, "wake2", "exit")
     /\ should_stop' = should_stop \cup {c}
     /\ UNCHANGED <<kd, request, exited, vfork_done, exit_code, sleepy, thread, aux>>

(* kthread->should_stop = 1; wake_up_process(k). *)
StopSetAndWake(c) ==
  \/ /\ Goto(c, "set", "wake2")
     /\ should_stop' = should_stop \cup {c}
     /\ UNCHANGED <<kd, request, exited, vfork_done, exit_code, sleepy, thread, aux>>
  \/ /\ Goto(c, "wake2", "exit")
     /\ sleepy' = sleepy \ {c}
     /\ UNCHANGED <<kd, request, struct, thread, aux>>

(* wait_for_completion(&kthread->exited); ret = k->exit_code. *)
WaitForExited(c) ==
  /\ c \in exited
  /\ Goto(c, "exit", "code")
  /\ exited' = exited \ {c}
  /\ UNCHANGED <<kd, request, should_stop, vfork_done, exit_code, sleepy, thread, aux>>

ReadExitCode(c) ==
  /\ Goto(c, "code", "stopped")
  /\ UNCHANGED <<kd, request, struct, sleepy, thread, aux>>

(* kthread_stop() has returned and the task_struct goes away. *)
Forget(c) ==
  /\ thread[c] = "dead"
  /\ Goto(c, "stopped", "idle")
  /\ thread' = [thread EXCEPT ![c] = "none"]
  /\ exit_code' = [exit_code EXCEPT ![c] = "0"]
  /\ should_stop' = should_stop \ {c} /\ exited' = exited \ {c}
  /\ sleepy' = sleepy \ {c}
  /\ woken' = woken \ {c} /\ started' = started \ {c}
  /\ UNCHANGED <<kd, request, vfork_done>>

-----------------------------------------------------------------------------
(* Mutant: kthreadd looks at the list before it sets its state. *)
KthreaddTestFirst ==
  /\ \/ /\ kthreadd = "mark"
        /\ kthreadd' = IF kthread_create_list = <<>> THEN "test" ELSE "take"
        /\ UNCHANGED sleepy
     \/ kthreadd = "test" /\ kthreadd' = "schedule" /\ sleepy' = sleepy \cup {Kthreadd}
     \/ kthreadd = "schedule" /\ Kthreadd \notin sleepy /\ kthreadd' = "take" /\ UNCHANGED sleepy
  /\ UNCHANGED <<create, request, struct, pc, thread, aux>>

(* kthreadd(): set_current_state(TASK_INTERRUPTIBLE), then look at the     *)
(* list without the lock, then schedule() or go on.                        *)
KthreaddSleep ==
  /\ \/ kthreadd = "mark" /\ kthreadd' = "test" /\ sleepy' = sleepy \cup {Kthreadd}
     \/ /\ kthreadd = "test"
        /\ IF kthread_create_list = <<>>
           THEN kthreadd' = "schedule" /\ UNCHANGED sleepy
           ELSE kthreadd' = "take" /\ sleepy' = sleepy \ {Kthreadd}
     \/ kthreadd = "schedule" /\ Kthreadd \notin sleepy /\ kthreadd' = "take" /\ UNCHANGED sleepy
  /\ UNCHANGED <<create, request, struct, pc, thread, aux>>

(* The loop over the list, under kthread_create_lock. *)
KthreaddTake ==
  /\ kthreadd = "take"
  /\ IF kthread_create_list = <<>>
     THEN kthreadd' = "mark" /\ UNCHANGED <<kthread_create_list, create>>
     ELSE /\ create' = Head(kthread_create_list)
          /\ kthread_create_list' = Tail(kthread_create_list)
          /\ kthreadd' = "fork"
  /\ UNCHANGED <<result, created, struct, sleepy, pc, thread, aux>>

(* create_kthread(): kernel_thread() makes the thread, or fails. *)
CreateKthread ==
  /\ kthreadd = "fork"
  /\ Move(create, "none", "new")
  /\ create' = Kthreadd /\ kthreadd' = "take"
  /\ UNCHANGED <<request, struct, sleepy, pc, aux>>

CreateKthreadFails ==
  /\ kthreadd = "fork"
  /\ result' = [result EXCEPT ![create] = "error"]
  /\ created' = created \cup {create}
  /\ create' = Kthreadd /\ kthreadd' = "take"
  /\ UNCHANGED <<kthread_create_list, struct, sleepy, pc, thread, aux>>

-----------------------------------------------------------------------------
(* Mutant: the creator is told before the thread's state is set. *)
TellFirst(c) ==
  \/ /\ Move(c, "new", "told")
     /\ vfork_done' = vfork_done \cup {c}
     /\ result' = [result EXCEPT ![c] = "task"] /\ created' = created \cup {c}
     /\ UNCHANGED <<kd, kthread_create_list, should_stop, exited, exit_code, sleepy, pc, aux>>
  \/ /\ Move(c, "told", "schedule")
     /\ sleepy' = sleepy \cup {c}
     /\ UNCHANGED <<kd, request, struct, pc, aux>>

(* kthread(): set up self and vfork_done, set the state and the result     *)
(* (nobody looks before the next step), then complete(&create->done).      *)
Tell(c) ==
  \/ /\ Move(c, "new", "told")
     /\ vfork_done' = vfork_done \cup {c}
     /\ sleepy' = sleepy \cup {c}
     /\ result' = [result EXCEPT ![c] = "task"]
     /\ UNCHANGED <<kd, kthread_create_list, created, should_stop, exited, exit_code, pc, aux>>
  \/ /\ Move(c, "told", "schedule")
     /\ created' = created \cup {c}
     /\ UNCHANGED <<kd, kthread_create_list, result, struct, sleepy, pc, aux>>

(* schedule() returns: wake_up_process() or kthread_stop() was called. *)
Scheduled(c) ==
  /\ c \notin sleepy
  /\ Move(c, "schedule", "check")
  /\ UNCHANGED <<kd, request, struct, sleepy, pc, aux>>

(* Mutant: should_stop is not looked at. *)
CheckNot(c) ==
  /\ Move(c, "check", "fn")
  /\ started' = started \cup {c}
  /\ UNCHANGED <<kd, request, struct, sleepy, pc, woken>>

(* if (!self.should_stop) ret = threadfn(data); otherwise do_exit(-EINTR). *)
Check(c) ==
  /\ \/ /\ c \notin should_stop
        /\ Move(c, "check", "fn")
        /\ started' = started \cup {c}
        /\ UNCHANGED exit_code
     \/ /\ c \in should_stop
        /\ Move(c, "check", "release")
        /\ exit_code' = [exit_code EXCEPT ![c] = "EINTR"]
        /\ UNCHANGED started
  /\ UNCHANGED <<kd, request, should_stop, exited, vfork_done, sleepy, pc, woken>>

(* threadfn(): it goes to sleep the way worker_thread() does, and returns  *)
(* when kthread_should_stop(), ...                                         *)
ThreadfnSleep(c) ==
  /\ \/ Move(c, "fn", "fnTest") /\ c \notin should_stop /\ sleepy' = sleepy \cup {c}
     \/ Move(c, "fnTest", "fnSchedule") /\ c \notin should_stop /\ UNCHANGED sleepy
     \/ Move(c, "fnTest", "fn") /\ c \in should_stop /\ sleepy' = sleepy \ {c}
     \/ Move(c, "fnSchedule", "fn") /\ c \notin sleepy /\ UNCHANGED sleepy
  /\ UNCHANGED <<kd, request, struct, pc, aux>>

(* ... or by itself, and do_exit() sets the exit code. *)
ThreadfnReturn(c) ==
  /\ Move(c, "fn", "release")
  /\ exit_code' = [exit_code EXCEPT ![c] = "ret"]
  /\ UNCHANGED <<kd, request, should_stop, exited, vfork_done, sleepy, pc, aux>>

(* mm_release(): vfork_done = NULL, ... *)
MmRelease(c) ==
  /\ Move(c, "release", "complete")
  /\ vfork_done' = vfork_done \ {c}
  /\ UNCHANGED <<kd, request, should_stop, exited, exit_code, sleepy, pc, aux>>

(* ... complete(vfork_done). *)
CompleteVfork(c) ==
  /\ Move(c, "complete", "dead")
  /\ exited' = exited \cup {c}
  /\ UNCHANGED <<kd, request, should_stop, vfork_done, exit_code, sleepy, pc, aux>>

-----------------------------------------------------------------------------
(* What a creator does without being asked to, and what it then has to do. *)
Start(c) == KthreadCreate(c) \/ KthreadBind(c) \/ WakeUpProcess(c) \/ KthreadStop(c)

CreatorStep(c) ==
  \/ WakeKthreadd(c) \/ WaitForCreated(c) \/ CreateFailed(c)
  \/ StopTest(c) \/ StopSetAndWake(c) \/ WaitForExited(c) \/ ReadExitCode(c) \/ Forget(c)

KthreaddStep == KthreaddSleep \/ KthreaddTake \/ CreateKthread \/ CreateKthreadFails

ThreadStep(c) ==
  \/ Tell(c) \/ Scheduled(c) \/ Check(c) \/ ThreadfnSleep(c) \/ MmRelease(c) \/ CompleteVfork(c)

Next ==
  \/ KthreaddStep
  \/ \E c \in Creators : Start(c) \/ CreatorStep(c) \/ ThreadStep(c) \/ ThreadfnReturn(c)

Spec == Init /\ [][Next]_vars

(* Runnable tasks run; a threadfn() told to stop returns. *)
FairSpec ==
  /\ Spec
  /\ WF_vars(KthreaddStep)
  /\ \A c \in Creators :
       /\ WF_vars(CreatorStep(c)) /\ WF_vars(ThreadStep(c))
       /\ WF_vars(c \in should_stop /\ ThreadfnReturn(c))

-----------------------------------------------------------------------------
(* Properties. *)

(* The struct kthread_create_info is on the stack of kthread_create(): a   *)
(* request that is in the list, that kthreadd works on or that a new       *)
(* thread reads and answers belongs to a call that has not returned, and   *)
(* is in one of those three places only.                                   *)
CreateInfoAlive ==
  /\ TypeOK
  /\ Distinct(kthread_create_list)
  /\ \A c \in Creators :
       LET places == {p \in {"list", "kthreadd", "thread"} :
                        \/ p = "list" /\ In(c, kthread_create_list)
                        \/ p = "kthreadd" /\ create = c
                        \/ p = "thread" /\ thread[c] \in {"new", "told"}}
       IN  /\ places # {} => pc[c] \in {"wake", "wait"} /\ c \notin created
           /\ \A p, q \in places : p = q

(* kthreadd does not sleep over a request: if it is blocked and the list   *)
(* is not empty, some kthread_create() has still to wake it.               *)
NoLostRequest ==
  kthreadd = "schedule" /\ Kthreadd \in sleepy /\ kthread_create_list # <<>> =>
    \E c \in Creators : pc[c] = "wake"

(* The thread kthread_create() returns is stopped as kthread_bind() needs  *)
(* it, though it may still be on its way to schedule().                    *)
BindAllowed == \A c \in Creators : pc[c] # "warned"

(* kthread_stop() returns only when the thread is past threadfn() and will *)
(* not call it any more, and with its result: -EINTR exactly if threadfn() *)
(* was never called, which is so if nobody woke the thread before.         *)
StopSound ==
  \A c \in Creators : pc[c] = "stopped" =>
    /\ thread[c] \in {"complete", "dead"}
    /\ exit_code[c] = IF c \in started THEN "ret" ELSE "EINTR"
    /\ c \in started => c \in woken

(* kthread_create() returns, with a thread or with an error.               *)
CreateReturns == \A c \in Creators : pc[c] = "wait" ~> pc[c] \in {"have", "error"}

(* kthread_stop() returns, whether the thread had not started, runs,       *)
(* sleeps, was about to sleep or was about to exit.                        *)
StopReturns == \A c \in Creators : pc[c] = "test" ~> pc[c] = "stopped"

=============================================================================
