----------------------------- MODULE WorkQueue -----------------------------
(***************************************************************************)
(* Workqueues, kernel/workqueue.c: one multi-threaded workqueue, works     *)
(* that are queued from anywhere, directly or by a timer, the worker of    *)
(* each CPU, and tasks that flush, cancel and take CPUs down and up.       *)
(*                                                                         *)
(* A section under cwq->lock is one action, except insert_work(): the      *)
(* write of work->data and the list_add_tail() are two, because tasks that *)
(* hold the lock of another cwq look at both.  work->data and its pending  *)
(* bit are read and written without a lock.                                *)
(*                                                                         *)
(* Whoever set the pending bit of a work owns it, so that at most one      *)
(* queueing of a work is in progress (queueing[w]):                        *)
(*   none                                                                  *)
(*   insert  the pending bit is set, __queue_work() comes next             *)
(*   add     cwq->lock is held and set_wq_data() done, list_add_tail() next*)
(*   delay   the pending bit is set, set_wq_data() for the timer next      *)
(*   arm     add_timer() next                                              *)
(*                                                                         *)
(* How a worker sleeps on cwq->more_work and how kthread_stop() works is   *)
(* the subject of Kthread; a barrier's completion that of Completion.      *)
(***************************************************************************)
EXTENDS WaitQueue, FiniteSets

CONSTANTS Tasks, Works,
          NCpus,     \* CPUs are 1 .. NCpus
          Roles      \* bound: which functions the tasks call together

NoWork == "none"

(* The functions that tasks call, on this workqueue. *)
Flushes == {"flush_workqueue", "flush_work", "flush_delayed_work"}
Functions == Flushes \cup {"cancel_work_sync", "cancel_delayed_work_sync",
                        "cancel_delayed_work", "cpu_down"}

ASSUME WorkQueueAssumption ==
  /\ NCpus \in Nat \ {0} /\ NCpus <= 2  \* CONFIG_NR_CPUS; why it matters: GrabLock
  /\ NoWork \notin Works \cup Tasks
  /\ Tasks \cap Works = {} /\ IsFiniteSet(Tasks \cup Works)
  /\ Roles \subseteq [Tasks -> SUBSET Functions]

VARIABLES worklist,     \* of each CPU: works, and barriers (of the task that waits)
          current_work, \* of each CPU
          worker,       \* where each CPU's worker_thread() is
          should_stop,  \* the CPUs whose worker has been told to stop
          pending,      \* the works with WORK_STRUCT_PENDING
          cwq,          \* get_wq_data(): the CPU, or 0 for NULL
          timer,        \* the works whose timer is pending
          firing,       \* the works whose delayed_work_timer_fn() runs
          queueing,     \* see above
          pc, loc,      \* where each task is, and its local variables
          done,         \* the tasks whose barrier has completed
          online, populated,  \* cpu_online_mask, cpu_populated_map
          role,         \* the functions each task calls, one of Roles
          owed          \* auxiliary: what a flush has to wait for, see Owed

lists == <<worklist, current_work, worker, should_stop>>
data == <<pending, cwq, timer, firing>>
cpus == <<online, populated, role>>
task == <<pc, loc>>
vars == <<lists, data, queueing, task, done, cpus, owed>>

Cpus == 1 .. NCpus
NULL == 0
Idle == [st |-> "none", cpu |-> NULL]
Nothing == [work |-> NoWork, cpu |-> NULL, cwq |-> NULL, ret |-> 0, delayed |-> FALSE]

(* What a flush can owe: the queued instance of a work, and the instance   *)
(* that a CPU's worker executes.                                           *)
Owed == {<<"queued", w>> : w \in Works} \cup {<<"running", c>> : c \in Cpus}

TypeOK ==
  /\ worklist \in [Cpus -> Seq(Works \cup Tasks)]
  /\ current_work \in [Cpus -> Works \cup Tasks \cup {NoWork}]
  /\ worker \in [Cpus -> {"new", "top", "loop", "clear", "func", "end", "dead"}]
  /\ should_stop \subseteq Cpus /\ online \subseteq Cpus /\ populated \subseteq Cpus
  /\ pending \subseteq Works /\ timer \subseteq pending /\ firing \subseteq pending
  /\ cwq \in [Works -> Cpus \cup {NULL}]
  /\ queueing \in [Works -> {Idle} \cup
                   [st : {"insert", "add", "delay", "arm"}, cpu : Cpus]]
  /\ pc \in [Tasks -> {"idle", "flushCpu", "flushWait", "flushed",
                       "flushDelayed", "flushWork", "flushLock", "flushWorkWait",
                       "again", "grab", "grabRead", "grabLock", "waitRead", "waitOn", "waitOnWait",
                       "clear", "clearPending", "down", "downWait", "stop", "exit"}]
  /\ loc \in [Tasks -> [work : Works \cup {NoWork}, cpu : 0 .. NCpus, cwq : 0 .. NCpus,
                        ret : -1 .. 1, delayed : BOOLEAN]]
  /\ done \subseteq Tasks /\ role \in Roles
  /\ owed \in [Tasks -> SUBSET Owed]

Init ==
  /\ worklist = [c \in Cpus |-> <<>>]
  /\ current_work = [c \in Cpus |-> NoWork]
  /\ worker = [c \in Cpus |-> "top"]
  /\ should_stop = {} /\ online = Cpus /\ populated = Cpus
  /\ pending = {} /\ timer = {} /\ firing = {}
  /\ cwq = [w \in Works |-> NULL]
  /\ queueing = [w \in Works |-> Idle]
  /\ pc = [t \in Tasks |-> "idle"] /\ loc = [t \in Tasks |-> Nothing]
  /\ done = {} /\ role \in Roles
  /\ owed = [t \in Tasks |-> {}]

Unlocked(c) == \A w \in Works : queueing[w] # [st |-> "add", cpu |-> c]
ListEmpty(w) == \A c \in Cpus : ~In(w, worklist[c])   \* list_empty(&work->entry)
InsertAt(s, i, x) == SubSeq(s, 1, i - 1) \o <<x>> \o SubSeq(s, i, Len(s))

-----------------------------------------------------------------------------
(* Queueing, by any task, interrupt or work function. *)

(* A flush_work() of w no longer has to wait for it. *)
Requeued(w) ==
  [t \in Tasks |-> IF loc[t].work = w THEN {} ELSE owed[t]]

Stage(w, st, c) == queueing' = [queueing EXCEPT ![w] = [st |-> st, cpu |-> c]]

(* Mutant: the pending bit is not tested. *)
QueueWorkAny(w, c) ==
  /\ c \in online /\ queueing[w] = Idle
  /\ pending' = pending \cup {w}
  /\ Stage(w, "insert", c)
  /\ UNCHANGED <<lists, cwq, timer, firing, task, done, cpus, owed>>

(* queue_work_on(), and queue_work() on the CPU it runs on: nothing is     *)
(* done if test_and_set_bit() finds the work pending.                      *)
QueueWorkOn(w, c) ==
  /\ c \in online
  /\ w \notin pending
  /\ pending' = pending \cup {w}
  /\ Stage(w, "insert", c)
  /\ UNCHANGED <<lists, cwq, timer, firing, task, done, cpus, owed>>

(* __queue_work(): take cwq->lock and set_wq_data(). *)
SetWqData(w) ==
  /\ queueing[w].st = "insert" /\ Unlocked(queueing[w].cpu)
  /\ cwq' = [cwq EXCEPT ![w] = queueing[w].cpu]
  /\ Stage(w, "add", queueing[w].cpu)
  /\ owed' = Requeued(w)
  /\ UNCHANGED <<lists, pending, timer, firing, task, done, cpus>>

(* list_add_tail(), wake_up() and unlock.  A flush_delayed_work() that     *)
(* queued the work goes on.                                                *)
ListAddTail(w) ==
  /\ queueing[w].st = "add"
  /\ worklist' = [worklist EXCEPT ![queueing[w].cpu] = Append(@, w)]
  /\ firing' = firing \ {w}
  /\ queueing' = [queueing EXCEPT ![w] = Idle]
  /\ pc' = [t \in Tasks |-> IF pc[t] = "flushDelayed" /\ loc[t].work = w
                            THEN "flushWork" ELSE pc[t]]
  /\ UNCHANGED <<current_work, worker, should_stop, pending, cwq, timer, loc, done, cpus, owed>>

(* queue_delayed_work_on(): set_wq_data() for the timer, then add_timer(). *)
QueueDelayedWorkOn(w, c) ==
  /\ c \in online
  /\ w \notin pending
  /\ pending' = pending \cup {w}
  /\ Stage(w, "delay", c)
  /\ UNCHANGED <<lists, cwq, timer, firing, task, done, cpus, owed>>

SetWqDataForTimer(w) ==
  /\ queueing[w].st = "delay"
  /\ cwq' = [cwq EXCEPT ![w] = queueing[w].cpu]
  /\ Stage(w, "arm", queueing[w].cpu)
  /\ UNCHANGED <<lists, pending, timer, firing, task, done, cpus, owed>>

AddTimer(w) ==
  /\ queueing[w].st = "arm"
  /\ timer' = timer \cup {w}
  /\ queueing' = [queueing EXCEPT ![w] = Idle]
  /\ UNCHANGED <<lists, pending, cwq, firing, task, done, cpus, owed>>

(* The timer expires, and delayed_work_timer_fn() queues on its CPU. *)
DelayedWorkTimerFn(w, c) ==
  /\ w \in timer /\ c \in online
  /\ timer' = timer \ {w} /\ firing' = firing \cup {w}
  /\ Stage(w, "insert", c)
  /\ UNCHANGED <<lists, pending, cwq, task, done, cpus, owed>>

Queueing(w) == SetWqData(w) \/ ListAddTail(w) \/ SetWqDataForTimer(w) \/ AddTimer(w)

-----------------------------------------------------------------------------
(* worker_thread() and run_workqueue(). *)

WorkerAt(c, from, to) == worker[c] = from /\ worker' = [worker EXCEPT ![c] = to]

(* The worker is woken; it leaves if it should stop, and otherwise runs    *)
(* the list.                                                               *)
WorkerThread(c) ==
  /\ worklist[c] # <<>> \/ c \in should_stop
  /\ WorkerAt(c, "top", IF c \in should_stop THEN "dead" ELSE "loop")
  /\ UNCHANGED <<worklist, current_work, should_stop, data, queueing, task, done, cpus, owed>>

(* What the tasks are owed when CPU c takes x from its list. *)
Taken(c, x) ==
  [t \in Tasks |-> IF <<"queued", x>> \in owed[t]
                   THEN (owed[t] \ {<<"queued", x>>}) \cup {<<"running", c>>} ELSE owed[t]]

(* The loop of run_workqueue(), under the lock: take the first entry.      *)
TakeWork(c) ==
  /\ worker[c] = "loop" /\ Unlocked(c)
  /\ IF worklist[c] = <<>>
     THEN WorkerAt(c, "loop", "top") /\ UNCHANGED <<worklist, current_work, owed>>
     ELSE /\ WorkerAt(c, "loop", IF Head(worklist[c]) \in Works THEN "clear" ELSE "func")
          /\ current_work' = [current_work EXCEPT ![c] = Head(worklist[c])]
          /\ worklist' = [worklist EXCEPT ![c] = Tail(@)]
          /\ owed' = Taken(c, Head(worklist[c]))
  /\ UNCHANGED <<should_stop, data, queueing, task, done, cpus>>

(* work_clear_pending(), and f(work) begins (nobody looks at the pending   *)
(* bit of a barrier).                                                      *)
ClearPending(c) ==
  /\ WorkerAt(c, "clear", "func")
  /\ pending' = pending \ {current_work[c]}
  /\ UNCHANGED <<worklist, current_work, should_stop, cwq, timer, firing, queueing, task, done, cpus, owed>>

(* f(work) returns; that of a barrier is wq_barrier_func(). *)
WorkFunc(c) ==
  /\ WorkerAt(c, "func", "end")
  /\ done' = IF current_work[c] \in Tasks THEN done \cup {current_work[c]} ELSE done
  /\ owed' = [t \in Tasks |-> owed[t] \ {<<"running", c>>}]
  /\ UNCHANGED <<worklist, current_work, should_stop, data, queueing, task, cpus>>

(* cwq->current_work = NULL, under the lock. *)
WorkDone(c) ==
  /\ WorkerAt(c, "end", "loop") /\ Unlocked(c)
  /\ current_work' = [current_work EXCEPT ![c] = NoWork]
  /\ UNCHANGED <<worklist, should_stop, data, queueing, task, done, cpus, owed>>

Worker(c) ==
  WorkerThread(c) \/ TakeWork(c) \/ ClearPending(c) \/ WorkFunc(c) \/ WorkDone(c)

-----------------------------------------------------------------------------
(* Tasks. *)

Goto(t, from, to, l) ==
  /\ pc[t] = from
  /\ pc' = [pc EXCEPT ![t] = to] /\ loc' = [loc EXCEPT ![t] = l]

(* insert_wq_barrier() *)
InsertBarrier(t, c, i) ==
  /\ worklist' = [worklist EXCEPT ![c] = InsertAt(@, i, t)]
  /\ done' = done \ {t}

NoBarrier == UNCHANGED <<worklist, done>>

(* for_each_cpu(): go on with the next CPU, or leave the loop. *)
NextCpu(t, from, at, after) ==
  IF loc[t].cpu < NCpus THEN Goto(t, from, at, [loc[t] EXCEPT !.cpu = @ + 1])
  ELSE Goto(t, from, after, [loc[t] EXCEPT !.cpu = NULL])

(* The body of such a loop: wait for a barrier at position i of the list   *)
(* if the condition holds.                                                 *)
LoopStep(t, at, wait, after, cond, i) ==
  /\ pc[t] = at /\ Unlocked(loc[t].cpu)
  /\ IF loc[t].cpu \in populated /\ cond
     THEN Goto(t, at, wait, loc[t]) /\ InsertBarrier(t, loc[t].cpu, i)
     ELSE NextCpu(t, at, at, after) /\ NoBarrier
  /\ UNCHANGED <<current_work, worker, should_stop, data, queueing, cpus, owed>>

(* Mutant: a cancel that did not get the work does not try again. *)
AfterWaitOnce(l) == "clear"

(* After the loop of wait_on_work(), __cancel_work_timer() starts again if *)
(* it did not get the work.                                                *)
AfterWait(l) == IF l.ret < 0 THEN "again" ELSE "clear"

(* wait_for_completion(&barr->done) *)
BarrierWait(t) ==
  /\ t \in done
  /\ done' = done \ {t}
  /\ \/ NextCpu(t, "flushWait", "flushCpu", "flushed")
     \/ NextCpu(t, "waitOnWait", "waitOn", AfterWait(loc[t]))
     \/ Goto(t, "flushWorkWait", "flushed", loc[t])
     \/ Goto(t, "downWait", "stop", loc[t])
  /\ UNCHANGED <<lists, data, queueing, cpus, owed>>

(* Mutant: only the list is looked at. *)
ActiveListOnly(c) == worklist[c] # <<>>

(* What flush_cpu_workqueue() waits for. *)
Active(c) == worklist[c] # <<>> \/ current_work[c] # NoWork

(* flush_workqueue(): what is queued or running now must be waited for.    *)
FlushWorkqueue(t) ==
  /\ Goto(t, "idle", "flushCpu", [Nothing EXCEPT !.cpu = 1])
  /\ owed' = [owed EXCEPT ![t] =
       {<<"queued", w>> : w \in {w \in Works : ~ListEmpty(w)}} \cup
       {<<"running", c>> : c \in {c \in Cpus : worker[c] \in {"clear", "func"}}}]
  /\ UNCHANGED <<lists, data, queueing, done, cpus>>

(* Mutant: wait until the CPU has nothing to do. *)
FlushCpuEmpty(t) ==
  /\ loc[t].cpu \in populated => ~Active(loc[t].cpu)
  /\ LoopStep(t, "flushCpu", "flushWait", "flushed", FALSE, 1)

(* flush_cpu_workqueue() for each CPU. *)
FlushCpu(t) ==
  LoopStep(t, "flushCpu", "flushWait", "flushed",
           Active(loc[t].cpu), Len(worklist[loc[t].cpu]) + 1)

(* Mutant: the timer is deleted and the work forgotten. *)
FlushDelayedWorkLost(t, w, c) ==
  /\ c \in online /\ w \notin firing
  /\ Goto(t, "idle", "flushWork", [Nothing EXCEPT !.work = w])
  /\ timer' = timer \ {w}
  /\ UNCHANGED <<lists, pending, cwq, firing, queueing, done, cpus, owed>>

(* flush_delayed_work(): a timer that is pending is deleted and the work   *)
(* queued at once; del_timer_sync() waits for a timer function.            *)
FlushDelayedWork(t, w, c) ==
  /\ c \in online
  /\ LET l == [Nothing EXCEPT !.work = w] IN
     IF w \in timer
     THEN Goto(t, "idle", "flushDelayed", l) /\ timer' = timer \ {w} /\ Stage(w, "insert", c)
     ELSE /\ Goto(t, "idle", "flushWork", l)
          /\ w \notin firing
          /\ UNCHANGED <<timer, queueing>>
  /\ UNCHANGED <<lists, pending, cwq, firing, done, cpus, owed>>

(* flush_work(): cwq = get_wq_data(work).  From here on the work that was  *)
(* queued last must be waited for.                                         *)
FlushWork(t, w) ==
  /\ \E from \in {"idle", "flushWork"} :
       /\ from = "flushWork" => loc[t].work = w
       /\ Goto(t, from, IF cwq[w] = NULL THEN "flushed" ELSE "flushLock",
               [Nothing EXCEPT !.work = w, !.cwq = cwq[w]])
  /\ owed' = [owed EXCEPT ![t] =
       IF ~ListEmpty(w) THEN {<<"queued", w>>}
       ELSE {<<"running", c>> : c \in {c \in Cpus : /\ c = cwq[w] /\ current_work[c] = w
                                                    /\ worker[c] \in {"clear", "func"}}}]
  /\ UNCHANGED <<lists, data, queueing, done, cpus>>

(* Under the lock: a barrier behind the work in the list, or in front of   *)
(* the list if the work is running.                                        *)
FlushLock(t) ==
  LET w == loc[t].work
      c == loc[t].cwq
  IN  /\ pc[t] = "flushLock" /\ Unlocked(c)
      /\ \/ /\ ~ListEmpty(w) /\ cwq[w] = c
            /\ \E i \in Positions(worklist[c]) :
                 worklist[c][i] = w /\ InsertBarrier(t, c, i + 1)
            /\ Goto(t, "flushLock", "flushWorkWait", [loc[t] EXCEPT !.cwq = NULL])
         \/ /\ ListEmpty(w) /\ current_work[c] = w
            /\ InsertBarrier(t, c, 1)
            /\ Goto(t, "flushLock", "flushWorkWait", [loc[t] EXCEPT !.cwq = NULL])
         \/ /\ IF ListEmpty(w) THEN current_work[c] # w ELSE cwq[w] # c
            /\ NoBarrier
            /\ Goto(t, "flushLock", "flushed", [loc[t] EXCEPT !.cwq = NULL])
      /\ UNCHANGED <<current_work, worker, should_stop, data, queueing, cpus, owed>>

(* A flush returns. *)
Flushed(t) ==
  /\ Goto(t, "flushed", "idle", Nothing)
  /\ owed' = [owed EXCEPT ![t] = {}]
  /\ UNCHANGED <<lists, data, queueing, done, cpus>>

(* __cancel_work_timer(), for cancel_work_sync() and                       *)
(* cancel_delayed_work_sync(): a task that begins or that tries again.     *)
Cancel(t, w, delayed, from, to, ret) ==
  /\ from = "again" => loc[t].work = w /\ loc[t].delayed = delayed
  /\ Goto(t, from, to, [Nothing EXCEPT !.work = w, !.delayed = delayed, !.ret = ret])

(* del_timer(), ... *)
DelTimer(t, w) ==
  /\ \E from \in {"idle", "again"} :
       IF w \in timer THEN Cancel(t, w, TRUE, from, "waitRead", 1)
       ELSE Cancel(t, w, TRUE, from, "grab", 0)
  /\ timer' = timer \ {w}
  /\ UNCHANGED <<lists, pending, cwq, firing, queueing, done, cpus, owed>>

(* ... try_to_grab_pending(): test_and_set_bit(), ... *)
Grab(t, w) ==
  /\ \E at \in {<<"idle", FALSE>>, <<"again", FALSE>>, <<"grab", TRUE>>} :
       /\ pc[t] = "grab" => loc[t].work = w
       /\ IF w \notin pending THEN Cancel(t, w, at[2], at[1], "waitRead", 0)
          ELSE Cancel(t, w, at[2], at[1], "grabRead", 0)
  /\ pending' = pending \cup {w}
  /\ UNCHANGED <<lists, cwq, timer, firing, queueing, done, cpus, owed>>

(* ... cwq = get_wq_data(work), ... *)
GrabRead(t) ==
  LET c == cwq[loc[t].work] IN
  /\ pc[t] = "grabRead"
  /\ IF c = NULL THEN Goto(t, "grabRead", "waitRead", [loc[t] EXCEPT !.ret = -1])
     ELSE Goto(t, "grabRead", "grabLock", [loc[t] EXCEPT !.cwq = c])
  /\ UNCHANGED <<lists, data, queueing, done, cpus, owed>>

(* ... and under its lock the work is removed, if it is queued there.      *)
(*                                                                         *)
(* list_empty() and get_wq_data() are read one after the other; here, and  *)
(* in FlushLock, they are one step.  If the entry is on the list of        *)
(* another CPU d, the lock of c does not keep the two reads together:      *)
(* between them the worker of d would have to take the work and clear its  *)
(* pending bit, and then queue_delayed_work() on c set work->data to c     *)
(* (set_wq_data() takes no lock).  The holder of the lock has its          *)
(* interrupts off and so keeps a CPU to itself, which must be neither c    *)
(* nor d: it takes three CPUs, and the kernel is built for two.            *)
GrabLock(t) ==
  LET w == loc[t].work
      c == loc[t].cwq
  IN  /\ pc[t] = "grabLock" /\ Unlocked(c)
      /\ IF ~ListEmpty(w) /\ cwq[w] = c
         THEN /\ Goto(t, "grabLock", "waitRead", [loc[t] EXCEPT !.ret = 1])
              /\ \E i \in Positions(worklist[c]) :
                   /\ worklist[c][i] = w
                   /\ worklist' = [worklist EXCEPT ![c] = Without(@, i)]
              /\ owed' = [u \in Tasks |-> owed[u] \ {<<"queued", w>>}]
         ELSE /\ Goto(t, "grabLock", "waitRead", [loc[t] EXCEPT !.ret = -1])
              /\ UNCHANGED <<worklist, owed>>
      /\ UNCHANGED <<current_work, worker, should_stop, data, queueing, done, cpus>>

(* wait_on_work() *)
WaitRead(t) ==
  /\ pc[t] = "waitRead"
  /\ IF cwq[loc[t].work] = NULL
     THEN Goto(t, "waitRead", AfterWait(loc[t]), [loc[t] EXCEPT !.cwq = NULL])
     ELSE Goto(t, "waitRead", "waitOn", [loc[t] EXCEPT !.cwq = NULL, !.cpu = 1])
  /\ UNCHANGED <<lists, data, queueing, done, cpus, owed>>

(* wait_on_cpu_work() for each CPU. *)
WaitOn(t) ==
  LoopStep(t, "waitOn", "waitOnWait", AfterWait(loc[t]),
           current_work[loc[t].cpu] = loc[t].work, 1)

(* clear_wq_data() *)
ClearWqData(t) ==
  /\ Goto(t, "clear", "idle", Nothing)
  /\ pending' = pending \ {loc[t].work}
  /\ cwq' = [cwq EXCEPT ![loc[t].work] = NULL]
  /\ UNCHANGED <<lists, timer, firing, queueing, done, cpus, owed>>

(* cancel_delayed_work(): del_timer_sync(), work_clear_pending(). *)
CancelDelayedWork(t, w) ==
  /\ w \in timer
  /\ Goto(t, "idle", "clearPending", [Nothing EXCEPT !.work = w])
  /\ timer' = timer \ {w}
  /\ UNCHANGED <<lists, pending, cwq, firing, queueing, done, cpus, owed>>

WorkClearPending(t) ==
  /\ Goto(t, "clearPending", "idle", Nothing)
  /\ pending' = pending \ {loc[t].work}
  /\ UNCHANGED <<lists, cwq, timer, firing, queueing, done, cpus, owed>>

(* A CPU other than the boot CPU goes down: nobody runs on it, or queues   *)
(* on it, any more.  cpu_add_remove_lock lets one task at a time do this.  *)
NoHotplug == /\ \A t \in Tasks : pc[t] \notin {"down", "downWait", "stop", "exit"}
             /\ \A c \in Cpus : worker[c] # "new"

CpuDown(t, c) ==
  /\ c \in online \ {1} /\ NoHotplug
  /\ \A w \in Works : queueing[w].st \in {"insert", "add"} => queueing[w].cpu # c
  /\ online' = online \ {c}
  /\ Goto(t, "idle", "down", [Nothing EXCEPT !.cpu = c])
  /\ UNCHANGED <<lists, data, queueing, done, populated, role, owed>>

(* Mutant: the list of a dead CPU is not flushed. *)
CleanupFlushNot(t) ==
  /\ Goto(t, "down", "stop", loc[t])
  /\ UNCHANGED <<lists, data, queueing, done, cpus, owed>>

(* CPU_POST_DEAD: cleanup_workqueue_thread() flushes the list, ... *)
CleanupFlush(t) ==
  LET c == loc[t].cpu IN
  /\ pc[t] = "down" /\ Unlocked(c)
  /\ IF Active(c)
     THEN Goto(t, "down", "downWait", loc[t]) /\ InsertBarrier(t, c, Len(worklist[c]) + 1)
     ELSE Goto(t, "down", "stop", loc[t]) /\ NoBarrier
  /\ UNCHANGED <<current_work, worker, should_stop, data, queueing, cpus, owed>>

(* ... and calls kthread_stop(); then the CPU leaves cpu_populated_map.    *)
KthreadStop(t) ==
  /\ Goto(t, "stop", "exit", loc[t])
  /\ should_stop' = should_stop \cup {loc[t].cpu}
  /\ UNCHANGED <<worklist, current_work, worker, data, queueing, done, cpus, owed>>

WorkerExited(t) ==
  /\ pc[t] = "exit" /\ worker[loc[t].cpu] = "dead"
  /\ Goto(t, "exit", "idle", Nothing)
  /\ should_stop' = should_stop \ {loc[t].cpu}
  /\ populated' = populated \ {loc[t].cpu}
  /\ UNCHANGED <<worklist, current_work, worker, data, queueing, done, online, role, owed>>

(* CPU_UP_PREPARE: a new worker thread.  The CPU comes online, ... *)
CpuUp(c) ==
  /\ c \notin populated /\ NoHotplug
  /\ online' = online \cup {c} /\ populated' = populated \cup {c}
  /\ worker' = [worker EXCEPT ![c] = "new"]
  /\ UNCHANGED <<worklist, current_work, should_stop, data, queueing, task, done, role, owed>>

(* ... and CPU_ONLINE: start_workqueue_thread() wakes it. *)
CpuOnline(c) ==
  /\ WorkerAt(c, "new", "top")
  /\ UNCHANGED <<worklist, current_work, should_stop, data, queueing, task, done, cpus, owed>>

-----------------------------------------------------------------------------
(* What a task that is in one of the functions above does next. *)
TaskStep(t) ==
  \/ BarrierWait(t)
  \/ FlushCpu(t) \/ FlushLock(t) \/ Flushed(t)
  \/ pc[t] # "idle" /\ \E w \in Works : FlushWork(t, w) \/ DelTimer(t, w) \/ Grab(t, w)
  \/ GrabRead(t) \/ GrabLock(t) \/ WaitRead(t) \/ WaitOn(t)
  \/ ClearWqData(t) \/ WorkClearPending(t)
  \/ CleanupFlush(t) \/ KthreadStop(t) \/ WorkerExited(t)

(* A task calls one of the functions of its role. *)
Call(t) ==
  \/ \E w \in Works :
       \/ "cancel_work_sync" \in role[t] /\ Grab(t, w)
       \/ "cancel_delayed_work_sync" \in role[t] /\ DelTimer(t, w)
       \/ "cancel_delayed_work" \in role[t] /\ CancelDelayedWork(t, w)
       \/ "flush_work" \in role[t] /\ FlushWork(t, w)
       \/ "flush_delayed_work" \in role[t] /\ \E c \in Cpus : FlushDelayedWork(t, w, c)
  \/ "flush_workqueue" \in role[t] /\ FlushWorkqueue(t)
  \/ "cpu_down" \in role[t] /\ \E c \in Cpus : CpuDown(t, c)

Next ==
  \/ \E w \in Works :
       \/ Queueing(w)
       \/ \E c \in Cpus : QueueWorkOn(w, c) \/ QueueDelayedWorkOn(w, c) \/ DelayedWorkTimerFn(w, c)
  \/ \E c \in Cpus : Worker(c) \/ CpuUp(c) \/ CpuOnline(c)
  \/ \E t \in Tasks : Call(t) \/ TaskStep(t)

Spec == Init /\ [][Next]_vars

(* Runnable tasks and workers run, timers expire and work functions        *)
(* return.  A cwq->lock is taken and given back for ever by those who      *)
(* queue works, so it is only free again and again: the fairness is strong *)
(* (a CPU that spins for a lock gets it in the end).                       *)
FairSpec ==
  /\ Spec
  /\ \A w \in Works : SF_vars(Queueing(w) \/ \E c \in Cpus : DelayedWorkTimerFn(w, c))
  /\ \A c \in Cpus : SF_vars(Worker(c) \/ CpuOnline(c))
  /\ \A t \in Tasks : SF_vars(TaskStep(t))

-----------------------------------------------------------------------------
(* Properties. *)

(* The tasks that own the pending bit of w: those in a cancel that has     *)
(* taken it over.                                                          *)
Cancelling(t, w) ==
  /\ loc[t].work = w
  /\ \/ pc[t] \in {"waitRead", "waitOn", "waitOnWait"} /\ loc[t].ret >= 0
     \/ pc[t] \in {"clear", "clearPending"}

Running(c) == worker[c] \in {"clear", "func"} /\ current_work[c] \in Works

(* The pending bit of a work is set exactly while there is one owner of    *)
(* it: a queueing in progress, the timer, one list (the one of the CPU     *)
(* that work->data names, and once), a worker that has just taken it, or   *)
(* one cancel.  Otherwise a work could be queued twice, or never again.    *)
PendingOwned == TypeOK /\
  \A w \in Works :
    LET entries == UNION {{<<c, i>> : i \in {i \in Positions(worklist[c]) : worklist[c][i] = w}} : c \in Cpus}
        taken == {c \in Cpus : worker[c] = "clear" /\ current_work[c] = w}
    IN  /\ Cardinality(entries) + Cardinality(taken)
           + Cardinality({t \in Tasks : Cancelling(t, w)})
           + (IF w \in timer THEN 1 ELSE 0) + (IF queueing[w] # Idle THEN 1 ELSE 0)
           = (IF w \in pending THEN 1 ELSE 0)
        /\ \A e \in entries : cwq[w] = e[1]
        /\ \A c \in taken : cwq[w] = c   \* BUG_ON(get_wq_data(work) != cwq)

(* When cancel_work_sync() or cancel_delayed_work_sync() lets go of the    *)
(* work, its function is running nowhere and nothing will call it.         *)
CancelSound ==
  \A t \in Tasks : pc[t] = "clear" =>
    LET w == loc[t].work IN
    /\ ListEmpty(w) /\ w \notin timer /\ queueing[w] = Idle
    /\ \A c \in Cpus : Running(c) => current_work[c] # w

(* When flush_workqueue() returns, all that was queued or running when it  *)
(* was called is over or cancelled; when flush_work() returns, so is the   *)
(* instance of the work that was queued last, unless the work was queued   *)
(* again meanwhile.                                                        *)
FlushSound == \A t \in Tasks : pc[t] = "flushed" => owed[t] = {}

(* The tasks that flush. *)
Flushers == {t \in Tasks : \E r \in Roles : r[t] \cap Flushes # {}}

(* A flush returns although works are queued, cancelled and executed for   *)
(* ever and CPUs go down and up meanwhile ("we are not livelocked by new   *)
(* incoming ones").  In particular a worker that leaves because its CPU is *)
(* dead leaves no barrier behind ("When ->worklist becomes empty it is     *)
(* safe to exit").                                                         *)
FlushReturns ==
  \A t \in Flushers :
    pc[t] \in {"flushCpu", "flushWait", "flushDelayed", "flushWork", "flushLock", "flushWorkWait"}
      ~> pc[t] = "flushed"

(* The works that are to be executed, what each worker executes, and the  *)
(* cancel that each task is in, with whether it has got the work, which is *)
(* what it returns.                                                        *)
Armed == {w \in Works : queueing[w] # Idle \/ w \in timer \/ ~ListEmpty(w)}
Executing == [c \in Cpus |-> IF Running(c) THEN current_work[c] ELSE NoWork]

CancelPlaces == {"again", "grab", "grabRead", "grabLock", "waitRead", "waitOn", "waitOnWait",
                 "clear", "clearPending"}
CancelCall(p, l) ==
  [work |-> IF p \in CancelPlaces THEN l.work ELSE NoWork,
   sync |-> p # "clearPending",
   got  |-> \/ p = "clearPending"
            \/ p \in {"waitRead", "waitOn", "waitOnWait", "clear"} /\ l.ret = 1]
Cancels == [t \in Tasks |-> CancelCall(pc[t], loc[t])]

(* A work that is queued is executed once, unless a cancel that reports it *)
(* takes it: no queueing is lost on its way over the timer, the lists and  *)
(* the workers, flushes and dying CPUs included.  A synchronous cancel     *)
(* returns when the work is neither queued nor running.                    *)
Abstract == INSTANCE WorkItem WITH armed <- Armed, running <- Executing, calls <- Cancels
ImplementsWorkItem == Abstract!Spec

(* No queued work waits for ever: its execution begins or it is cancelled, *)
(* although its CPU may go down meanwhile and tasks keep flushing and      *)
(* cancelling.                                                             *)
WorkServed == \A w \in Works : w \in Armed ~> w \notin Armed

=============================================================================
