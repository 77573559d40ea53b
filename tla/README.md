# Verification of the synchronisation core of VDLinux 2.6.35.11 and of dtvlogd

VDLinux is the Linux 2.6.35.11 kernel of a television platform. This project
models the part of it on which everything else stands, the sleeping locks,
completions, kernel threads and workqueues, and the largest piece of concurrent
code that the platform adds to the stock kernel: `kernel/dtvlogd.c`, a log
daemon that uses those primitives. All paths below are relative to
`src/linux-2.6.35.11/`.

The build that is modelled is `arch/arm/configs/Echo.P_defconfig_release`: ARM
(v6 or later), `SMP` with `NR_CPUS=2`, `PREEMPT`, `HOTPLUG_CPU`, `RWSEM_GENERIC_SPINLOCK`,
`MUTEX_SPIN_ON_OWNER`, `DTVLOGD` with `DTVLOGD_USB_LOG` and
`DTVLOGD_EMERGENCY_LOG` (neither `DTVLOGD_DEBUG` nor `DTVLOGD_HUB_KDEBUGD`), no
mutex or lock debugging, and `-fno-strict-overflow`.

## Inventory

| Component | State | Operations | What is hard | What makes it correct |
|---|---|---|---|---|
| counting semaphore, `kernel/semaphore.c` | `count`, FIFO `wait_list`, a grant flag `up` per waiter | `down`, `down_interruptible`, `down_killable`, `down_timeout`, `down_trylock`, `up` | grant against timer against signal; `up` from interrupts and from non-holders | units conserved; list exact; no grant lost; FIFO service |
| reader-writer semaphore, `lib/rwsem-spinlock.c` | `activity`, FIFO `wait_list`, `waiter.task` | `down_read/write`, trylocks, `up_read/write`, `downgrade_write` | `waiter.task` is tested without the lock, so a waiter may be gone before it is woken; the last reader wakes "a writer" without a look | exclusion; exact count; head of the queue is a writer under readers; no starvation |
| mutex, `kernel/mutex.c`, `arch/arm/include/asm/mutex.h` | `count`, `owner`, `wait_lock`, `wait_list` | lock (three variants), trylock, unlock; optimistic spinning | lock-free fast paths inside others' locked sections; `strex` failing; stealing by spinners; signals | exclusion; `count` bounded; owner never stale; no lost wake-up |
| dtvlogd daemon and flush requests, `kernel/dtvlogd.c` | `opt_dtvlogd`, `logname`, `dlogbuf_complete`, `dlogbuf_completion` | daemon loop, `do_dtvlog(4)`, `do_dtvlog(5)`, start, stop | all flags unlocked; requests race the daemon, stops and failing opens | flush is synchronous; requests return; no leftover completion; log drains |
| dtvlogd ring buffer, same file | `dlog_buf`, `dlogbuf_start`, `dlogbuf_end`, `dlogged_chars` | `dlogbuf_write`, copy part of `usblog_flush` | unlocked read-modify-writes on all CPUs; full against empty; `int` overflow | what is saved is what was printed |
| dtvlogd emergency log, same file | RAM ring that survives a reset, magic number | `rambuf_init`, `ram_flush`, `write_ram_info` | crash between the stores; failing open; clean power-off | the file saved after a crash is the last log; no false alarm |
| completions, `kernel/sched.c` | `done`, wait queue | `complete`, `complete_all`, the waits | timeout against `complete` | one wait per `complete` |
| workqueue, `kernel/workqueue.c` | per-CPU list, `PENDING` bit, barriers | queue, delayed queue, flush, cancel, create, destroy, hotplug | cancel against timer against worker against re-queue | a work runs once per queueing; flush and cancel mean it |
| kthread, `kernel/kthread.c` | create list, `should_stop`, `exited` | create, stop, bind | stop against exit | stop returns once, with the exit code |

How they interact: the semaphore is called by dtvlogd (`dlogbuf_sem`), the
completion by dtvlogd, kthread and workqueue, kthread by dtvlogd and workqueue.
`printk`, `tty` writes, `panic()` and `die()` call into dtvlogd; `/proc/dtvlogd`
turns it on and off. Locks share nothing with each other but the scheduler.

Not modelled, and why: the scheduler, timers, signals and RCU are the
environment of the locks (a runnable task runs, timers fire, wake-ups and
signals arrive at any time) and too large to model as a whole; memory
management (with the platform's CMA and HDMA allocators), VFS, file systems,
networking, drivers, sound and the other architectures are stock subsystems or
hardware access, and the RFS and NTFS modules are shipped as binaries. slow-work,
async, SRCU, kfifo, klist, stop_machine and rtmutex are smaller users of the
mechanisms modelled here. The repository is a whole kernel of some eleven
million lines, of which a project of this size covers the core and no more.
`PROJECT.json` lists every part with its status.

## Plan

Done, in this order, each module checked before the next was begun: WaitQueue,
Semaphore with CountingSem, RwSem with RwLock, Mutex (also against RwLock),
DtvLogd, DlogBuf, the proofs of the first four and of DtvLogd; then EmergencyLog,
Completion with EventCount, Kthread, and WorkQueue with WorkItem; then the
proofs about Completion, Kthread and WorkQueue, and `NoOvertaking` of RwSem; then
the proofs about the rings of DlogBuf and EmergencyLog, for which what the two
have in common became LogRing. With that every invariant and every
action property that a run checks is also proved.

Next: the parts of workqueue that are left out (below).

Candidates after that: the text handling of `dtvlogd_print` and `dtvlogd_write`,
slow-work, async, SRCU, stop_machine.

## Modules

| Module | Models | Composed with |
|---|---|---|
| `WaitQueue` | wait lists as sequences; the list operations used on them | extended by the three locks, Completion, Kthread and WorkQueue |
| `Semaphore` | `kernel/semaphore.c` | implements `CountingSem` |
| `CountingSem` | abstract: free units and the set of owners | |
| `RwSem` | `lib/rwsem-spinlock.c` | implements `RwLock` |
| `RwLock` | abstract: the set of readers and the set of writers | |
| `Mutex` | `kernel/mutex.c` and the ARMv6 fast paths | implements `RwLock` without readers |
| `DtvLogd` | daemon, requests, start and stop of `kernel/dtvlogd.c` | |
| `LogRing` | the int indices of the two rings of `kernel/dtvlogd.c` | extended by DlogBuf and EmergencyLog |
| `DlogBuf` | the ring buffer of `kernel/dtvlogd.c` | |
| `EmergencyLog` | the RAM log of `kernel/dtvlogd.c` over resets and boots | |
| `Completion` | the completions of `kernel/sched.c` | implements `EventCount` |
| `EventCount` | abstract: a count of events, and what each call reported | |
| `Kthread` | `kernel/kthread.c`, and the end of `do_exit()` | |
| `WorkQueue` | `kernel/workqueue.c` | implements `WorkItem` |
| `WorkItem` | abstract: which works are to be executed, which are being, who cancels which and whether it got it | |
| `WaitQueueTheorems`, `*Proofs` | lemmas, theorems | |
| `MC*` | model values and sets for TLC | |

Definitions called mutants (marked so in their comments) are variations of the
definition that follows them, each with one plausible mistake. No specification uses them; they
show that each property can fail.

**Grain.** A section under a spinlock is one action where all other accesses to
its variables are under the same lock (Semaphore). Where somebody looks
without the lock, the section is split: in RwSem at `wake_up_process()`, because
a waiter tests `waiter.task` unlocked (`waking` non-empty stands for the rest of
the section, in which `wait_lock` is held); in Mutex at every access to `count` and
`owner`, which fast paths and spinners touch (`wait_lock` names the task inside);
in DtvLogd at each flag; in DlogBuf at each load and each store that depends on
it. Memory is sequentially consistent in the models: the barriers in the code
(`smp_mb` in the wait loops and the wakers, the implied barriers of the locks) are
taken to do their work, and in DlogBuf, which has none, further reorderings
would add to the corruption that is found there already.

**Semaphore.** `pc[t]` is where a task is; `mode` is which down it called (the
state it sleeps in), `sig` and `expired` are its pending signal and fired timer,
`waiter_up` the set of waiters whose `up` flag is set. `TakeUnit` and
`DownContended` are the two branches of every down, `Relock` one round of the
loop of `__down_common` after `schedule_timeout()`, in the code's order: grant,
signal, timer. `Up` is `up()` by a holder, `UpByOther` by an interrupt or
another task; `units` is a history variable. `MaxUnits` bounds `UpByOther`.

**RwSem.** `granted` are the waiters whose `waiter.task` was cleared. `DoWake` is
`__rwsem_do_wake`, `WakeReaders` its loop over the leading readers,
`WakeOneWriter` the hand-over by the last reader. `CheckWaiter` and `Schedule`
are the two halves of the waiter's loop, `WakeUp` the waker's
`wake_up_process()`. A stray wake-up can reach a waiter because the late wake-up
of another lock's waker can.

**Mutex.** The comment at the head of `Mutex.tla` lists the places. Fast paths
decrement or increment `count` even when that fails, and `strex` may fail with
nothing stored. `ReadOwner`, `SpinOnOwner` and `Cmpxchg` are the spinning loop
(when to give up spinning depends on the BKL, need_resched and priorities, and
is left open), `Queue` and `WaitLoop` the slow path, `Done` and `SetCount` its
end, `UnlockSlowpath` and `WakeWaiter` the slow unlock. Left out: lockdep and
debug variants (not built), the trylock slow path (the ARMv6 fast path never
calls it), `atomic_dec_and_mutex_lock` (built from the modelled operations).

**DtvLogd.** The buffer is the set of tasks whose last message it holds; a
request concerns the caller's own message. `complete()` and
`wait_for_completion()` are an increment and a guarded decrement of `done`. The
file can fail to open at any time and always does without a name. Only the
daemon takes `dlogbuf_sem`, and signals do not reach a kernel thread, so the
`down_interruptible` that ignores its result always succeeds and is not an
action. Not in it: `kthread_should_stop` (nothing stops the daemon).

Names in DlogBuf and EmergencyLog carry a prefix where DtvLogd has the same
(`DlogSpec`, `RamSpec`), so that one module holds the proofs about all three.

**DlogBuf.** One writer is one context that prints; the daemon is the only
reader. Indices are ints that wrap at `Half`, a scaled 2^31, a multiple of the
power-of-two buffer length as in the code. `unsaved` is the history the
properties compare with, `due` its value at the flush. `damaged` records whether
calls have overlapped since the last flush that ran alone. `dlogbuf_write()` reads
`dlogbuf_end` twice, for the place of the character (`LoadIndex`, `DlogPut`) and,
after its stores into the RAM area, for the increment (`LoadEnd`, `IncEnd`).

**EmergencyLog.** `ram`, `magic` and `info` are the area that survives a reset,
`file` is `emeg_log.txt`, the rest is lost. A character is put (`RamPut`), the
indices advance (`Advance`), and `write_ram_info()` stores them one by one
(`WriteRamInfo`), with `Reset` possible after each. The daemon goes through
`RambufInit` and, if there is no old recording, `InitZero` and `WriteMagic`,
waits its 15 seconds (`FirstRound`), and saves an old recording (`Open` or
`OpenFails`, `RamCopy`, `RamWrite`, `Resume`, `FlushZero`).
`RamWrite` leaves any beginning of the text in the file, nothing included: the
code does not look at what `write()` returns (line 542), prints "file written to
flash" and lets the area be recorded over. `Reset` may cut the file short again,
since it is closed without a sync. `PowerOff` is command 5, which erases the
magic number, at any time: before line 274 `rambuf_init()` writes it again.
`Text` is what
`ram_flush()` reads. `rec` is the history the properties compare with.
`torn` marks recordings put in while the daemon resets the indices: the code
does that in three unlocked stores, and no property claims anything then.

**Completion.** A section under `x->wait.lock` is one action. `WaitForCommon` is
a wait up to its first `schedule_timeout()`, `Relock` one more round, in the
code's order: event, signal, timer. `WakeUpOne` is `__wake_up_common()` with one
exclusive entry, in which `try_to_wake_up()` refuses a task that is awake and
the next entry is tried. `done` is an unsigned int that wraps at `UINT_MAX`, and
`complete_all()` adds half of it. `INIT_COMPLETION()` is called with nobody
waiting, as its users do.

**Kthread.** `sleepy` are the tasks that have set their state and not been woken
since; a task blocks in `schedule()` only while it is in it, so that setting the
state, looking at the condition and blocking are separate steps.
`KthreaddSleep`, `KthreaddTake` and the fork are kthreadd; `KthreadCreate`,
`WakeKthreadd`, `WaitForCreated`, `KthreadBind` and the steps of `KthreadStop`
are a creator; `Tell`, `Check`, the body of `threadfn()` and the two stores of
`mm_release()` are the thread. A `threadfn()` loops as the kernel's threads do
(set the state, test `kthread_should_stop()`, sleep) or returns by itself; its
creator may stop it all the same, and is taken to hold a reference to it until
`kthread_stop()` has returned (`Forget`), as the comment there asks.

**WorkQueue.** `worklist` holds works and barriers; a barrier is named by the
task that waits for it. `queueing[w]` is the one queueing of a work that can be
in progress, `timer` and `firing` its delayed form. The worker's steps are
`worker_thread()` and `run_workqueue()`, split where the lock is dropped. A task
flushes the workqueue CPU by CPU, flushes one work, cancels it (grab, wait,
retry), or takes a CPU down and up with its `cleanup_workqueue_thread()`.
`owed[t]` is what a flush has to wait for, taken when it begins. Works are queued
by anybody at any time, without limit. `Roles` says which functions the tasks
call: in the proofs any, in the run one of a few combinations.

There are one or two CPUs, as in the build. `try_to_grab_pending()` and
`flush_work()` read `list_empty()` and `get_wq_data()` one after the other (lines
612 and 619, 564 and 570), which `GrabLock` and `FlushLock` make one step. If
the work is on the list of a CPU d other than the one, c, whose lock is held,
the two can disagree only if in between d's worker takes the work and clears its
bit, and `queue_delayed_work()` on c sets `work->data` (line 370, without a
lock). The holder of the lock has interrupts off and occupies a CPU, so this
takes three CPUs; on three, a cancel could take a work whose timer is being
armed, and a flush could put its barrier behind an entry that is on no list.
Neither the model nor the theorems speak of such a machine
(`WorkQueueAssumption`).

In `WorkItem` a work leaves the set of works to be executed by the beginning of
its one execution, or by `Cancel` or `Take` of a task that is in a cancel of this
work, which from then on has got it; there is no other way, so that a queueing
that is lost is not a step of it. Left out:
creation that fails and `CPU_UP_CANCELED`, single-threaded workqueues,
`destroy_workqueue()` (the same cleanup on every CPU, with the caller
responsible for nothing being queued), `schedule_on_each_cpu()` and the like
(built from queueing and flushing). CPU 1 never goes down, as the platform's
`arch/arm/mach-ccep/hotplug.c:140` has it.

## Runs

| Run | Instance | Shows |
|---|---|---|
| `semaphore` | 3 tasks (1 interruptible), 1 unit, up to 2 | Conservation, ListExact; implements CountingSem; DownServed if holders release; TimeoutReturns even if they do not |
| `rwsem` | 3 tasks | WriterAtHead, NoLostWakeup, NoOvertaking; implements RwLock; LockServed |
| `mutex` | 3 tasks (2 interruptible) | MutualExclusion, CountBounded, NoLostWakeup, Progress |
| `dtvlogd` | 2 tasks | NoStaleCompletion, LogDrained, NamelessHeals |
| `dtvlogd_sync` | 2 tasks | **violated**: SyncFlush |
| `dtvlogd_return` | 2 tasks | **violated**: FlushReturns |
| `dlogbuf` | 1 writer, 2 characters, buffer 2, ints -4..3 | RingExact, FlushExact |
| `dlogbuf_race` | 2 writers, buffer 4, ints -8..7 | **violated**: FewCharacters |
| `emergency` | 2 characters, buffer 2, ints -4..3, any number of boots | CrashKeepsLog, SavedBeforeReuse, NoLogAfterPowerOff, RecordingResumes |
| `completion` | 2 tasks, UINT_MAX 7 | NoLostWakeup, QueueExact, EventTaken, TimeoutReturns; implements EventCount |
| `kthread` | 2 creators | CreateInfoAlive, NoLostRequest, BindAllowed, StopSound, CreateReturns, StopReturns |
| `workqueue` | 1 work queued without end, 2 tasks, 2 CPUs | PendingOwned, CancelSound, FlushSound, FlushReturns, WorkServed; implements WorkItem |

The type invariants of Semaphore, RwSem, Mutex and DtvLogd, and those of their
invariants that no run lists (NoIdleUnit, GrantedIsWoken, ActivityExact,
NoIdleLock, Exclusion, the lists of RwSem and Mutex, OwnerExact, and that the mutex implements RwLock), are proved
(below). In DlogBuf, EmergencyLog, Completion, Kthread and WorkQueue the type
invariant is the first conjunct of a listed invariant (RingExact, CrashKeepsLog,
QueueExact, CreateInfoAlive, PendingOwned).

**Why these bounds are enough.** Semaphore: with one unit and three tasks there is
a holder, a first waiter and one behind it; a second unit lets `up()` by others
meet an empty and a non-empty list. `Interruptible` bounds who calls the variants that
look at signals. RwSem: with three tasks a writer leaves two readers to the
bulk wake-up, and a reader leaves a writer and a reader in either order. Mutex: a
holder or unlocker, a waiter and a spinner is the smallest
company in which a lock is stolen; tasks call again without limit. The theorems
cover larger numbers, here and for the safety of Completion, Kthread and WorkQueue. DtvLogd: every race in it is one of a task with the
daemon or of two tasks for one flag, and NoStaleCompletion is proved for any number.
DlogBuf and EmergencyLog: a buffer of two is full, wrapped
and overwritten within three characters, and ints of sixteen or eight values
wrap after that; the safety is proved for every length and width. Completion: two waiters are what it takes for a wake-up to meet
a first waiter that is already awake, and with seven for `UINT_MAX` three
`complete_all()` wrap the count. Kthread: two creators make a request arrive at
every moment of kthreadd's work on the other one. WorkQueue: the one
work is queued again without limit, on either CPU, while it runs or is cancelled
or flushed (the pending bit keeps the state finite), so that FlushReturns and
WorkServed are checked against an endless stream. `MCRoles` are the
combinations of calls in which two tasks meet: the flushes and
`cancel_delayed_work_sync()` with a CPU going down, a flush with a cancel, and
two cancels. A second work would add
interleavings of works, which share only the order of a list. No run uses symmetry, since all those it could help
check liveness.

**Fairness.** Semaphore: a woken task gets the spinlock (WF of `Relock`, one action
that nothing can disable), timers fire (WF of `TimerFires`). That holders call
`up()` (WF of `Up`) is an assumption on callers, without which no lock serves
anybody; it is a hypothesis of DownServed, and TimeoutReturns does without it. RwSem: WF of the waiter's own steps and of the waker; SF of the
releases, since `wait_lock` may be busy again and again and is not a fair lock but does not exclude
a spinning CPU for ever. Mutex: SF of a task's steps for the same reason, with
the release among them. Nobody is obliged to call a lock. DtvLogd: WF of the
daemon, all of whose waits have a timeout, and of a task inside the logger.
With `wait_for_completion` under WF a request that is answered returns, so that
a request that does not is one the daemon does not answer. EmergencyLog: WF of
the daemon. Completion: as Semaphore; nobody is obliged to call `complete()`.
Kthread: WF of kthreadd, of the steps a creator takes inside the API, of a
thread's steps, and of the return of a `threadfn()` that has been told to stop,
which is what the API asks of it. Nobody is obliged to wake or stop a thread.
WorkQueue: SF of the workers (so work functions return), of a queueing that has
begun and the expiry of its timer, and of a task inside the API. Weak fairness is
not enough here: those who queue works take and release a `cwq->lock` for ever,
so that it is free again and again and never for good, and a CPU that spins for
it, or a worker and a task that are runnable, are not kept out for ever. Nobody
is obliged to queue, cancel or flush.

## What disagrees with the repository's own words

1. **A flush request can return before the flush** (`dtvlogd_sync`).
   `kernel/dtvlogd.c:723` promises "Synchronously read and clear all messages
   remaining in the dlog buffer". The daemon tests `dlogbuf_complete` after
   `usblog_flush()` (line 753). A task that logs and raises the flag between the
   two is completed by the flush before its message.
2. **A flush request can wait for ever** (`dtvlogd_return`). The flag does not
   count, and is cleared after `complete()` (line 755): two requests share one
   `complete()`, and a flag raised between `complete()` and the clearing is
   wiped. The wait is uninterruptible. A logger that is turned off, by a stop or
   a failing open, after the request tested `opt_dtvlogd` leaves it waiting too.
3. **The corruption is not "a few characters only"** (`dlogbuf_race`, comment at
   line 559). A writer's `dlogged_chars++` that straddles the daemon's
   `dlogged_chars = 0` leaves equal indices with a non-zero count; the next flush
   takes equal indices for a full buffer and writes all 128 KB again. The run
   `dlogbuf` shows that the damage is gone after the next flush that runs alone.

Other observations that hold: a start that races a failing open can leave the
logging on without a name, but the next message turns it off (`NamelessHeals`),
and there are never more completions than requests that wait
(`NoStaleCompletion`; which of those takes one is open).

Observations from reading the code against the models, none of them a run:

- Emergency log. While `drambuf_start` is in the last buffer length below 2^31,
  `ram_flush()` computes a negative length and saves part of the log only; the
  properties exclude it (`Overflows`). If `write()` to the file is short or fails,
  or the TV is reset before the file has reached the flash, the rest of the log
  is lost: the area is recorded over all the same (SavedBeforeReuse says no
  more than that the file has the beginning of the log, and all of it after a
  whole write). A power off command before `rambuf_init()` has written the magic
  number is undone by it, and the next boot makes an emergency log
  (NoLogAfterPowerOff is about later ones). A power-off before the 15 seconds are over
  loses the log of the crash before. If `/mtd_rwarea` cannot be opened nothing is
  recorded for that boot, but the old log survives it (`CrashKeepsLog`). A crash before the first
  character of a boot saves the old log a second time.
- Completion. The comment at `kernel/sched.c:4394` says `completion_done()` returns
  "0 if there are waiters"; it returns whether `done` is non-zero. Three
  `complete_all()` without a reinitialisation wrap the count.
- Kthread. `kernel/kthread.c:187` gives "-EINTR if wake_up_process() was never
  called"; a stop that overtakes the thread on its way to `threadfn()` gives it
  too (StopSound states the weaker fact, in both directions that hold).
- WorkQueue. `flush_work()` waits for the instance queued last; an earlier one
  may still run on another CPU (FlushSound says so). On three or more CPUs the
  unlocked reads described under WorkQueue above would matter. One canceller can be kept
  waiting by another that cancels again and again. Flushes that follow each
  other without end can keep the worker of a dying CPU in `run_workqueue()`, so
  that the CPU never goes down: FlushReturns is about flushes only.

## Proofs

All theorems are for any finite set of tasks (`SemAssumption`, `RwAssumption`,
`MutexAssumption`, `DtvLogdAssumption`, `CompletionAssumption`,
`KthreadAssumption`), the semaphore for any initial count and any bound, the
mutex for any `NULL` that is not a task, completions for any `UINT_MAX`, kthread
for a `Kthreadd` that is not a creator, the workqueue for one or two CPUs and any
works, tasks and roles, with works, tasks and `NoWork` (a NULL `current_work`)
distinct (`WorkQueueAssumption`), the rings for any set of characters and writers,
any buffer length above one and any `Half` that is a larger multiple of it
(`LogRingAssumption`: 2^31 is one, the lengths being powers of two), with "none"
not a character (`EmergencyLogAssumption`). They are about the specifications
without fairness.

- `WaitQueueTheorems`: removing, appending, taking the head and the first n of a
  queue without duplicates leaves one, with the expected members, and the first n
  have n members.
- `SemaphoreProofs`: `TypeCorrect`; `SemaphoreSafe` ([]Conservation, NoIdleUnit,
  ListExact, GrantedIsWoken). Conservation is not inductive: a waiter leaves
  with its unit only if it is in the set of owners, and `Relock` can give up only
  if its entry is on the list, so the four are proved together with the type
  invariant. `SemaphoreRefines` maps `free` to `count` and `owners` to holders and
  granted waiters; each action takes, gives or hands over one unit, or stutters.
- `RwSemProofs`: `RwSemSafe` and `RwSemRefines`. The inductive invariant is the
  conjunction of the types and all six state invariants: the count of readers after a bulk
  wake-up needs the list to have no duplicates (cardinality of the first n), the
  hand-over by the last reader needs WriterAtHead, and that needs NoIdleLock
  when the list is empty. `RwSemFifo` is the action property NoOvertaking: a step
  that makes a task a holder either finds the list empty or takes its first n,
  and those are in front of whatever stays.
- `MutexProofs`: `MutexSafe`, `MutexRefines`, `MutexCountBounded`. The invariant adds
  `DoneNegative` to the checked properties: while the new owner is still in its
  section `count` is negative, so that when it leaves waiters behind, its unlock must
  take the slow path. Without it NoLostWakeup is not inductive.
  CountBounded rests on one lemma, `CountStep`: a step that decrements `count` also
  adds a task to those on their way to the slow path, one that removes such a
  task sets `count` to at least -1, and every other step lowers neither.
- `DtvLogdProofs`: `CompletionSafe` ([]NoStaleCompletion). The strengthening `Owed`
  says that what has been completed, and the completion the daemon is about to
  make because it has seen the flag, are owed to tasks that wait.
  `DlogBufSafe` ([]RingExact, []FlushExact), `EmergencyLogSafe` ([]CrashKeepsLog,
  []SavedBeforeReuse) and `PowerOffNoLog` (NoLogAfterPowerOff) are in the same module.
  They share lemmas on rings. `Slice(buf, e, m)` is the m characters in front of
  index e; the lemmas say that wrapping an index does not change its place in
  the array (`SlotInt32`, where `Half % BufLen = 0` is needed), that different indices less than a length apart
  have different places (`SlotInjective`), how the distance of two indices
  moves (`DistanceAfter`, `DistanceFull`, `DistanceBefore`), what putting a
  character makes of a slice (`SlicePut`) and that the two-part copy reads one
  (`SliceRead`). RingExact and FlushExact are not inductive: they say nothing in
  the middle of a call. `DlogIInv` adds, for calls that have not overlapped, what
  the one at work finds at each load and store (`WriterAt`) and what the daemon
  has copied so far (`FlusherAt`); a flush that runs alone restores both
  (`damaged` healing). `EmegIInv` adds the same for the recorder
  (`RecorderAt`: the words in RAM follow the kernel's indices, one store behind),
  when recording is on at all (`RecordingOn`), that the area itself, not only
  the text read from it, holds the recording (`Stored`), and that the file has a
  beginning of that text when the area is given free. The three stores
  of `write_ram_info()` keep `Stored` because the start moves first: one lemma for
  each state in between (`KeepsOld`, `KeepsShort`, `KeepsMore`).
- `CompletionProofs`: `CompletionSafe` ([]QueueExact, []NoLostWakeup) and
  `CompletionRefines` (implements EventCount). NoLostWakeup counts the waiters
  that are awake; with an exact queue it becomes "enough are awake, or none
  sleeps", and that is kept because `complete()` wakes the first that sleeps
  (`WakeUpOneEffect`; that there is a first is the well-ordering of the
  positions), while a waiter that leaves takes an event with it or leaves none.
- `KthreadProofs`: `KthreadSafe` ([]CreateInfoAlive, NoLostRequest, BindAllowed,
  StopSound). The invariant says for each creator where its request is (`Request`),
  how far its thread can be while it is at each place (`Lifetime`), why the
  thread sleeps or runs (`Woken`) and what its exit has left (`Exit`).
  BindAllowed and StopSound need all of it: that a thread cannot have left
  `schedule()` before its creator has woken or stopped it, and that
  `threadfn()` is called only by a thread that was woken.
- `WorkQueueProofs`: `WorkQueueSafe` ([]PendingOwned, CancelSound, FlushSound) and
  `WorkQueueRefines` (implements WorkItem). The invariant has a part for each
  work and one for each task. `Owner(w)`: the five possible owners of the pending
  bit exclude each other, and `work->data` names the CPU of the list. `Barrier(t)`:
  a barrier is in one place, and only while its task waits. `CancelWait(t)`: the CPUs
  that `wait_on_work()` has passed do not run the work. `Debt`, `FlushAll` and
  `FlushOne`: what a flush still has to wait for is on CPUs it has not passed, or in
  front of its barrier. `Down(t)`: so is every work on the list of a CPU that goes
  down. One lemma for each action shows what it does to the part of the work
  or task it is about; frame lemmas (`OwnerFrame`, `BarrierFrame`, `DownFrame`,
  `CancelFrame`, `DebtFrame`) carry the parts of all others over. In the refinement a
  work is armed while it is queued, being queued or has a timer, and runs from when
  its worker takes it until its function returns; the exclusion of the
  owners makes each hand-over (timer to queueing, queueing to list) a stutter,
  and each taking of an armed work by a cancel one `Cancel` or `Take` of that
  call.

**Only model-checked**: all liveness (LockServed, DownServed, TimeoutReturns, Progress,
LogDrained, NamelessHeals, RecordingResumes, EventTaken, CreateReturns, StopReturns,
FlushReturns, WorkServed), which needs fairness and is out of the prover's reach.

## Hazards

`PROJECT.json` lists what in this code is hard to test, each at its line with the
properties that cover it.
