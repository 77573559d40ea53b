------------------------------ MODULE DtvLogd ------------------------------
(***************************************************************************)
(* USB logging in kernel/dtvlogd.c: the daemon kdtvlogd, which saves the   *)
(* log buffer to a file on a USB stick, and the tasks that print, ask it   *)
(* to flush (do_dtvlog(5), from panic(), die() and /proc/dtvlogd) and turn *)
(* the logging on and off (/proc/dtvlogd).                                 *)
(*                                                                         *)
(* opt_dtvlogd, logname and dlogbuf_complete are plain variables that      *)
(* everybody reads and writes without a lock; an action has at most one    *)
(* access to them that matters to others.  The buffer is abstracted to the *)
(* set of tasks whose last message it holds (DlogBuf has its indices), and *)
(* a request to flush concerns the caller's own last message.              *)
(*                                                                         *)
(* Only the daemon takes dlogbuf_sem, and no signal reaches it, so         *)
(* down_interruptible() always succeeds at once.                           *)
(***************************************************************************)
EXTENDS Integers, FiniteSets

CONSTANT Tasks
ASSUME DtvLogdAssumption == IsFiniteSet(Tasks)

VARIABLES opt_dtvlogd,       \* 1: USB logging is on
          logname,           \* the path of the USB file, if there is one
          dlogbuf_complete,  \* 1: somebody asked for a flush
          done,              \* dlogbuf_completion.done
          logged,            \* the tasks with a message in the buffer
          daemon,            \* where the daemon is
          pc,                \* where each task is
          stopping           \* the tasks in dtvlogd_usblog_stop()

vars == <<opt_dtvlogd, logname, dlogbuf_complete, done, logged, daemon,
          pc, stopping>>

DaemonPlaces == {"wait", "check", "chars", "enabled", "copy", "write", "unname",
                 "disable", "test", "complete", "clear"}
TaskPlaces == {"idle", "enable", "flush", "request", "waiting", "returned",
               "forget", "stop"}

TypeOK ==
  /\ opt_dtvlogd \in {0, 1} /\ dlogbuf_complete \in {0, 1}
  /\ logname \in {"none", "file"}
  /\ done \in Nat
  /\ logged \subseteq Tasks /\ stopping \subseteq Tasks
  /\ daemon \in DaemonPlaces
  /\ pc \in [Tasks -> TaskPlaces]

(* dtvlogd_init(), and the daemon's first wait. *)
Init ==
  /\ opt_dtvlogd = 0 /\ logname = "none" /\ dlogbuf_complete = 0
  /\ done = 0
  /\ logged = {} /\ stopping = {}
  /\ daemon = "wait"
  /\ pc = [t \in Tasks |-> "idle"]

Goto(t, place) == pc' = [pc EXCEPT ![t] = place]

-----------------------------------------------------------------------------
(* The tasks. *)

(* printk() or a write to a tty: do_dtvlog(3) and do_dtvlog(11). *)
Log(t) ==
  /\ pc[t] = "idle"
  /\ logged' = logged \cup {t}
  /\ UNCHANGED <<opt_dtvlogd, logname, dlogbuf_complete, done, daemon, pc,
                 stopping>>

(* dtvlogd_usblog_start(): the name is set, ... *)
UsblogStart(t) ==
  /\ pc[t] = "idle"
  /\ logname' = "file"
  /\ Goto(t, "enable")
  /\ UNCHANGED <<opt_dtvlogd, dlogbuf_complete, done, logged, daemon,
                 stopping>>

(* ... then the logging is turned on. *)
Enable(t) ==
  /\ pc[t] = "enable"
  /\ opt_dtvlogd' = 1
  /\ Goto(t, "idle")
  /\ UNCHANGED <<logname, dlogbuf_complete, done, logged, daemon,
                 stopping>>

(* do_dtvlog(5) from panic(), die() or /proc/dtvlogd, or, with stop, from  *)
(* dtvlogd_usblog_stop(), which returns at once if the logging is off.     *)
FlushOrStop(t, stop) ==
  /\ pc[t] = "idle"
  /\ stop => opt_dtvlogd = 1
  /\ stopping' = IF stop THEN stopping \cup {t} ELSE stopping \ {t}
  /\ Goto(t, "flush")
  /\ UNCHANGED <<opt_dtvlogd, logname, dlogbuf_complete, done, logged, daemon>>

(* What a caller of do_dtvlog(5) does when it returns. *)
AfterFlush(t) == IF t \in stopping THEN "forget" ELSE "idle"

(* do_dtvlog(5) returns at once if the logging is off. *)
TestOpt(t) ==
  /\ pc[t] = "flush"
  /\ Goto(t, IF opt_dtvlogd = 1 THEN "request" ELSE AfterFlush(t))
  /\ UNCHANGED <<opt_dtvlogd, logname, dlogbuf_complete, done, logged, daemon,
                 stopping>>

(* The flag is raised and the daemon woken (it may wake by itself at any   *)
(* time, after USBLOG_SAVE_INTERVAL). *)
Request(t) ==
  /\ pc[t] = "request"
  /\ dlogbuf_complete' = 1
  /\ Goto(t, "waiting")
  /\ UNCHANGED <<opt_dtvlogd, logname, done, logged, daemon, stopping>>

(* wait_for_completion() returns. *)
WaitForCompletion(t) ==
  /\ pc[t] = "waiting"
  /\ done > 0
  /\ done' = done - 1
  /\ Goto(t, "returned")
  /\ UNCHANGED <<opt_dtvlogd, logname, dlogbuf_complete, logged, daemon,
                 stopping>>

Returned(t) ==
  /\ pc[t] = "returned"
  /\ Goto(t, AfterFlush(t))
  /\ UNCHANGED <<opt_dtvlogd, logname, dlogbuf_complete, done, logged, daemon,
                 stopping>>

(* dtvlogd_usblog_stop() goes on to clear the name ... *)
Forget(t) ==
  /\ pc[t] = "forget"
  /\ logname' = "none"
  /\ Goto(t, "stop")
  /\ UNCHANGED <<opt_dtvlogd, dlogbuf_complete, done, logged, daemon, stopping>>

(* ... and to turn the logging off. *)
Stop(t) ==
  /\ pc[t] = "stop"
  /\ opt_dtvlogd' = 0
  /\ Goto(t, "idle")
  /\ UNCHANGED <<logname, dlogbuf_complete, done, logged, daemon,
                 stopping>>

-----------------------------------------------------------------------------
(* The daemon. *)

(* wait_event_interruptible_timeout() returns. *)
WakeUp ==
  /\ daemon = "wait"
  /\ daemon' = "check"
  /\ UNCHANGED <<opt_dtvlogd, logname, dlogbuf_complete, done, logged,
                 pc, stopping>>

(* The head of the daemon's loop: do_dtvlog(4) if the logging is on. *)
Check ==
  /\ daemon = "check"
  /\ daemon' = IF opt_dtvlogd = 1 THEN "chars" ELSE "wait"
  /\ UNCHANGED <<opt_dtvlogd, logname, dlogbuf_complete, done, logged, pc, stopping>>

(* usblog_flush() returns if no character is logged, ... *)
TestChars ==
  /\ daemon = "chars"
  /\ daemon' = IF logged = {} THEN "test" ELSE "enabled"
  /\ UNCHANGED <<opt_dtvlogd, logname, dlogbuf_complete, done, logged, pc, stopping>>

(* ... or if the logging has been turned off; ... *)
TestEnabled ==
  /\ daemon = "enabled"
  /\ daemon' = IF opt_dtvlogd = 1 THEN "copy" ELSE "test"
  /\ UNCHANGED <<opt_dtvlogd, logname, dlogbuf_complete, done, logged, pc, stopping>>

(* Mutant: the buffer is copied and not emptied. *)
CopyNoReset ==
  /\ daemon = "copy"
  /\ daemon' = "write"
  /\ UNCHANGED <<opt_dtvlogd, logname, dlogbuf_complete, done, logged, pc, stopping>>

(* ... the section under dlogbuf_lock copies the buffer and empties it.    *)
Copy ==
  /\ daemon = "copy"
  /\ logged' = {}
  /\ daemon' = "write"
  /\ UNCHANGED <<opt_dtvlogd, logname, dlogbuf_complete, done, pc, stopping>>

(* usblog_write(): the open can succeed only if there is a name. *)
UsblogWrite ==
  /\ daemon = "write"
  /\ \/ logname # "none" /\ daemon' = "test"
     \/ daemon' = "unname"
  /\ UNCHANGED <<opt_dtvlogd, logname, dlogbuf_complete, done, logged, pc, stopping>>

(* usblog_write() after a failed open: the name is cleared, ... *)
Unname ==
  /\ daemon = "unname"
  /\ logname' = "none"
  /\ daemon' = "disable"
  /\ UNCHANGED <<opt_dtvlogd, dlogbuf_complete, done, logged, pc, stopping>>

(* Mutant: a failed open leaves the logging on. *)
DisableNot ==
  /\ daemon = "disable"
  /\ daemon' = "test"
  /\ UNCHANGED <<opt_dtvlogd, logname, dlogbuf_complete, done, logged, pc,
                 stopping>>

(* ... then the logging is turned off. *)
Disable ==
  /\ daemon = "disable"
  /\ opt_dtvlogd' = 0
  /\ daemon' = "test"
  /\ UNCHANGED <<logname, dlogbuf_complete, done, logged, pc, stopping>>

(* do_dtvlog(4) after the flush: if (dlogbuf_complete) ... *)
Test ==
  /\ daemon = "test"
  /\ daemon' = IF dlogbuf_complete = 1 THEN "complete" ELSE "wait"
  /\ UNCHANGED <<opt_dtvlogd, logname, dlogbuf_complete, done, logged, pc,
                 stopping>>

(* ... complete() ... *)
Complete ==
  /\ daemon = "complete"
  /\ done' = done + 1
  /\ daemon' = "clear"
  /\ UNCHANGED <<opt_dtvlogd, logname, dlogbuf_complete, logged, pc, stopping>>

(* Mutant: the flag stays up. *)
ClearNot ==
  /\ daemon = "clear"
  /\ daemon' = "wait"
  /\ UNCHANGED <<opt_dtvlogd, logname, dlogbuf_complete, done, logged, pc,
                 stopping>>

(* ... and the flag goes down. *)
Clear ==
  /\ daemon = "clear"
  /\ dlogbuf_complete' = 0
  /\ daemon' = "wait"
  /\ UNCHANGED <<opt_dtvlogd, logname, done, logged, pc, stopping>>

-----------------------------------------------------------------------------
Daemon ==
  \/ WakeUp \/ Check \/ TestChars \/ TestEnabled \/ Copy \/ UsblogWrite
  \/ Unname \/ Disable \/ Test \/ Complete \/ Clear

(* What a task that has called into the logger does next. *)
Continue(t) ==
  \/ Enable(t) \/ TestOpt(t) \/ Request(t) \/ WaitForCompletion(t)
  \/ Returned(t) \/ Forget(t) \/ Stop(t)

Next ==
  \/ Daemon
  \/ \E t \in Tasks :
       \/ Log(t) \/ UsblogStart(t) \/ Continue(t)
       \/ \E stop \in BOOLEAN : FlushOrStop(t, stop)

Spec == Init /\ [][Next]_vars

(* The daemon's waits end (they have a timeout), and a task in the logger  *)
(* goes on; nobody has to log, start, flush or stop.                       *)
FairSpec ==
  /\ Spec
  /\ WF_vars(Daemon)
  /\ \A t \in Tasks : WF_vars(Continue(t))

-----------------------------------------------------------------------------
(* Properties. *)

Waiting == {t \in Tasks : pc[t] = "waiting"}

(* No completion is left over when the requests have returned: there are   *)
(* at most as many as tasks that wait for one, however the tasks' setting  *)
(* of the flag and the daemon's test, complete() and clearing of the flag  *)
(* interleave.  (Which of the tasks that wait takes one is open: a later   *)
(* request may be answered by the completion of an earlier one.)           *)
NoStaleCompletion == done <= Cardinality(Waiting)

(* While the logging is on, what is logged leaves the buffer within a      *)
(* round of the daemon, without anybody asking for it.  (That the write to *)
(* the USB file succeeds is not claimed.)                                  *)
LogDrained == \A t \in Tasks : t \in logged ~> (t \notin logged \/ opt_dtvlogd = 0)

(* A start that races a failing open can leave the logging on without a    *)
(* file name; the next message to be saved turns it off again.             *)
NamelessHeals ==
  (opt_dtvlogd = 1 /\ logname = "none" /\ logged # {})
    ~> (logname # "none" \/ opt_dtvlogd = 0)

(* "5 -- Synchronously read and clear all messages remaining in the dlog   *)
(* buffer" (comment above do_dtvlog): when the call returns and the        *)
(* logging is on, the caller's message has left the buffer.                *)
SyncFlush == \A t \in Tasks : pc[t] = "returned" /\ opt_dtvlogd = 1 => t \notin logged

(* "This should be used by external callers as it provides protection"     *)
(* (same comment): a task that asks for a flush gets its answer.           *)
FlushReturns == \A t \in Tasks : pc[t] = "waiting" ~> pc[t] = "returned"

=============================================================================
