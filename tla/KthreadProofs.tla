--------------------------- MODULE KthreadProofs ---------------------------
(***************************************************************************)
(* Proofs about Kthread, for any finite set of creators.                   *)
(***************************************************************************)
EXTENDS Kthread, WaitQueueTheorems, FiniteSetTheorems, TLAPS

(* The tasks whose kthread_create() has not been answered yet.             *)
Asking(c) == pc[c] \in {"wake", "wait"} /\ c \notin created

(* A request that has not been answered is in exactly one of three places: *)
(* in the list, with kthreadd, with the new thread.                        *)
Request(c) ==
  /\ Asking(c) <=> \/ In(c, kthread_create_list)
                   \/ create = c
                   \/ thread[c] \in {"new", "told"}
  /\ In(c, kthread_create_list) => create # c /\ thread[c] = "none"
  /\ create = c => thread[c] = "none"

Requests ==
  /\ Distinct(kthread_create_list)
  /\ kthreadd = "fork" <=> create # Kthreadd
  /\ \A c \in Creators : Request(c)

(* What the creator of a thread may still do to it, where the thread is.   *)
(* This rests on Request: only an answered creator can have a thread.      *)
Lifetime(c) ==
  /\ pc[c] \in {"idle", "error"} => thread[c] = "none"
  /\ pc[c] \in {"wake", "wait"} => thread[c] \in {"none", "new", "told", "schedule"}
  /\ pc[c] \in {"wake", "wait"} /\ c \in created =>
       thread[c] = IF result[c] = "task" THEN "schedule" ELSE "none"
  /\ pc[c] \in {"have", "bind"} => thread[c] = "schedule"
  /\ pc[c] \in {"running", "test", "set", "wake2", "exit", "code", "stopped"} =>
       thread[c] \notin {"none", "new", "told"}
  /\ pc[c] \in {"code", "stopped"} => thread[c] \in {"complete", "dead"}
  /\ pc[c] # "warned"

(* Why a thread that is made sleeps or runs: it stays blocked until it is  *)
(* woken or told to stop, and calls threadfn() only in the first case.     *)
Woken(c) ==
  /\ thread[c] = "told" => result[c] = "task" /\ c \in sleepy
  /\ c \in should_stop => pc[c] \in {"wake2", "exit", "code", "stopped"}
  /\ pc[c] \in {"wake2", "exit"} => c \in should_stop
  /\ c \in woken => pc[c] \in {"running", "test", "set", "wake2", "exit", "code", "stopped"}
  /\ thread[c] = "schedule" => c \in sleepy \/ c \in woken \/ c \in should_stop
  /\ thread[c] = "check" => c \in woken \/ c \in should_stop
  /\ c \in started => c \in woken

(* What kthread_stop() reads: vfork_done, the completion and the result.   *)
Exit(c) ==
  /\ c \in vfork_done <=> thread[c] \notin {"none", "new", "complete", "dead"}
  /\ c \in exited => thread[c] = "dead"
  /\ thread[c] \in {"none", "new", "told", "schedule", "check"} => c \notin started
  /\ thread[c] \in {"fn", "fnTest", "fnSchedule"} => c \in started
  /\ thread[c] \in {"release", "complete", "dead"} =>
       exit_code[c] = IF c \in started THEN "ret" ELSE "EINTR"

IInv ==
  /\ TypeOK /\ Requests
  /\ \A c \in Creators : Lifetime(c) /\ Woken(c) /\ Exit(c)

-----------------------------------------------------------------------------
(* A step that leaves everything of thread d and of its creator alone.     *)
Same(d) ==
  /\ pc'[d] = pc[d] /\ thread'[d] = thread[d]
  /\ result'[d] = result[d] /\ exit_code'[d] = exit_code[d]
  /\ d \in created' <=> d \in created
  /\ d \in sleepy' <=> d \in sleepy
  /\ d \in should_stop' <=> d \in should_stop
  /\ d \in exited' <=> d \in exited
  /\ d \in vfork_done' <=> d \in vfork_done
  /\ d \in woken' <=> d \in woken
  /\ d \in started' <=> d \in started

Own(c) == Request(c) /\ Lifetime(c) /\ Woken(c) /\ Exit(c)

LEMMA SameOwn ==
  ASSUME NEW d \in Creators, Same(d), Lifetime(d), Woken(d), Exit(d)
  PROVE  (Asking(d)' <=> Asking(d)) /\ Lifetime(d)' /\ Woken(d)' /\ Exit(d)'
  BY DEF Same, Asking, Lifetime, Woken, Exit

(* A step of one thread or of its creator, outside the list and kthreadd.  *)
Keeps(c) ==
  /\ TypeOK' /\ UNCHANGED <<kthread_create_list, kthreadd, create>>
  /\ \A d \in Creators \ {c} : Same(d)
  /\ Own(c)'

LEMMA OwnStep ==
  ASSUME IInv, NEW c \in Creators, Keeps(c)
  PROVE  IInv'
<1> USE DEF Keeps
<1>1. ASSUME NEW d \in Creators \ {c} PROVE Own(d)'
  <2>1. Lifetime(d)' /\ Woken(d)' /\ Exit(d)' /\ (Asking(d)' <=> Asking(d))
    BY SameOwn DEF IInv
  <2>2. Request(d)'
    BY <2>1 DEF IInv, Requests, Request, Same
  <2> QED BY <2>1, <2>2 DEF Own
<1>2. Requests'
  BY <1>1 DEF IInv, Requests, Own
<1> QED BY <1>1, <1>2 DEF IInv, Own

(* kthread_create() after the request, kthread_bind() and wake_up_process(). *)
LEMMA StartStep ==
  ASSUME IInv, NEW c \in Creators,
         \/ WakeKthreadd(c) \/ WaitForCreated(c) \/ CreateFailed(c)
         \/ KthreadBind(c) \/ WakeUpProcess(c)
  PROVE  IInv'
<1> SUFFICES Keeps(c)
  BY OwnStep
<1> USE KthreadAssumption
    DEF IInv, TypeOK, Requests, Own, Request, Asking, Lifetime, Woken, Exit, Same,
        Keeps, Goto, Move, kd, request, struct, aux
<1>1. CASE WakeKthreadd(c)
  BY <1>1 DEF WakeKthreadd
<1>2. CASE WaitForCreated(c)
  BY <1>2 DEF WaitForCreated
<1>3. CASE CreateFailed(c)
  BY <1>3 DEF CreateFailed
<1>4. CASE KthreadBind(c)
  BY <1>4 DEF KthreadBind
<1>5. CASE WakeUpProcess(c)
  BY <1>5 DEF WakeUpProcess
<1> HIDE DEF Keeps
<1> QED BY <1>1, <1>2, <1>3, <1>4, <1>5

(* kthread_stop(). *)
LEMMA StopStep ==
  ASSUME IInv, NEW c \in Creators,
         \/ KthreadStop(c) \/ StopTest(c) \/ StopSetAndWake(c)
         \/ WaitForExited(c) \/ ReadExitCode(c) \/ Forget(c)
  PROVE  IInv'
<1> SUFFICES Keeps(c)
  BY OwnStep
<1> USE KthreadAssumption
    DEF IInv, TypeOK, Requests, Own, Request, Asking, Lifetime, Woken, Exit, Same,
        Keeps, Goto, Move, kd, request, struct, aux
<1>1. CASE KthreadStop(c)
  BY <1>1 DEF KthreadStop
<1>2. CASE StopTest(c)
  BY <1>2 DEF StopTest
<1>3. CASE StopSetAndWake(c)
  BY <1>3 DEF StopSetAndWake
<1>4. CASE WaitForExited(c)
  BY <1>4 DEF WaitForExited
<1>5. CASE ReadExitCode(c)
  BY <1>5 DEF ReadExitCode
<1>6. CASE Forget(c)
  BY <1>6 DEF Forget
<1> HIDE DEF Keeps
<1> QED BY <1>1, <1>2, <1>3, <1>4, <1>5, <1>6

(* The thread itself. *)
LEMMA ThreadStepOwn ==
  ASSUME IInv, NEW c \in Creators,
         \/ Tell(c) \/ Scheduled(c) \/ Check(c) \/ ThreadfnSleep(c)
         \/ ThreadfnReturn(c) \/ MmRelease(c) \/ CompleteVfork(c)
  PROVE  IInv'
<1> SUFFICES Keeps(c)
  BY OwnStep
<1> USE KthreadAssumption
    DEF IInv, TypeOK, Requests, Own, Request, Asking, Lifetime, Woken, Exit, Same,
        Keeps, Goto, Move, kd, request, struct, aux
<1>1. CASE Tell(c)
  BY <1>1 DEF Tell
<1>2. CASE Scheduled(c)
  BY <1>2 DEF Scheduled
<1>3. CASE Check(c)
  BY <1>3 DEF Check
<1>4. CASE ThreadfnSleep(c)
  BY <1>4 DEF ThreadfnSleep
<1>5. CASE ThreadfnReturn(c)
  BY <1>5 DEF ThreadfnReturn
<1>6. CASE MmRelease(c)
  BY <1>6 DEF MmRelease
<1>7. CASE CompleteVfork(c)
  BY <1>7 DEF CompleteVfork
<1> HIDE DEF Keeps
<1> QED BY <1>1, <1>2, <1>3, <1>4, <1>5, <1>6, <1>7

-----------------------------------------------------------------------------
(* The list of requests is never longer than the number of creators.       *)
LEMMA QueueLength ==
  ASSUME NEW S, IsFiniteSet(S), NEW q \in Seq(S), Distinct(q)
  PROVE  Len(q) <= Cardinality(S)
<1>1. Len(q) \in 0 .. Len(q)
  OBVIOUS
<1>2. FirstOf(q, Len(q)) \subseteq S
  BY DEF FirstOf
<1>3. Cardinality(FirstOf(q, Len(q))) = Len(q)
  BY <1>1, FirstOfCardinality
<1> QED BY <1>2, <1>3, FS_Subset

(* kthread_create() puts its request at the end of the list.               *)
LEMMA KthreadCreateStep ==
  ASSUME IInv, NEW c \in Creators, KthreadCreate(c)
  PROVE  IInv'
<1> DEFINE list == kthread_create_list
<1>1. /\ list \in Seq(Creators) /\ Distinct(list)
      /\ ~In(c, list) /\ create # c /\ thread[c] = "none"
  BY DEF IInv, TypeOK, Requests, Request, Asking, Lifetime, KthreadCreate, Goto
<1>2. /\ list' \in Seq(Creators) /\ Distinct(list')
      /\ \A d : In(d, list') <=> In(d, list) \/ d = c
  BY <1>1, AppendQueue DEF KthreadCreate
<1>3. Len(list') <= Cardinality(Creators)
  BY <1>2, KthreadAssumption, QueueLength
<1>4. UNCHANGED <<kthreadd, create, should_stop, exited, vfork_done, exit_code, sleepy,
                  thread, woken, started>>
  BY DEF KthreadCreate, kd, struct, aux
<1>5. TypeOK'
  BY <1>2, <1>3, <1>4 DEF IInv, TypeOK, KthreadCreate, Goto
<1>6. ASSUME NEW d \in Creators, d # c PROVE Own(d)'
  <2>1. Same(d)
    BY <1>4, <1>6 DEF IInv, TypeOK, Same, KthreadCreate, Goto
  <2>2. Lifetime(d)' /\ Woken(d)' /\ Exit(d)' /\ (Asking(d)' <=> Asking(d))
    BY <2>1, SameOwn DEF IInv
  <2>3. Request(d)'
    BY <1>2, <1>4, <1>6, <2>2 DEF IInv, Requests, Request
  <2> QED BY <2>2, <2>3 DEF Own
<1>7. Own(c)'
  <2>1. pc[c] = "idle" /\ pc'[c] = "wake" /\ c \notin created'
    BY DEF IInv, TypeOK, KthreadCreate, Goto
  <2>2. Request(c)'
    BY <1>1, <1>2, <1>4, <2>1 DEF Request, Asking
  <2>3. Lifetime(c)' /\ Woken(c)' /\ Exit(c)'
    BY <1>1, <1>4, <2>1 DEF IInv, Lifetime, Woken, Exit
  <2> QED BY <2>2, <2>3 DEF Own
<1>8. Requests'
  BY <1>2, <1>4, <1>6, <1>7 DEF IInv, Requests, Own
<1> QED BY <1>5, <1>6, <1>7, <1>8 DEF IInv, Own

(* kthreadd going to sleep or not moves no request.                        *)
LEMMA KthreaddSleepStep ==
  ASSUME IInv, KthreaddSleep
  PROVE  IInv'
<1>1. UNCHANGED <<create, kthread_create_list, result, created, should_stop, exited,
                  vfork_done, exit_code, pc, thread, woken, started>>
  BY DEF KthreaddSleep, request, struct, aux
<1>2. TypeOK'
  BY <1>1, KthreadAssumption DEF IInv, TypeOK, KthreaddSleep
<1>3. kthreadd # "fork" /\ kthreadd' # "fork"
  BY DEF KthreaddSleep
<1>4. ASSUME NEW d \in Creators PROVE Lifetime(d)' /\ Woken(d)' /\ Exit(d)' /\ Request(d)'
  <2>1. Same(d)
    BY <1>1, KthreadAssumption DEF Same, KthreaddSleep
  <2> QED BY <1>1, <2>1, SameOwn DEF IInv, Requests, Request
<1>5. Requests'
  BY <1>1, <1>3, <1>4 DEF IInv, Requests
<1> QED BY <1>2, <1>4, <1>5 DEF IInv

(* kthreadd takes the oldest request.                                      *)
LEMMA KthreaddTakeStep ==
  ASSUME IInv, KthreaddTake
  PROVE  IInv'
<1> DEFINE list == kthread_create_list
<1>1. UNCHANGED <<result, created, should_stop, exited, vfork_done, exit_code, sleepy, pc,
                  thread, woken, started>>
  BY DEF KthreaddTake, struct, aux
<1>2. ASSUME NEW d \in Creators
      PROVE  Lifetime(d)' /\ Woken(d)' /\ Exit(d)' /\ (Asking(d)' <=> Asking(d))
  BY <1>1, SameOwn DEF IInv, Same
<1>3. create = Kthreadd
  BY DEF IInv, Requests, KthreaddTake
<1>4. CASE list = <<>>
  <2>1. UNCHANGED <<kthread_create_list, create>> /\ kthreadd' = "mark"
    BY <1>4 DEF KthreaddTake
  <2>2. TypeOK'
    BY <1>1, <2>1 DEF IInv, TypeOK
  <2>3. Requests'
    BY <1>1, <1>2, <1>3, <2>1 DEF IInv, Requests, Request
  <2> QED BY <1>2, <2>2, <2>3 DEF IInv
<1>5. CASE list # <<>>
  <2>1. create' = Head(list) /\ list' = Tail(list) /\ kthreadd' = "fork"
    BY <1>5 DEF KthreaddTake
  <2>2. list \in Seq(Creators) /\ Distinct(list)
    BY DEF IInv, TypeOK, Requests
  <2>3. /\ list' \in Seq(Creators) /\ Distinct(list') /\ create' \in Creators
        /\ In(create', list)
        /\ \A d : In(d, list') <=> In(d, list) /\ d # create'
    BY <1>5, <2>1, <2>2, TailQueue
  <2>4. Len(list') <= Cardinality(Creators)
    BY <2>3, KthreadAssumption, QueueLength
  <2>5. TypeOK'
    BY <1>1, <2>1, <2>3, <2>4 DEF IInv, TypeOK
  <2>6. ASSUME NEW d \in Creators PROVE Request(d)'
    BY <1>1, <1>2, <1>3, <2>3, KthreadAssumption DEF IInv, Requests, Request
  <2>7. Requests'
    BY <2>1, <2>3, <2>6, KthreadAssumption DEF Requests
  <2> QED BY <1>2, <2>5, <2>7 DEF IInv
<1> QED BY <1>4, <1>5

(* kernel_thread() makes the thread that will answer the request, or       *)
(* kthreadd answers it.                                                    *)
LEMMA ForkStep ==
  ASSUME IInv, CreateKthread \/ CreateKthreadFails
  PROVE  IInv'
<1>1. /\ create \in Creators /\ create' = Kthreadd /\ kthreadd' = "take"
      /\ UNCHANGED <<kthread_create_list, should_stop, exited, vfork_done, exit_code,
                     sleepy, pc, woken, started>>
  BY DEF IInv, TypeOK, Requests, CreateKthread, CreateKthreadFails, request, struct, aux
<1>2. PICK c \in Creators : c = create
  BY <1>1
<1>3. TypeOK'
  BY <1>1 DEF IInv, TypeOK, CreateKthread, CreateKthreadFails, Move, request
<1>4. ASSUME NEW d \in Creators, d # c PROVE Own(d)'
  <2>1. Same(d)
    BY <1>1, <1>2, <1>4
    DEF IInv, TypeOK, Same, CreateKthread, CreateKthreadFails, Move, request
  <2>2. Lifetime(d)' /\ Woken(d)' /\ Exit(d)' /\ (Asking(d)' <=> Asking(d))
    BY <2>1, SameOwn DEF IInv
  <2>3. Request(d)'
    BY <1>1, <1>2, <1>4, <2>1, <2>2, KthreadAssumption DEF IInv, Requests, Request, Same
  <2> QED BY <2>2, <2>3 DEF Own
<1>5. Own(c)'
  <2>1. thread[c] = "none" /\ Asking(c) /\ ~In(c, kthread_create_list)
    BY <1>2 DEF IInv, Requests, Request
  <2>2. \/ /\ thread'[c] = "new" /\ UNCHANGED <<result, created>>
        \/ /\ c \in created' /\ result'[c] = "error" /\ UNCHANGED thread
    BY <1>1, <1>2 DEF IInv, TypeOK, CreateKthread, CreateKthreadFails, Move, request
  <2>3. Request(c)'
    BY <1>1, <1>2, <2>1, <2>2, KthreadAssumption DEF Request, Asking
  <2>4. Lifetime(c)' /\ Woken(c)' /\ Exit(c)'
    BY <1>1, <2>1, <2>2 DEF IInv, Asking, Lifetime, Woken, Exit
  <2> QED BY <2>3, <2>4 DEF Own
<1>6. Requests'
  BY <1>1, <1>4, <1>5 DEF IInv, Requests, Own
<1> QED BY <1>3, <1>4, <1>5, <1>6 DEF IInv, Own

-----------------------------------------------------------------------------
LEMMA InitIInv == Init => IInv
<1> SUFFICES ASSUME Init PROVE IInv
  OBVIOUS
<1>1. kthread_create_list \in Seq(Creators) /\ Distinct(kthread_create_list)
  BY DEF Init, Distinct, Positions
<1>2. TypeOK
  BY <1>1, KthreadAssumption, QueueLength DEF Init, TypeOK
<1>3. ASSUME NEW c \in Creators PROVE Own(c)
  BY KthreadAssumption
  DEF Init, Own, Request, Asking, Lifetime, Woken, Exit, In, Positions
<1> QED BY <1>1, <1>2, <1>3 DEF IInv, Init, Requests, Own

LEMMA IInvInductive == IInv /\ [Next]_vars => IInv'
<1> SUFFICES ASSUME IInv, [Next]_vars PROVE IInv'
  OBVIOUS
<1>1. CASE KthreaddStep
  BY <1>1, KthreaddSleepStep, KthreaddTakeStep, ForkStep DEF KthreaddStep
<1>2. ASSUME NEW c \in Creators, Start(c) PROVE IInv'
  BY <1>2, KthreadCreateStep, StartStep, StopStep DEF Start
<1>3. ASSUME NEW c \in Creators, CreatorStep(c) PROVE IInv'
  BY <1>3, StartStep, StopStep DEF CreatorStep
<1>4. ASSUME NEW c \in Creators, ThreadStep(c) \/ ThreadfnReturn(c) PROVE IInv'
  BY <1>4, ThreadStepOwn DEF ThreadStep
<1>5. CASE UNCHANGED vars
  BY <1>5
  DEF IInv, TypeOK, Requests, Request, Asking, Lifetime, Woken, Exit,
      vars, kd, request, struct, aux
<1> QED BY <1>1, <1>2, <1>3, <1>4, <1>5 DEF Next

(* kthreadd has set its state before it looks at the list, and a creator   *)
(* wakes it after it has queued its request: whichever comes last sees the *)
(* other.                                                                  *)
LEMMA NoLostRequestInductive ==
  ASSUME TypeOK, NoLostRequest, [Next]_vars
  PROVE  NoLostRequest'
<1>1. CASE KthreaddStep
  BY <1>1
  DEF NoLostRequest, KthreaddStep, KthreaddSleep, KthreaddTake, CreateKthread,
      CreateKthreadFails, request
<1>2. ASSUME NEW c \in Creators, KthreadCreate(c) PROVE NoLostRequest'
  BY <1>2 DEF TypeOK, NoLostRequest, KthreadCreate, Goto
<1>3. ASSUME NEW c \in Creators, WakeKthreadd(c) PROVE NoLostRequest'
  BY <1>3 DEF NoLostRequest, WakeKthreadd
<1>4. ASSUME NEW c \in Creators, UNCHANGED <<kd, kthread_create_list>>,
             Kthreadd \in sleepy' => Kthreadd \in sleepy,
             \A d \in Creators : pc[d] = "wake" => pc'[d] = "wake"
      PROVE  NoLostRequest'
  BY <1>4 DEF NoLostRequest, kd
<1>5. ASSUME NEW c \in Creators,
             \/ WaitForCreated(c) \/ CreateFailed(c) \/ KthreadBind(c) \/ WakeUpProcess(c)
             \/ KthreadStop(c) \/ StopTest(c) \/ StopSetAndWake(c) \/ WaitForExited(c)
             \/ ReadExitCode(c) \/ Forget(c)
      PROVE  NoLostRequest'
  <2>1. UNCHANGED <<kd, kthread_create_list>> /\ sleepy' \subseteq sleepy
    BY <1>5
    DEF WaitForCreated, CreateFailed, KthreadBind, WakeUpProcess, KthreadStop, StopTest,
        StopSetAndWake, WaitForExited, ReadExitCode, Forget, request
  <2>2. \A d \in Creators : pc[d] = "wake" => pc'[d] = "wake"
    BY <1>5
    DEF TypeOK, WaitForCreated, CreateFailed, KthreadBind, WakeUpProcess, KthreadStop,
        StopTest, StopSetAndWake, WaitForExited, ReadExitCode, Forget, Goto
  <2> QED BY <1>4, <2>1, <2>2
<1>6. ASSUME NEW c \in Creators, ThreadStep(c) \/ ThreadfnReturn(c) PROVE NoLostRequest'
  <2>1. /\ UNCHANGED <<kd, kthread_create_list, pc>>
        /\ Kthreadd \in sleepy' => Kthreadd \in sleepy
    BY <1>6, KthreadAssumption
    DEF ThreadStep, Tell, Scheduled, Check, ThreadfnSleep, ThreadfnReturn, MmRelease,
        CompleteVfork, request
  <2> QED BY <1>4, <2>1
<1>7. CASE UNCHANGED vars
  BY <1>7 DEF NoLostRequest, vars, kd, request
<1> QED
  BY <1>1, <1>2, <1>3, <1>5, <1>6, <1>7 DEF Next, Start, CreatorStep

(* The safety of kernel threads for any number of creators: no request is  *)
(* answered after its kthread_create() has returned, none is slept over by *)
(* kthreadd, a new thread can always be bound to a CPU, and kthread_stop() *)
(* returns with the thread's own result only when it is past threadfn().   *)
THEOREM KthreadSafe ==
  Spec => [](CreateInfoAlive /\ NoLostRequest /\ BindAllowed /\ StopSound)
<1>1. IInv => TypeOK /\ CreateInfoAlive /\ BindAllowed /\ StopSound
  <2> SUFFICES ASSUME IInv PROVE CreateInfoAlive /\ BindAllowed /\ StopSound
    BY DEF IInv
  <2>1. CreateInfoAlive
    BY KthreadAssumption DEF IInv, Requests, Request, Asking, CreateInfoAlive
  <2>2. BindAllowed
    BY DEF IInv, Lifetime, BindAllowed
  <2>3. StopSound
    BY DEF IInv, Lifetime, Woken, Exit, StopSound
  <2> QED BY <2>1, <2>2, <2>3
<1>2. Init => NoLostRequest
  BY DEF Init, NoLostRequest
<1>3. IInv /\ NoLostRequest /\ [Next]_vars => NoLostRequest'
  BY NoLostRequestInductive DEF IInv
<1> QED BY <1>1, <1>2, <1>3, InitIInv, IInvInductive, PTL DEF Spec

=============================================================================
