-------------------------- MODULE CompletionProofs --------------------------
(***************************************************************************)
(* Proofs about Completion, for any finite set of tasks and any UINT_MAX.  *)
(***************************************************************************)
EXTENDS Completion, WaitQueueTheorems, FiniteSetTheorems, WellFoundedInduction,
        TLAPS

(* The inductive invariant: to see that complete() makes one more waiter   *)
(* runnable, or that there is none left to wake, the queue must hold the   *)
(* waiters exactly.                                                        *)
IInv == QueueExact /\ NoLostWakeup

Places == {"idle", "asleep", "woken", "success", "failure"}
Asleep(p) == {t \in Tasks : p[t] = "asleep"}
Awake(p) == {t \in Tasks : p[t] = "woken"}

-----------------------------------------------------------------------------
(* A queue q that holds exactly the tasks that wait, according to p: its   *)
(* length is the number of tasks that are awake if and only if none sleeps.*)
LEMMA QueueMembers ==
  ASSUME NEW p \in [Tasks -> Places], NEW q \in Seq(Tasks), Distinct(q),
         \A t \in Tasks : In(t, q) <=> p[t] \in {"asleep", "woken"}
  PROVE  /\ Awake(p) = {t \in Tasks : In(t, q) /\ p[t] = "woken"}
         /\ IsFiniteSet(Awake(p)) /\ Cardinality(Awake(p)) \in Nat
         /\ Cardinality(Awake(p)) = Len(q) <=> Asleep(p) = {}
<1> DEFINE W == Asleep(p) \cup Awake(p)
<1>1. W = FirstOf(q, Len(q))
  BY DEF Asleep, Awake, FirstOf, In, Positions
<1>2. Len(q) \in 0..Len(q)
  OBVIOUS
<1>3. Cardinality(W) = Len(q)
  BY <1>1, <1>2, FirstOfCardinality
<1>4. W \subseteq Tasks /\ Awake(p) \subseteq W /\ Asleep(p) \cap Awake(p) = {}
  BY DEF Asleep, Awake
<1>5. IsFiniteSet(W)
  BY <1>4, CompletionAssumption, FS_Subset
<1>6. IsFiniteSet(Awake(p)) /\ (Cardinality(W) = Cardinality(Awake(p)) => W = Awake(p))
  BY <1>4, <1>5, FS_Subset
<1>7. Awake(p) = {t \in Tasks : In(t, q) /\ p[t] = "woken"}
  BY DEF Awake
<1> QED BY <1>3, <1>4, <1>6, <1>7, FS_CardinalityType

(* What NoLostWakeup says of an exact queue, before and after a step.      *)
LEMMA EnoughAwake ==
  /\ QueueExact => (NoLostWakeup <=> Cardinality(Awake(pc)) >= done \/ Asleep(pc) = {})
  /\ QueueExact' => (NoLostWakeup' <=> Cardinality(Awake(pc')) >= done' \/ Asleep(pc') = {})
  BY QueueMembers DEF QueueExact, TypeOK, Waiting, NoLostWakeup, Places

(* A step after which no event is left, no waiter sleeps, or no fewer      *)
(* waiters are awake.                                                      *)
LEMMA WakeStep ==
  ASSUME IInv, QueueExact',
         \/ done' = 0
         \/ Asleep(pc') = {}
         \/ done' <= done /\ Asleep(pc') \subseteq Asleep(pc) /\ Awake(pc) \subseteq Awake(pc')
  PROVE  IInv'
<1>1. /\ IsFiniteSet(Awake(pc')) /\ Cardinality(Awake(pc')) \in Nat
      /\ Cardinality(Awake(pc)) \in Nat
  BY QueueMembers DEF IInv, QueueExact, TypeOK, Waiting, Places
<1>2. Awake(pc) \subseteq Awake(pc') => Cardinality(Awake(pc)) <= Cardinality(Awake(pc'))
  BY <1>1, FS_Subset
<1>3. done \in Nat /\ done' \in Nat
  BY CompletionAssumption DEF IInv, QueueExact, TypeOK
<1> QED BY <1>1, <1>2, <1>3, EnoughAwake DEF IInv

-----------------------------------------------------------------------------
(* A set of positions that is not empty has a least element.               *)
LEMMA LeastPosition ==
  ASSUME NEW T, T \subseteq Nat, T # {}
  PROVE  \E i \in T : \A j \in T : i <= j
<1> DEFINE R == OpToRel(<, Nat)
<1>1. \A i, j \in Nat : <<i, j>> \in R <=> i < j
  BY DEF OpToRel
<1>2. PICK i \in T : \A j \in T : ~(<<j, i>> \in R)
  BY NatLessThanWellFounded, WFMin
<1> HIDE DEF R
<1>3. ASSUME NEW j \in T PROVE i <= j
  <2>1. i \in Nat /\ j \in Nat /\ ~(j < i)
    BY <1>1, <1>2
  <2> QED BY <2>1
<1> QED BY <1>3

-----------------------------------------------------------------------------
(* Operations that leave the queue and who waits alone, and those that     *)
(* take the caller out of the queue.                                       *)
LEMMA QueueSame ==
  ASSUME QueueExact, TypeOK', wait' = wait,
         \A t \in Tasks : Waiting(t)' <=> Waiting(t)
  PROVE  QueueExact'
  BY DEF QueueExact

LEMMA QueueDel ==
  ASSUME QueueExact, NEW t \in Tasks, RemoveWaitQueue(t),
         NEW r \in {"success", "failure"}, Goto(t, r),
         done' \in 0 .. UINT_MAX, UNCHANGED <<state, timed, expired, sig>>
  PROVE  QueueExact'
<1>1. PICK i \in Positions(wait) : wait[i] = t /\ wait' = Without(wait, i)
  BY DEF RemoveWaitQueue
<1>2. wait \in Seq(Tasks) /\ Distinct(wait)
  BY DEF QueueExact, TypeOK
<1>3. /\ wait' \in Seq(Tasks) /\ Distinct(wait')
      /\ \A u : In(u, wait') <=> In(u, wait) /\ u # t
  BY <1>1, <1>2, DelQueue
<1>4. TypeOK'
  BY <1>3 DEF QueueExact, TypeOK, Goto
<1>5. ASSUME NEW u \in Tasks PROVE Waiting(u)' <=> Waiting(u) /\ u # t
  BY DEF QueueExact, TypeOK, Goto, Waiting
<1> QED BY <1>3, <1>4, <1>5 DEF QueueExact

(* complete() and complete_all() never count past UINT_MAX.                *)
LEMMA CountWraps ==
  ASSUME NEW n \in Nat
  PROVE  n % (UINT_MAX + 1) \in 0 .. UINT_MAX /\ n % (UINT_MAX + 1) <= n
<1>1. UINT_MAX \in Nat
  BY CompletionAssumption
<1> QED BY <1>1

(* __wake_up_common() wakes one of the sleeping waiters, if there is one.  *)
LEMMA WakeUpOneEffect ==
  ASSUME QueueExact
  PROVE  \/ WakeUpOne = pc /\ Asleep(pc) = {}
         \/ \E t \in Asleep(pc) : WakeUpOne = [pc EXCEPT ![t] = "woken"]
<1>1. /\ wait \in Seq(Tasks) /\ pc \in [Tasks -> Places]
      /\ \A t \in Tasks : In(t, wait) <=> Waiting(t)
  BY DEF QueueExact, TypeOK, Places
<1>2. CASE Sleepers = {}
  <2>1. Asleep(pc) = {}
    BY <1>1, <1>2 DEF Sleepers, Asleep, Waiting, In
  <2> QED BY <1>2, <2>1 DEF WakeUpOne
<1>3. CASE Sleepers # {}
  <2>1. Sleepers \subseteq Nat
    BY DEF Sleepers, Positions
  <2>2. \E i \in Sleepers : \A j \in Sleepers : i <= j
    BY <1>3, <2>1, LeastPosition
  <2> DEFINE first == CHOOSE i \in Sleepers : \A j \in Sleepers : i <= j
  <2>3. first \in Sleepers
    BY <2>2
  <2>4. WakeUpOne = [pc EXCEPT ![wait[first]] = "woken"]
    BY <1>3 DEF WakeUpOne
  <2> HIDE DEF first
  <2>5. wait[first] \in Asleep(pc)
    BY <1>1, <2>3 DEF Sleepers, Asleep, Positions
  <2> QED BY <2>4, <2>5
<1> QED BY <1>2, <1>3

-----------------------------------------------------------------------------
(* One lemma for each operation: it preserves the invariant.               *)
LEMMA CompleteStep ==
  ASSUME IInv, Complete
  PROVE  IInv'
<1>1. QueueExact /\ done \in Nat /\ pc \in [Tasks -> Places]
  BY CompletionAssumption DEF IInv, QueueExact, TypeOK, Places
<1>2. done' \in 0 .. UINT_MAX /\ done' <= done + 1
  BY <1>1, CountWraps DEF Complete
<1>3. CASE pc' = pc /\ Asleep(pc) = {}
  <2>1. QueueExact'
    BY <1>1, <1>2, <1>3, QueueSame DEF QueueExact, TypeOK, Complete, Waiting
  <2> QED BY <1>3, <2>1, WakeStep
<1>4. ASSUME NEW t \in Asleep(pc), pc' = [pc EXCEPT ![t] = "woken"]
      PROVE  IInv'
  <2>1. t \in Tasks /\ pc[t] = "asleep"
    BY DEF Asleep
  <2>2. TypeOK'
    BY <1>1, <1>2, <1>4, <2>1 DEF QueueExact, TypeOK, Complete
  <2>3. \A u \in Tasks : Waiting(u)' <=> Waiting(u)
    BY <1>1, <1>4, <2>1 DEF Waiting
  <2>4. QueueExact'
    BY <1>1, <2>2, <2>3, QueueSame DEF Complete
  <2>5. Awake(pc') = Awake(pc) \cup {t} /\ t \notin Awake(pc) /\ t \in Asleep(pc)
    BY <1>1, <1>4, <2>1 DEF Awake, Asleep
  <2>6. IsFiniteSet(Awake(pc)) /\ Cardinality(Awake(pc)) \in Nat
    BY QueueMembers DEF IInv, QueueExact, TypeOK, Waiting, Places
  <2>7. Cardinality(Awake(pc')) = Cardinality(Awake(pc)) + 1
    BY <2>5, <2>6, FS_AddElement
  <2>8. Cardinality(Awake(pc)) >= done
    BY <2>5, EnoughAwake DEF IInv
  <2>9. done' \in Int
    BY <1>2
  <2> QED BY <1>1, <1>2, <2>4, <2>6, <2>7, <2>8, <2>9, EnoughAwake DEF IInv
<1> QED BY <1>1, <1>3, <1>4, WakeUpOneEffect DEF Complete

LEMMA CompleteAllStep ==
  ASSUME IInv, CompleteAll
  PROVE  IInv'
<1>1. QueueExact /\ done \in Nat /\ pc \in [Tasks -> Places]
  BY CompletionAssumption DEF IInv, QueueExact, TypeOK, Places
<1>2. done' \in 0 .. UINT_MAX
  <2>1. done + UINT_MAX \div 2 \in Nat
    BY <1>1, CompletionAssumption
  <2> QED BY <2>1, CountWraps DEF CompleteAll
<1>3. pc' = [t \in Tasks |-> IF pc[t] = "asleep" THEN "woken" ELSE pc[t]]
  BY DEF CompleteAll, WakeUpAll
<1>4. QueueExact'
  <2>1. pc' \in [Tasks -> Places]
    BY <1>1, <1>3 DEF Places
  <2>2. TypeOK'
    BY <1>1, <1>2, <2>1 DEF QueueExact, TypeOK, CompleteAll, Places
  <2>3. \A u \in Tasks : Waiting(u)' <=> Waiting(u)
    BY <1>1, <1>3 DEF Waiting, Places
  <2> QED BY <1>1, <2>2, <2>3, QueueSame DEF CompleteAll
<1>5. Asleep(pc') = {}
  BY <1>1, <1>3 DEF Asleep, Places
<1> QED BY <1>4, <1>5, WakeStep

LEMMA WaitForCommonStep ==
  ASSUME IInv, NEW t \in Tasks, NEW st \in States, NEW timeout \in BOOLEAN,
         WaitForCommon(t, st, timeout)
  PROVE  IInv'
<1>1. /\ QueueExact /\ done \in Nat /\ done \in 0 .. UINT_MAX
      /\ pc \in [Tasks -> Places] /\ pc[t] = "idle"
      /\ wait \in Seq(Tasks) /\ Distinct(wait) /\ ~In(t, wait)
  BY CompletionAssumption DEF IInv, QueueExact, TypeOK, Places, WaitForCommon, Waiting
<1>2. ASSUME NEW r \in {"success", "failure"}, Goto(t, r), done' \in 0 .. UINT_MAX,
             done' <= done, UNCHANGED <<wait, state, timed, expired, sig>>
      PROVE  IInv'
  <2>1. pc' = [pc EXCEPT ![t] = r]
    BY <1>2 DEF Goto
  <2>2. TypeOK'
    BY <1>1, <1>2, <2>1 DEF QueueExact, TypeOK
  <2>3. \A u \in Tasks : Waiting(u)' <=> Waiting(u)
    BY <1>1, <2>1 DEF Waiting
  <2>4. QueueExact'
    BY <1>1, <1>2, <2>2, <2>3, QueueSame
  <2>5. Asleep(pc') = Asleep(pc) /\ Awake(pc') = Awake(pc)
    BY <1>1, <2>1 DEF Asleep, Awake
  <2> QED BY <1>2, <2>4, <2>5, WakeStep
<1>3. CASE /\ done = 0 /\ wait' = Append(wait, t)
           /\ state' = [state EXCEPT ![t] = st]
           /\ timed' = IF timeout THEN timed \cup {t} ELSE timed \ {t}
           /\ expired' = expired \ {t}
           /\ Goto(t, "asleep")
           /\ UNCHANGED <<done, sig>>
  <2>1. pc' = [pc EXCEPT ![t] = "asleep"]
    BY <1>3 DEF Goto
  <2>2. /\ wait' \in Seq(Tasks) /\ Distinct(wait')
        /\ \A u : In(u, wait') <=> In(u, wait) \/ u = t
    BY <1>1, <1>3, AppendQueue
  <2>3. TypeOK'
    BY <1>1, <1>3, <2>1, <2>2 DEF QueueExact, TypeOK
  <2>4. \A u \in Tasks : Waiting(u)' <=> Waiting(u) \/ u = t
    BY <1>1, <2>1 DEF Waiting
  <2>5. QueueExact'
    BY <1>1, <2>2, <2>3, <2>4 DEF QueueExact
  <2> QED BY <1>3, <2>5, WakeStep
<1>4. CASE /\ done > 0 /\ done' = done - 1 /\ Goto(t, "success")
           /\ UNCHANGED <<wait, state, timed, expired, sig>>
  <2>1. done' \in 0 .. UINT_MAX /\ done' <= done
    BY <1>1, <1>4, CompletionAssumption
  <2> QED BY <1>2, <1>4, <2>1
<1>5. CASE Goto(t, "failure") /\ UNCHANGED <<done, wait, state, timed, expired, sig>>
  <2>1. done' \in 0 .. UINT_MAX /\ done' <= done
    BY <1>1, <1>5
  <2> QED BY <1>2, <1>5, <2>1
<1> QED BY <1>3, <1>4, <1>5 DEF WaitForCommon

LEMMA RelockStep ==
  ASSUME IInv, NEW t \in Tasks, Relock(t)
  PROVE  IInv'
<1>1. /\ QueueExact /\ done \in Nat /\ done \in 0 .. UINT_MAX
      /\ pc \in [Tasks -> Places] /\ pc[t] = "woken"
  BY CompletionAssumption DEF IInv, QueueExact, TypeOK, Places, Relock
<1>2. UNCHANGED <<state, timed, expired, sig>>
  BY DEF Relock
<1>3. CASE done > 0 /\ RemoveWaitQueue(t) /\ done' = done - 1 /\ Goto(t, "success")
  <2>1. QueueExact'
    <3>1. done' \in 0 .. UINT_MAX
      BY <1>1, <1>3, CompletionAssumption
    <3> QED BY <1>1, <1>2, <1>3, <3>1, QueueDel
  <2>2. pc' = [pc EXCEPT ![t] = "success"]
    BY <1>3 DEF Goto
  <2>3. Awake(pc') = Awake(pc) \ {t} /\ t \in Awake(pc) /\ Asleep(pc') = Asleep(pc)
    BY <1>1, <2>2 DEF Awake, Asleep
  <2>4. IsFiniteSet(Awake(pc)) /\ Cardinality(Awake(pc)) \in Nat
    BY QueueMembers DEF IInv, QueueExact, TypeOK, Waiting, Places
  <2>5. Cardinality(Awake(pc')) = Cardinality(Awake(pc)) - 1
    BY <2>3, <2>4, FS_RemoveElement
  <2>6. Cardinality(Awake(pc)) >= done \/ Asleep(pc) = {}
    BY EnoughAwake DEF IInv
  <2> QED BY <1>1, <1>3, <2>1, <2>3, <2>4, <2>5, <2>6, EnoughAwake DEF IInv
<1>4. CASE done = 0 /\ RemoveWaitQueue(t) /\ Goto(t, "failure") /\ UNCHANGED done
  <2>1. QueueExact'
    BY <1>1, <1>2, <1>4, QueueDel
  <2> QED BY <1>4, <2>1, WakeStep
<1>5. CASE done = 0 /\ Goto(t, "asleep") /\ UNCHANGED <<done, wait>>
  <2>1. pc' = [pc EXCEPT ![t] = "asleep"]
    BY <1>5 DEF Goto
  <2>2. TypeOK' /\ \A u \in Tasks : Waiting(u)' <=> Waiting(u)
    BY <1>1, <1>2, <1>5, <2>1 DEF QueueExact, TypeOK, Waiting
  <2>3. QueueExact'
    BY <1>1, <1>5, <2>2, QueueSame
  <2> QED BY <1>5, <2>3, WakeStep
<1> QED BY <1>3, <1>4, <1>5 DEF Relock

LEMMA TryWaitStep ==
  ASSUME IInv, NEW t \in Tasks, TryWaitForCompletion(t)
  PROVE  IInv'
<1>1. /\ QueueExact /\ done \in Nat /\ done \in 0 .. UINT_MAX
      /\ pc \in [Tasks -> Places] /\ pc[t] = "idle"
  BY CompletionAssumption DEF IInv, QueueExact, TypeOK, Places, TryWaitForCompletion
<1>2. UNCHANGED <<wait, state, timed, expired, sig>>
  BY DEF TryWaitForCompletion
<1>3. done' \in 0 .. UINT_MAX /\ done' <= done
  BY <1>1, CompletionAssumption DEF TryWaitForCompletion
<1>4. PICK r \in {"success", "failure"} : pc' = [pc EXCEPT ![t] = r]
  BY DEF TryWaitForCompletion, Goto
<1>5. TypeOK' /\ \A u \in Tasks : Waiting(u)' <=> Waiting(u)
  BY <1>1, <1>2, <1>3, <1>4 DEF QueueExact, TypeOK, Waiting
<1>6. QueueExact'
  BY <1>1, <1>2, <1>5, QueueSame
<1>7. Asleep(pc') = Asleep(pc) /\ Awake(pc') = Awake(pc)
  BY <1>1, <1>4 DEF Asleep, Awake
<1> QED BY <1>3, <1>6, <1>7, WakeStep

LEMMA InitCompletionStep ==
  ASSUME IInv, InitCompletion
  PROVE  IInv'
<1>1. 0 \in 0 .. UINT_MAX
  BY CompletionAssumption
<1>2. QueueExact'
  BY <1>1, QueueSame DEF IInv, QueueExact, TypeOK, Waiting, InitCompletion
<1> QED BY <1>2, WakeStep DEF InitCompletion

(* A signal, a timer or a stray wake-up only makes a waiter runnable, and  *)
(* a caller that returns does not wait any more.                           *)
LEMMA EnvironmentStep ==
  ASSUME IInv, NEW t \in Tasks,
         \/ \E s \in {"signal", "kill"} : Signal(t, s)
         \/ TimerFires(t) \/ SpuriousWake(t) \/ Return(t)
  PROVE  IInv'
<1>1. QueueExact /\ done \in Nat /\ pc \in [Tasks -> Places]
  BY CompletionAssumption DEF IInv, QueueExact, TypeOK, Places
<1>2. UNCHANGED <<done, wait, state, timed>>
  BY DEF Signal, TimerFires, SpuriousWake, Return
<1>3. expired' \subseteq Tasks /\ sig' \in [Tasks -> {"none", "signal", "kill"}]
  BY DEF IInv, QueueExact, TypeOK, Signal, TimerFires, SpuriousWake, Return
<1>4. \/ pc' = pc
      \/ Waiting(t) /\ pc' = [pc EXCEPT ![t] = "woken"]
      \/ ~Waiting(t) /\ pc' = [pc EXCEPT ![t] = "idle"]
  BY DEF Signal, TimerFires, SpuriousWake, Return, Goto, Waiting
<1>5. pc' \in [Tasks -> Places] /\ \A u \in Tasks : Waiting(u)' <=> Waiting(u)
  BY <1>1, <1>4 DEF Waiting, Places
<1>6. TypeOK'
  BY <1>1, <1>2, <1>3, <1>5 DEF QueueExact, TypeOK, Places
<1>7. QueueExact'
  BY <1>1, <1>2, <1>5, <1>6, QueueSame
<1>8. Asleep(pc') \subseteq Asleep(pc) /\ Awake(pc) \subseteq Awake(pc')
  BY <1>1, <1>4 DEF Asleep, Awake, Waiting
<1> QED BY <1>1, <1>2, <1>7, <1>8, WakeStep

LEMMA InitIInv == Init => IInv
<1> SUFFICES ASSUME Init PROVE IInv
  OBVIOUS
<1>1. TypeOK
  BY CompletionAssumption DEF Init, TypeOK, States
<1>2. QueueExact
  BY <1>1 DEF Init, QueueExact, Distinct, In, Positions, Waiting
<1>3. Asleep(pc) = {}
  BY DEF Init, Asleep
<1> QED BY <1>2, <1>3, EnoughAwake DEF IInv

LEMMA IInvInductive == IInv /\ [Next]_vars => IInv'
<1> SUFFICES ASSUME IInv, [Next]_vars PROVE IInv'
  OBVIOUS
<1>1. CASE UNCHANGED vars
  <2>1. QueueExact'
    BY <1>1, QueueSame DEF IInv, QueueExact, TypeOK, Waiting, vars
  <2>2. pc' = pc /\ done' = done /\ done \in Nat
    BY <1>1, CompletionAssumption DEF vars, IInv, QueueExact, TypeOK
  <2>3. done' <= done
    BY <2>2
  <2> QED BY <2>1, <2>2, <2>3, WakeStep
<1> QED
  BY <1>1, CompleteStep, CompleteAllStep, WaitForCommonStep, RelockStep, TryWaitStep,
     InitCompletionStep, EnvironmentStep
  DEF Next

(* The safety of completions for any number of tasks and any width of the  *)
(* counter: x->wait holds exactly the waiting tasks, and no wake-up of     *)
(* complete() or complete_all() is lost, whatever signals, timeouts, stray *)
(* wake-ups and tasks that do not queue do in between.                     *)
THEOREM CompletionSafe == Spec => [](QueueExact /\ NoLostWakeup)
<1>1. IInv => QueueExact /\ NoLostWakeup
  BY DEF IInv
<1> QED BY <1>1, InitIInv, IInvInductive, PTL DEF Spec

-----------------------------------------------------------------------------
(* What the abstract specification sees of a task that is at place p.      *)
Report(p) == [t \in Tasks |-> IF p[t] \in {"success", "failure"} THEN p[t] ELSE "none"]

(* A change of place as the abstract specification sees it.                *)
LEMMA ReportChange ==
  ASSUME NEW p \in [Tasks -> Places], NEW t \in Tasks, NEW r \in Places
  PROVE  /\ r \in {"success", "failure"} =>
              Report([p EXCEPT ![t] = r]) = [Report(p) EXCEPT ![t] = r]
         /\ r \notin {"success", "failure"} =>
              Report([p EXCEPT ![t] = r]) = [Report(p) EXCEPT ![t] = "none"]
         /\ Report(p)[t] = "none" <=> p[t] \notin {"success", "failure"}
  BY DEF Report, Places

LEMMA ReportSame ==
  ASSUME NEW p \in [Tasks -> Places], NEW t \in Tasks, NEW r \in {"asleep", "woken"},
         p[t] \notin {"success", "failure"}
  PROVE  Report([p EXCEPT ![t] = r]) = Report(p)
  BY DEF Report, Places

(* Every step of a completion is a step of the counter of events, or is    *)
(* not seen by it.                                                         *)
LEMMA StepRefines ==
  ASSUME IInv, [Next]_vars
  PROVE  [Abstract!Next]_(Abstract!vars)
<1> DEFINE Seen == UNCHANGED <<done, Report(pc)>>
<1>1. QueueExact /\ pc \in [Tasks -> Places] /\ done \in Nat
  BY CompletionAssumption DEF IInv, QueueExact, TypeOK, Places
<1>2. ASSUME NEW t \in Tasks, pc[t] \notin {"success", "failure"}, done > 0,
             done' = done - 1, Goto(t, "success")
      PROVE  Abstract!Take(t)
  <2>1. Report(pc') = [Report(pc) EXCEPT ![t] = "success"] /\ Report(pc)[t] = "none"
    BY <1>1, <1>2, ReportChange DEF Goto, Places
  <2> QED BY <1>2, <2>1 DEF Abstract!Take, Report
<1>3. ASSUME NEW t \in Tasks, pc[t] \notin {"success", "failure"}, done = 0,
             UNCHANGED done, Goto(t, "failure")
      PROVE  Abstract!Fail(t)
  <2>1. Report(pc') = [Report(pc) EXCEPT ![t] = "failure"] /\ Report(pc)[t] = "none"
    BY <1>1, <1>3, ReportChange DEF Goto, Places
  <2> QED BY <1>3, <2>1 DEF Abstract!Fail, Report
<1>4. ASSUME NEW t \in Tasks, NEW r \in {"asleep", "woken"}, UNCHANGED done,
             pc[t] \notin {"success", "failure"}, pc' = [pc EXCEPT ![t] = r]
      PROVE  Seen
  <2>1. Report([pc EXCEPT ![t] = r]) = Report(pc)
    BY <1>1, <1>4, ReportSame
  <2> QED BY <1>4, <2>1
<1>5. ASSUME NEW t \in Tasks, Return(t) PROVE Abstract!Again(t)
  <2>1. Report(pc') = [Report(pc) EXCEPT ![t] = "none"] /\ Report(pc)[t] # "none"
    BY <1>1, <1>5, ReportChange DEF Return, Goto, Places
  <2> QED BY <1>5, <2>1 DEF Abstract!Again, Return, Report
<1>6. CASE Complete
  <2>1. Report(pc') = Report(pc)
    <3>1. CASE pc' = pc
      BY <3>1
    <3>2. ASSUME NEW t \in Asleep(pc), pc' = [pc EXCEPT ![t] = "woken"]
          PROVE  Report(pc') = Report(pc)
      BY <1>1, <3>2, ReportSame DEF Asleep
    <3> QED BY <1>1, <1>6, <3>1, <3>2, WakeUpOneEffect DEF Complete
  <2> QED BY <1>6, <2>1 DEF Complete, Abstract!Next, Abstract!Signal, Report
<1>7. CASE CompleteAll
  <2>1. Report(pc') = Report(pc)
    BY <1>1, <1>7 DEF CompleteAll, WakeUpAll, Report, Places
  <2> QED BY <1>7, <2>1 DEF CompleteAll, Abstract!Next, Abstract!Signal, Report
<1>8. CASE InitCompletion
  BY <1>8 DEF InitCompletion, Abstract!Next, Abstract!Clear
<1>9. ASSUME NEW t \in Tasks, NEW st, NEW timeout, WaitForCommon(t, st, timeout)
      PROVE  Abstract!Take(t) \/ Abstract!Fail(t) \/ Seen
  <2>1. pc[t] = "idle"
    BY <1>9 DEF WaitForCommon
  <2> QED BY <1>2, <1>3, <1>4, <1>9, <2>1 DEF WaitForCommon, Goto
<1>10. ASSUME NEW t \in Tasks, Relock(t)
       PROVE  Abstract!Take(t) \/ Abstract!Fail(t) \/ Seen
  <2>1. pc[t] = "woken"
    BY <1>10 DEF Relock
  <2> QED BY <1>2, <1>3, <1>4, <1>10, <2>1 DEF Relock, Goto
<1>11. ASSUME NEW t \in Tasks, TryWaitForCompletion(t)
       PROVE  Abstract!Take(t) \/ Abstract!Fail(t)
  BY <1>1, <1>2, <1>3, <1>11 DEF TryWaitForCompletion
<1>12. ASSUME NEW t \in Tasks, NEW s, Signal(t, s) \/ TimerFires(t) \/ SpuriousWake(t)
       PROVE  Seen
  <2>1. CASE pc' = pc /\ done' = done
    BY <2>1
  <2>2. CASE Waiting(t) /\ pc' = [pc EXCEPT ![t] = "woken"] /\ done' = done
    BY <1>4, <2>2 DEF Waiting
  <2> QED BY <1>12, <2>1, <2>2 DEF Signal, TimerFires, SpuriousWake, Goto, Waiting
<1>13. UNCHANGED vars => Seen
  BY DEF vars
<1>14. Seen => UNCHANGED Abstract!vars
  BY DEF Abstract!vars, Report
<1> QED
  <2>1. CASE UNCHANGED vars
    BY <2>1, <1>13, <1>14
  <2>2. ASSUME NEW t \in Tasks,
               \/ \E st \in States, timeout \in BOOLEAN : WaitForCommon(t, st, timeout)
               \/ Relock(t) \/ TryWaitForCompletion(t)
               \/ \E s \in {"signal", "kill"} : Signal(t, s)
               \/ TimerFires(t) \/ SpuriousWake(t) \/ Return(t)
        PROVE  Abstract!Take(t) \/ Abstract!Fail(t) \/ Abstract!Again(t) \/ Seen
    BY <2>2, <1>5, <1>9, <1>10, <1>11, <1>12
  <2> HIDE DEF Seen
  <2> QED BY <2>1, <2>2, <1>6, <1>7, <1>8, <1>14 DEF Next, Abstract!Next

(* Completions count events: a wait that succeeds has taken exactly one,   *)
(* and a timeout or a signal is only reported when there is none, so that  *)
(* a complete() that comes before the waiter runs again is never lost.     *)
THEOREM CompletionRefines == Spec => ImplementsEventCount
<1>1. Init => Abstract!Init
  BY DEF Init, Abstract!Init
<1> QED
  BY <1>1, InitIInv, IInvInductive, StepRefines, PTL
  DEF Spec, ImplementsEventCount, Abstract!Spec

=============================================================================
