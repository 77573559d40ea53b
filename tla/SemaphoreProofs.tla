-------------------------- MODULE SemaphoreProofs --------------------------
(***************************************************************************)
(* Proofs about Semaphore, for any set of tasks and any initial count.     *)
(***************************************************************************)
EXTENDS Semaphore, WaitQueueTheorems, FiniteSetTheorems, TLAPS

(* count, the list and the tasks' fields keep their types; in particular   *)
(* sem->count, an unsigned int, never goes below zero.                     *)
THEOREM TypeCorrect == Spec => []TypeOK
<1>1. Init => TypeOK
  BY SemAssumption DEF Init, TypeOK, Places, Modes, Signals
<1>2. TypeOK /\ [Next]_vars => TypeOK'
  <2> SUFFICES ASSUME TypeOK, [Next]_vars PROVE TypeOK'
    OBVIOUS
  <2> USE DEF TypeOK, Places, Modes, Signals, Leave
  <2>1. ASSUME NEW t \in Tasks, TakeUnit(t) PROVE TypeOK'
    BY <2>1 DEF TakeUnit
  <2>2. ASSUME NEW t \in Tasks, NEW m \in Modes, NEW timeout \in 0..1,
               DownContended(t, m, timeout)
        PROVE TypeOK'
    BY <2>2 DEF DownContended, SignalPending
  <2>3. ASSUME NEW t \in Tasks, DownTrylock(t) PROVE TypeOK'
    BY <2>1, <2>3 DEF DownTrylock
  <2>4. ASSUME NEW t \in Tasks, Relock(t) PROVE TypeOK'
    <3>1. ASSUME ListDel(t) PROVE wait_list' \in Seq(Tasks)
      BY <3>1 DEF ListDel, Without, Positions
    <3> QED BY <2>4, <3>1 DEF Relock
  <2>5. ASSUME NEW p \in [Tasks -> Places], UpFrom(p)
        PROVE /\ count' \in Nat /\ wait_list' \in Seq(Tasks)
              /\ waiter_up' \subseteq Tasks /\ pc' \in [Tasks -> Places]
    BY <2>5 DEF UpFrom
  <2>6. ASSUME NEW t \in Tasks, Up(t) PROVE TypeOK'
    BY <2>5, <2>6 DEF Up
  <2>7. CASE UpByOther
    BY <2>5, <2>7 DEF UpByOther
  <2>8. ASSUME NEW t \in Tasks, NEW s \in Signals, Signal(t, s) PROVE TypeOK'
    BY <2>8 DEF Signal, WakeIf
  <2>9. ASSUME NEW t \in Tasks, TimerFires(t) \/ SpuriousWake(t) \/ Retry(t)
        PROVE TypeOK'
    BY <2>9 DEF TimerFires, SpuriousWake, Retry, WakeIf
  <2>10. CASE UNCHANGED vars
    BY <2>10 DEF vars
  <2> QED
    BY <2>1, <2>2, <2>3, <2>4, <2>6, <2>7, <2>8, <2>9, <2>10
    DEF Next, Down, DownInterruptible, DownKillable, DownTimeout,
        MaxScheduleTimeout
<1> QED BY <1>1, <1>2, PTL DEF Spec

-----------------------------------------------------------------------------
(* Each part of the invariant needs the others: a unit can only be granted *)
(* to a task that owns none because the list holds ungranted waiters only, *)
(* and that needs grants to be taken off the list in the same section.     *)
IInv == TypeOK /\ ListExact /\ GrantedIsWoken /\ NoIdleUnit /\ Conservation

LEMMA OwnersFinite == IsFiniteSet(Owners) /\ Owners \subseteq Tasks
  BY SemAssumption, FS_Subset DEF Owners

(* What up() does to the list, the grants and the places of the tasks, in  *)
(* terms of the owners p leaves: o is Owners with the caller taken out.    *)
LEMMA UpFromStep ==
  ASSUME IInv, NEW p \in [Tasks -> Places], UpFrom(p),
         \A t \in Tasks : p[t] = pc[t] \/ (pc[t] = "holding" /\ p[t] = "idle")
  PROVE  /\ ListExact' /\ GrantedIsWoken' /\ NoIdleUnit'
         /\ LET o == {t \in Tasks : p[t] = "holding" \/ t \in waiter_up}
            IN \/ Owners' = o /\ count' = count + 1
               \/ /\ count' = count
                  /\ \E h \in Tasks \ Owners : Owners' = o \cup {h}
<1> USE DEF IInv, TypeOK, Places
<1>1. CASE wait_list = <<>>
  BY <1>1 DEF UpFrom, ListExact, GrantedIsWoken, NoIdleUnit, Owners, Waiting, In
<1>2. CASE wait_list # <<>>
  <2>1. PICK h : h = Head(wait_list)
    OBVIOUS
  <2>2. /\ wait_list' = Tail(wait_list)
        /\ waiter_up' = waiter_up \cup {h}
        /\ pc' = [p EXCEPT ![h] = "woken"]
        /\ count' = count
    BY <1>2, <2>1 DEF UpFrom
  <2>3. /\ Distinct(wait_list')
        /\ h \in Tasks /\ In(h, wait_list)
        /\ \A t : In(t, wait_list') <=> In(t, wait_list) /\ t # h
    BY <1>2, <2>1, <2>2, TailQueue DEF ListExact
  <2>4. Waiting(h) /\ h \notin waiter_up
    BY <2>3 DEF ListExact
  <2>5. count = 0
    BY <1>2 DEF NoIdleUnit
  <2>6. ListExact'
    BY <2>2, <2>3, <2>4 DEF ListExact, Waiting
  <2>7. GrantedIsWoken'
    BY <2>2, <2>3, <2>4 DEF GrantedIsWoken, Waiting
  <2>8. NoIdleUnit'
    BY <2>2, <2>5 DEF NoIdleUnit
  <2>9. h \notin Owners
    BY <2>4 DEF Owners, Waiting
  <2>10. Owners' = {t \in Tasks : p[t] = "holding" \/ t \in waiter_up} \cup {h}
    BY <2>2, <2>3, <2>4 DEF Owners, Waiting
  <2> QED BY <2>2, <2>3, <2>6, <2>7, <2>8, <2>9, <2>10
<1> QED BY <1>1, <1>2

(* Every step preserves the invariant. *)
LEMMA IInvInductive == IInv /\ TypeOK' /\ [Next]_vars => IInv'
<1> SUFFICES ASSUME IInv, TypeOK', [Next]_vars PROVE IInv'
  OBVIOUS
<1> USE DEF IInv, TypeOK, Places, Modes, Signals, Leave
<1>0. ASSUME Owners' = Owners, UNCHANGED <<count, units>> PROVE Conservation'
  BY <1>0 DEF Conservation
<1>1. ASSUME NEW t \in Tasks, TakeUnit(t) PROVE IInv'
  <2>1. ListExact' /\ GrantedIsWoken' /\ NoIdleUnit'
    BY <1>1 DEF TakeUnit, ListExact, GrantedIsWoken, NoIdleUnit, Waiting
  <2>2. t \notin Owners /\ Owners' = Owners \cup {t}
    BY <1>1 DEF TakeUnit, Owners, GrantedIsWoken
  <2>3. Cardinality(Owners') = Cardinality(Owners) + 1
    BY <2>2, OwnersFinite, FS_AddElement
  <2>4. Conservation'
    BY <1>1, <2>3, OwnersFinite, FS_CardinalityType DEF TakeUnit, Conservation
  <2> QED BY <2>1, <2>4
<1>2. ASSUME NEW t \in Tasks, NEW m \in Modes, NEW timeout \in 0..1,
             DownContended(t, m, timeout)
      PROVE IInv'
  <2> USE DEF DownContended
  <2>1. NoIdleUnit' /\ GrantedIsWoken'
    BY <1>2 DEF NoIdleUnit, GrantedIsWoken
  <2>2. Owners' = Owners
    BY <1>2 DEF Owners, GrantedIsWoken
  <2>3. ListExact'
    <3>1. ~In(t, wait_list)
      BY <1>2 DEF ListExact, Waiting
    <3>2. CASE UNCHANGED wait_list /\ pc' = [pc EXCEPT ![t] = "failed"]
      BY <1>2, <3>1, <3>2 DEF ListExact, Waiting
    <3>3. CASE wait_list' = Append(wait_list, t) /\ pc' = [pc EXCEPT ![t] = "asleep"]
      <4>1. /\ Distinct(wait_list')
            /\ \A u : In(u, wait_list') <=> In(u, wait_list) \/ u = t
        BY <3>1, <3>3, AppendQueue DEF ListExact
      <4> QED BY <1>2, <3>3, <4>1 DEF ListExact, Waiting, GrantedIsWoken
    <3> QED BY <1>2, <3>2, <3>3
  <2>4. Conservation'
    BY <1>0, <1>2, <2>2
  <2> QED BY <2>1, <2>3, <2>4
<1>3. ASSUME NEW t \in Tasks, DownTrylock(t) PROVE IInv'
  <2>1. CASE TakeUnit(t)
    BY <1>1, <2>1
  <2>2. CASE ~TakeUnit(t)
    <3>1. Owners' = Owners
      BY <1>3, <2>2 DEF DownTrylock, Owners, GrantedIsWoken
    <3>2. ListExact' /\ GrantedIsWoken' /\ NoIdleUnit'
      BY <1>3, <2>2
      DEF DownTrylock, ListExact, GrantedIsWoken, NoIdleUnit, Waiting
    <3>3. Conservation'
      BY <1>0, <1>3, <2>2, <3>1 DEF DownTrylock
    <3> QED BY <3>2, <3>3
  <2> QED BY <2>1, <2>2
<1>4. ASSUME NEW t \in Tasks, Relock(t) PROVE IInv'
  <2>1. CASE t \in waiter_up
    <3>1. Owners' = Owners
      BY <1>4, <2>1 DEF Relock, Owners
    <3>2. ListExact' /\ GrantedIsWoken' /\ NoIdleUnit'
      BY <1>4, <2>1 DEF Relock, ListExact, GrantedIsWoken, NoIdleUnit, Waiting
    <3> QED BY <1>0, <1>4, <3>1, <3>2 DEF Relock
  <2>2. CASE t \notin waiter_up /\ pc' = [pc EXCEPT ![t] = "failed"] /\ ListDel(t)
    <3>1. PICK i \in Positions(wait_list) :
            wait_list[i] = t /\ wait_list' = Without(wait_list, i)
      BY <2>2 DEF ListDel
    <3>2. /\ Distinct(wait_list')
          /\ \A u : In(u, wait_list') <=> In(u, wait_list) /\ u # t
      BY <3>1, DelQueue DEF ListExact
    <3>3. UNCHANGED <<count, waiter_up, units>>
      BY <1>4, <2>2 DEF Relock
    <3>4. ListExact'
      BY <2>2, <3>2, <3>3 DEF ListExact, Waiting
    <3>5. wait_list # <<>>
      BY <3>1 DEF Positions
    <3>6. Owners' = Owners
      BY <1>4, <2>2, <3>3 DEF Owners, Relock
    <3>7. GrantedIsWoken' /\ NoIdleUnit'
      BY <2>2, <3>3, <3>5 DEF GrantedIsWoken, NoIdleUnit
    <3> QED BY <1>0, <3>3, <3>4, <3>6, <3>7
  <2>3. CASE /\ t \notin waiter_up
             /\ pc' = [pc EXCEPT ![t] = "asleep"] /\ UNCHANGED <<wait_list, waiter_up>>
    <3>1. Owners' = Owners
      BY <1>4, <2>3 DEF Relock, Owners
    <3>2. ListExact' /\ GrantedIsWoken' /\ NoIdleUnit'
      BY <1>4, <2>3 DEF Relock, ListExact, GrantedIsWoken, NoIdleUnit, Waiting
    <3> QED BY <1>0, <1>4, <3>1, <3>2 DEF Relock
  <2> QED BY <1>4, <2>1, <2>2, <2>3 DEF Relock
<1>5. ASSUME NEW t \in Tasks, Up(t) PROVE IInv'
  <2> DEFINE p == [pc EXCEPT ![t] = "idle"]
             o == {u \in Tasks : p[u] = "holding" \/ u \in waiter_up}
  <2>1. /\ ListExact' /\ GrantedIsWoken' /\ NoIdleUnit'
        /\ \/ Owners' = o /\ count' = count + 1
           \/ /\ count' = count
              /\ \E h \in Tasks \ Owners : Owners' = o \cup {h}
    <3>1. /\ p \in [Tasks -> Places] /\ UpFrom(p)
          /\ \A u \in Tasks : p[u] = pc[u] \/ (pc[u] = "holding" /\ p[u] = "idle")
      BY <1>5 DEF Up
    <3> HIDE DEF p
    <3> QED BY <3>1, UpFromStep
  <2>2. t \in Owners /\ o = Owners \ {t}
    BY <1>5 DEF Up, Owners, GrantedIsWoken
  <2> HIDE DEF o
  <2>3. /\ IsFiniteSet(o) /\ Cardinality(o) = Cardinality(Owners) - 1
        /\ Cardinality(Owners) \in Nat /\ Cardinality(o) \in Nat
    BY <2>2, OwnersFinite, FS_RemoveElement, FS_CardinalityType
  <2>4. ASSUME NEW h \in Tasks \ Owners
        PROVE  Cardinality(o \cup {h}) = Cardinality(o) + 1
    BY <2>2, <2>3, FS_AddElement
  <2>5. units' = units
    BY <1>5 DEF Up
  <2>6. Conservation'
    <3>1. CASE Owners' = o /\ count' = count + 1
      BY <2>3, <2>5, <3>1 DEF Conservation
    <3>2. CASE count' = count /\ \E h \in Tasks \ Owners : Owners' = o \cup {h}
      <4>1. Cardinality(Owners') = Cardinality(o) + 1
        BY <2>4, <3>2
      <4> QED BY <2>3, <2>5, <3>2, <4>1 DEF Conservation
    <3> QED BY <2>1, <3>1, <3>2
  <2> QED BY <2>1, <2>6
<1>6. ASSUME UpByOther PROVE IInv'
  <2>0. Owners = {u \in Tasks : pc[u] = "holding" \/ u \in waiter_up}
    BY DEF Owners
  <2>1. /\ ListExact' /\ GrantedIsWoken' /\ NoIdleUnit'
        /\ \/ Owners' = Owners /\ count' = count + 1
           \/ /\ count' = count
              /\ \E h \in Tasks \ Owners : Owners' = Owners \cup {h}
    BY <1>6, <2>0, UpFromStep DEF UpByOther
  <2>2. ASSUME NEW h \in Tasks \ Owners
        PROVE  Cardinality(Owners \cup {h}) = Cardinality(Owners) + 1
    BY OwnersFinite, FS_AddElement
  <2>3. /\ units' = units + 1
        /\ Cardinality(Owners) \in Nat /\ count \in Nat
        /\ count + Cardinality(Owners) = units
    BY <1>6, OwnersFinite, FS_CardinalityType DEF UpByOther, Conservation
  <2>4. Conservation'
    <3> HIDE DEF IInv, TypeOK
    <3>1. CASE Owners' = Owners /\ count' = count + 1
      <4>1. Cardinality(Owners') = Cardinality(Owners)
        BY <3>1
      <4>2. count' + Cardinality(Owners') = units'
        BY <2>3, <3>1, <4>1
      <4> QED BY <4>2 DEF Conservation
    <3>2. CASE count' = count /\ \E h \in Tasks \ Owners : Owners' = Owners \cup {h}
      <4>1. Cardinality(Owners') = Cardinality(Owners) + 1
        BY <2>2, <3>2
      <4>2. count' + Cardinality(Owners') = units'
        BY <2>3, <3>2, <4>1
      <4> QED BY <4>2 DEF Conservation
    <3> QED BY <2>1, <3>1, <3>2
  <2> QED BY <2>1, <2>4
<1>7. ASSUME NEW t \in Tasks, NEW s \in Signals,
             Signal(t, s) \/ TimerFires(t) \/ SpuriousWake(t) \/ Retry(t)
      PROVE IInv'
  <2> USE DEF Signal, TimerFires, SpuriousWake, Retry, WakeIf
  <2>1. UNCHANGED <<count, wait_list, waiter_up, units>>
    BY <1>7
  <2>2. \/ pc' = pc
        \/ pc[t] = "asleep" /\ pc' = [pc EXCEPT ![t] = "woken"]
        \/ pc[t] = "failed" /\ pc' = [pc EXCEPT ![t] = "idle"]
    BY <1>7
  <2>3. Owners' = Owners
    BY <2>1, <2>2 DEF Owners
  <2>4. ListExact' /\ GrantedIsWoken' /\ NoIdleUnit'
    BY <2>1, <2>2 DEF ListExact, GrantedIsWoken, NoIdleUnit, Waiting
  <2> QED BY <1>0, <2>1, <2>3, <2>4
<1>8. CASE UNCHANGED vars
  BY <1>8 DEF vars, ListExact, GrantedIsWoken, NoIdleUnit, Conservation, Owners,
              Waiting
<1> QED
  BY <1>1, <1>2, <1>3, <1>4, <1>5, <1>6, <1>7, <1>8
  DEF Next, Down, DownInterruptible, DownKillable, DownTimeout,
      MaxScheduleTimeout

LEMMA InitIInv == Init => IInv
<1> SUFFICES ASSUME Init PROVE IInv
  OBVIOUS
<1>1. TypeOK /\ ListExact /\ GrantedIsWoken /\ NoIdleUnit
  BY SemAssumption
  DEF Init, TypeOK, Places, Modes, Signals, ListExact, GrantedIsWoken, NoIdleUnit,
      Distinct, In, Positions, Waiting
<1>2. Owners = {}
  BY DEF Init, Owners
<1>3. Conservation
  BY <1>2, FS_EmptySet, SemAssumption DEF Init, Conservation
<1> QED BY <1>1, <1>3 DEF IInv

(* The safety of the semaphore for any number of tasks: no unit is lost or *)
(* invented, none stays free while a task waits, list_del() only meets     *)
(* entries that are on the list, and a granted waiter is runnable.         *)
THEOREM SemaphoreSafe ==
  Spec => [](Conservation /\ NoIdleUnit /\ ListExact /\ GrantedIsWoken)
<1>1. IInv => Conservation /\ NoIdleUnit /\ ListExact /\ GrantedIsWoken
  BY DEF IInv
<1> QED BY <1>1, InitIInv, IInvInductive, TypeCorrect, PTL DEF Spec

-----------------------------------------------------------------------------
(* Every step of the semaphore is a step of the abstract one, or moves no  *)
(* unit.                                                                   *)
LEMMA StepRefines ==
  ASSUME IInv, [Next]_vars
  PROVE  [Abstract!Next]_(Abstract!vars)
<1> USE DEF IInv, TypeOK, Places, Leave, Abstract!vars
<1>1. ASSUME NEW t \in Tasks, TakeUnit(t) PROVE Abstract!Acquire(t)
  BY <1>1 DEF TakeUnit, Owners, GrantedIsWoken, Abstract!Acquire
<1>2. ASSUME NEW t \in Tasks, NEW m, NEW timeout, DownContended(t, m, timeout)
      PROVE  UNCHANGED <<count, Owners>>
  BY <1>2 DEF DownContended, Owners
<1>3. ASSUME NEW t \in Tasks, DownTrylock(t)
      PROVE  Abstract!Acquire(t) \/ UNCHANGED <<count, Owners>>
  BY <1>1, <1>3 DEF DownTrylock, Owners
<1>4. ASSUME NEW t \in Tasks, Relock(t) PROVE UNCHANGED <<count, Owners>>
  BY <1>4 DEF Relock, Owners
<1>5. ASSUME NEW t \in Tasks, Up(t)
      PROVE  Abstract!Release(t) \/ \E u \in Tasks : Abstract!Handoff(t, u)
  <2>1. PICK p : p = [pc EXCEPT ![t] = "idle"]
    OBVIOUS
  <2>2. /\ p \in [Tasks -> Places] /\ UpFrom(p)
        /\ \A u \in Tasks : p[u] = pc[u] \/ (pc[u] = "holding" /\ p[u] = "idle")
    BY <1>5, <2>1 DEF Up
  <2>3. PICK o : o = {u \in Tasks : p[u] = "holding" \/ u \in waiter_up}
    OBVIOUS
  <2>4. \/ Owners' = o /\ count' = count + 1
        \/ /\ count' = count
           /\ \E h \in Tasks \ Owners : Owners' = o \cup {h}
    BY <2>2, <2>3, UpFromStep
  <2>5. t \in Owners /\ o = Owners \ {t}
    BY <1>5, <2>1, <2>3 DEF Up, Owners, GrantedIsWoken
  <2> QED BY <2>4, <2>5 DEF Abstract!Release, Abstract!Handoff
<1>6. ASSUME UpByOther
      PROVE  Abstract!Post \/ \E u \in Tasks : Abstract!PostTo(u)
  <2>1. Owners = {u \in Tasks : pc[u] = "holding" \/ u \in waiter_up}
    BY DEF Owners
  <2>2. \/ Owners' = Owners /\ count' = count + 1
        \/ /\ count' = count
           /\ \E h \in Tasks \ Owners : Owners' = Owners \cup {h}
    BY <1>6, <2>1, UpFromStep DEF UpByOther
  <2> QED BY <2>2 DEF Abstract!Post, Abstract!PostTo
<1>7. ASSUME NEW t \in Tasks, NEW s,
             Signal(t, s) \/ TimerFires(t) \/ SpuriousWake(t) \/ Retry(t)
      PROVE  UNCHANGED <<count, Owners>>
  BY <1>7 DEF Signal, TimerFires, SpuriousWake, Retry, WakeIf, Owners
<1>8. CASE UNCHANGED vars
  BY <1>8 DEF vars, Owners
<1> QED
  BY <1>1, <1>2, <1>3, <1>4, <1>5, <1>6, <1>7, <1>8
  DEF Next, Down, DownInterruptible, DownKillable, DownTimeout, Abstract!Next

(* kernel/semaphore.c implements a counting semaphore: whatever the        *)
(* waiters go through, its steps only move units between the free pool and *)
(* the tasks, one at a time.                                               *)
THEOREM SemaphoreRefines == Spec => ImplementsCountingSem
<1>1. Init => Abstract!Init
  BY DEF Init, Abstract!Init, Owners
<1> QED
  BY <1>1, InitIInv, IInvInductive, StepRefines, TypeCorrect, PTL
  DEF Spec, ImplementsCountingSem, Abstract!Spec

=============================================================================
