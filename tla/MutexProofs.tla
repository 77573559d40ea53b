---------------------------- MODULE MutexProofs ----------------------------
(***************************************************************************)
(* Proofs about Mutex, for any finite set of tasks.                        *)
(***************************************************************************)
EXTENDS Mutex, WaitQueueTheorems, FiniteSetTheorems, TLAPS

(* Until its section ends, a waiter that got the lock leaves count         *)
(* negative: fast paths can only decrement it.                             *)
DoneNegative ==
  \A t \in Tasks : pc[t] \in {"done", "setcount"} => count < 0

(* The invariant.  Mutual exclusion stands on its own feet (with the       *)
(* types); the list needs the sections under wait_lock to exclude each     *)
(* other, and the wake-up argument needs all of it.                        *)
IInv ==
  /\ TypeOK /\ MutualExclusion /\ OwnerExact /\ ListExact
  /\ DoneNegative /\ NoLostWakeup

LEMMA InitIInv == Init => IInv
  BY MutexAssumption
  DEF Init, IInv, TypeOK, Places, Modes, Signals, MutualExclusion, HasLock,
      OwnerExact, ListExact, Distinct, In, Positions, DoneNegative, NoLostWakeup

(* Taking the lock by a fast path, a trylock or a spin. *)
LEMMA TakeStep ==
  ASSUME IInv, NEW t \in Tasks, pc[t] \in {"idle", "try", "trynull"},
         count = 1, count' = 0, Goto(t, "setowner"),
         mode' \in [Tasks -> Modes],
         UNCHANGED <<owner, wait_lock, wait_list, sig>>
  PROVE  IInv'
<1> USE DEF IInv, TypeOK, Places, Goto
<1>1. HasLock = {}
  BY DEF MutualExclusion
<1>2. TypeOK'
  <2>1. pc' \in [Tasks -> Places]
    OBVIOUS
  <2> HIDE DEF Places, Goto
  <2> QED BY <2>1
<1>3. HasLock' = {t}
  BY <1>1 DEF HasLock
<1>4. MutualExclusion'
  BY <1>3 DEF MutualExclusion
<1>5. OwnerExact' /\ ListExact'
  BY DEF OwnerExact, ListExact
<1>6. DoneNegative'
  BY <1>1 DEF DoneNegative, HasLock
<1>7. NoLostWakeup'
  BY <1>1 DEF NoLostWakeup, HasLock, ListExact, In, Positions
<1> QED BY <1>2, <1>4, <1>5, <1>6, <1>7

(* A step of t outside the sections that does not take the lock, with      *)
(* count no higher than it was.                                            *)
LEMMA SpinStep ==
  ASSUME IInv, NEW t \in Tasks,
         pc[t] \in {"idle", "spin", "spinowner", "try", "trynull", "failed"},
         NEW q \in {"idle", "spin", "spinowner", "try", "trynull", "queue"},
         Goto(t, q), count' \in Int,
         count' = count \/ (count # 1 /\ count' = count - 1),
         mode' \in [Tasks -> Modes], sig' \in [Tasks -> Signals],
         UNCHANGED <<owner, wait_lock, wait_list>>
  PROVE  IInv'
<1> USE DEF IInv, TypeOK, Places, Goto
<1>1. TypeOK'
  OBVIOUS
<1>2. HasLock' = HasLock
  BY DEF HasLock
<1>3. MutualExclusion'
  BY <1>2 DEF MutualExclusion
<1>4. OwnerExact' /\ ListExact'
  BY DEF OwnerExact, ListExact
<1>5. DoneNegative'
  BY DEF DoneNegative
<1>6. NoLostWakeup'
  BY <1>2 DEF NoLostWakeup, ListExact, In, Positions
<1> QED BY <1>1, <1>3, <1>4, <1>5, <1>6

LEMMA SetOwnerStep == ASSUME IInv, NEW t \in Tasks, SetOwner(t) PROVE IInv'
<1> USE DEF IInv, TypeOK, Places, Goto, SetOwner
<1>1. TypeOK' /\ HasLock' = HasLock
  BY DEF HasLock
<1>2. MutualExclusion'
  BY <1>1 DEF MutualExclusion
<1>3. \A u \in Tasks : pc[u] \notin {"setcount", "holding"}
  BY DEF MutualExclusion, HasLock
<1>4. OwnerExact' /\ ListExact'
  BY <1>3, MutexAssumption DEF OwnerExact, ListExact
<1>5. DoneNegative' /\ NoLostWakeup'
  BY <1>1 DEF DoneNegative, NoLostWakeup, ListExact, In, Positions
<1> QED BY <1>1, <1>2, <1>4, <1>5

(* The section that queues the caller. *)
LEMMA QueueStep == ASSUME IInv, NEW t \in Tasks, Queue(t) PROVE IInv'
<1> USE DEF IInv, TypeOK, Places, Goto, Queue
<1>1. ~In(t, wait_list)
  BY DEF ListExact
<1>2. /\ wait_list' \in Seq(Tasks) /\ Distinct(wait_list')
      /\ \A u : In(u, wait_list') <=> In(u, wait_list) \/ u = t
  BY <1>1, AppendQueue DEF ListExact
<1>3. TypeOK'
  BY <1>2
<1>4. \A u \in Tasks : pc[u] \notin {"xchg", "done", "setcount", "wake"}
  BY MutexAssumption DEF ListExact
<1>5. ListExact'
  BY <1>2, <1>4, MutexAssumption DEF ListExact
<1>6. MutualExclusion'
  <2>1. CASE count = 1
    <3>1. HasLock = {} /\ HasLock' = {t}
      BY <2>1 DEF MutualExclusion, HasLock
    <3> QED BY <3>1 DEF MutualExclusion
  <2>2. CASE count # 1
    <3>1. HasLock' = HasLock /\ HasLock # {}
      BY <2>2 DEF MutualExclusion, HasLock
    <3> QED BY <3>1 DEF MutualExclusion
  <2> QED BY <2>1, <2>2
<1>7. OwnerExact' /\ DoneNegative'
  BY DEF OwnerExact, DoneNegative
<1>8. NoLostWakeup'
  <2>1. In(t, wait_list') /\ pc'[t] # "asleep"
    BY <1>2
  <2> QED BY <2>1 DEF NoLostWakeup, In
<1> QED BY <1>3, <1>5, <1>6, <1>7, <1>8

(* The wait loop. *)
LEMMA WaitLoopStep == ASSUME IInv, NEW t \in Tasks, WaitLoop(t) PROVE IInv'
<1> USE DEF IInv, TypeOK, Places, Goto
<1>0. /\ In(t, wait_list) /\ t \notin HasLock
      /\ pc[t] \in {"xchg", "woken"}
      /\ \A u \in Tasks \ {t} :
           pc[u] \notin {"xchg", "done", "setcount", "wake"}
      /\ count' = -1 /\ UNCHANGED <<owner, mode, sig>>
  BY MutexAssumption DEF WaitLoop, ListExact, HasLock
<1>1. CASE count = 1
  <2>1. /\ wait_lock' = t /\ pc' = [pc EXCEPT ![t] = "done"] /\ UNCHANGED wait_list
    BY <1>1 DEF WaitLoop
  <2>2. TypeOK'
    BY <1>0, <2>1
  <2>3. HasLock = {} /\ HasLock' = {t}
    BY <1>1, <2>1 DEF MutualExclusion, HasLock
  <2>4. MutualExclusion'
    BY <1>0, <2>3 DEF MutualExclusion
  <2>5. OwnerExact' /\ DoneNegative'
    BY <1>0, <2>1 DEF OwnerExact, DoneNegative
  <2>6. ListExact'
    BY <1>0, <2>1, MutexAssumption DEF ListExact
  <2>7. NoLostWakeup'
    BY <1>0, <2>1 DEF NoLostWakeup, In
  <2> QED BY <2>2, <2>4, <2>5, <2>6, <2>7
<1>2. ASSUME count # 1, wait_lock' = NULL,
             NEW q \in {"failed", "asleep"}, pc' = [pc EXCEPT ![t] = q],
             wait_list' \in Seq(Tasks), Distinct(wait_list'),
             \A u : In(u, wait_list') <=>
                      In(u, wait_list) /\ (q = "asleep" \/ u # t)
      PROVE  IInv'
  <2>1. TypeOK'
    BY <1>0, <1>2
  <2>2. HasLock' = HasLock /\ HasLock # {}
    BY <1>0, <1>2 DEF MutualExclusion, HasLock
  <2>3. MutualExclusion'
    BY <1>0, <2>2 DEF MutualExclusion
  <2>4. OwnerExact' /\ DoneNegative'
    BY <1>0, <1>2 DEF OwnerExact, DoneNegative
  <2>5. ListExact'
    BY <1>0, <1>2, MutexAssumption DEF ListExact
  <2>6. NoLostWakeup'
    <3>1. PICK h \in HasLock : TRUE
      BY <2>2
    <3>2. h \in Tasks /\ h \in HasLock' /\ count' < 0
      BY <1>0, <2>2, <3>1 DEF HasLock
    <3> QED BY <3>2 DEF NoLostWakeup
  <2> QED BY <2>1, <2>3, <2>4, <2>5, <2>6
<1>3. CASE count # 1 /\ pc' = [pc EXCEPT ![t] = "failed"] /\ RemoveWaiter(t)
           /\ wait_lock' = NULL
  <2>1. PICK i \in Positions(wait_list) :
          wait_list[i] = t /\ wait_list' = Without(wait_list, i)
    BY <1>3 DEF RemoveWaiter
  <2>2. /\ wait_list' \in Seq(Tasks) /\ Distinct(wait_list')
        /\ \A u : In(u, wait_list') <=> In(u, wait_list) /\ u # t
    BY <2>1, DelQueue DEF ListExact
  <2> QED BY <1>2, <1>3, <2>2
<1>4. CASE count # 1 /\ pc' = [pc EXCEPT ![t] = "asleep"] /\ UNCHANGED wait_list
           /\ wait_lock' = NULL
  BY <1>2, <1>4 DEF ListExact
<1> QED BY <1>1, <1>3, <1>4 DEF WaitLoop

LEMMA DoneStep == ASSUME IInv, NEW t \in Tasks, Done(t) PROVE IInv'
<1> USE DEF IInv, TypeOK, Places, Goto, Done
<1>1. PICK i \in Positions(wait_list) :
        wait_list[i] = t /\ wait_list' = Without(wait_list, i)
  BY DEF RemoveWaiter
<1>2. /\ wait_list' \in Seq(Tasks) /\ Distinct(wait_list')
      /\ \A u : In(u, wait_list') <=> In(u, wait_list) /\ u # t
  BY <1>1, DelQueue DEF ListExact
<1>3. TypeOK'
  BY <1>2
<1>4. HasLock' = HasLock /\ t \in HasLock'
  BY DEF HasLock
<1>5. MutualExclusion'
  BY <1>4 DEF MutualExclusion
<1>6. \A u \in Tasks : pc[u] \notin {"setcount", "holding"}
  BY DEF MutualExclusion, HasLock
<1>7. OwnerExact'
  BY <1>6, MutexAssumption DEF OwnerExact
<1>8. ListExact'
  BY <1>2 DEF ListExact
<1>9. DoneNegative'
  BY DEF DoneNegative
<1>10. NoLostWakeup'
  BY <1>4 DEF NoLostWakeup, DoneNegative
<1> QED BY <1>3, <1>5, <1>7, <1>8, <1>9, <1>10

LEMMA SetCountStep == ASSUME IInv, NEW t \in Tasks, SetCount(t) PROVE IInv'
<1> USE DEF IInv, TypeOK, Places, Goto, SetCount
<1>1. TypeOK'
  OBVIOUS
<1>2. HasLock' = HasLock /\ t \in HasLock /\ count < 0
  BY DEF HasLock, DoneNegative
<1>3. MutualExclusion'
  BY <1>2 DEF MutualExclusion
<1>4. OwnerExact'
  BY DEF OwnerExact
<1>5. \A u \in Tasks : u # t => pc[u] \notin {"done", "setcount"}
  BY <1>2 DEF MutualExclusion, HasLock
<1>6. wait_lock = t
  BY DEF ListExact
<1>7. ListExact'
  BY <1>6, MutexAssumption DEF ListExact
<1>8. DoneNegative'
  BY <1>5 DEF DoneNegative
<1>9. NoLostWakeup'
  BY <1>2 DEF NoLostWakeup
<1> QED BY <1>1, <1>3, <1>4, <1>7, <1>8, <1>9

-----------------------------------------------------------------------------
LEMMA UnlockStep == ASSUME IInv, NEW t \in Tasks, Unlock(t) PROVE IInv'
<1> USE DEF IInv, TypeOK, Places, Goto, Unlock
<1>1. TypeOK' /\ HasLock' = HasLock
  BY DEF HasLock
<1>2. MutualExclusion' /\ DoneNegative'
  BY <1>1 DEF MutualExclusion, DoneNegative
<1>3. \A u \in Tasks : u # t => pc[u] \notin {"setcount", "holding"}
  BY DEF MutualExclusion, HasLock
<1>4. OwnerExact' /\ ListExact'
  BY <1>3, MutexAssumption DEF OwnerExact, ListExact
<1>5. NoLostWakeup'
  BY <1>1 DEF NoLostWakeup, ListExact, In, Positions
<1> QED BY <1>1, <1>2, <1>4, <1>5

LEMMA FastpathUnlockStep ==
  ASSUME IInv, NEW t \in Tasks, FastpathUnlock(t) PROVE IInv'
<1> USE DEF IInv, TypeOK, Places, Goto, FastpathUnlock
<1>0. HasLock = {t}
  BY DEF MutualExclusion, HasLock
<1>1. TypeOK'
  OBVIOUS
<1>2. OwnerExact' /\ ListExact'
  BY DEF OwnerExact, ListExact
<1>3. \A u \in Tasks : pc[u] \notin {"done", "setcount"}
  BY <1>0 DEF HasLock
<1>4. DoneNegative'
  BY <1>3 DEF DoneNegative
<1>5. CASE count = 0 /\ count' = 1 /\ pc' = [pc EXCEPT ![t] = "idle"]
  <2>1. HasLock' = {}
    BY <1>0, <1>5 DEF HasLock
  <2>2. MutualExclusion'
    BY <1>5, <2>1 DEF MutualExclusion
  <2>3. NoLostWakeup'
    BY <1>0, <1>5 DEF NoLostWakeup, HasLock, ListExact, In, Positions
  <2> QED BY <1>1, <1>2, <1>4, <2>2, <2>3
<1>6. CASE pc' = [pc EXCEPT ![t] = "unlockslow"]
           /\ (count' = count \/ (count # 0 /\ count' = count + 1))
  <2>1. HasLock' = {t}
    BY <1>0, <1>6 DEF HasLock
  <2>2. MutualExclusion'
    BY <1>0, <1>6, <2>1 DEF MutualExclusion
  <2>3. NoLostWakeup'
    BY <1>6 DEF NoLostWakeup
  <2> QED BY <1>1, <1>2, <1>4, <2>2, <2>3
<1> QED BY <1>5, <1>6

LEMMA UnlockSlowpathStep ==
  ASSUME IInv, NEW t \in Tasks, UnlockSlowpath(t) PROVE IInv'
<1> USE DEF IInv, TypeOK, Places, Goto, UnlockSlowpath
<1>0. HasLock = {t}
  BY DEF MutualExclusion, HasLock
<1>1. TypeOK' /\ HasLock' = {}
  BY <1>0 DEF HasLock
<1>2. MutualExclusion'
  BY <1>1 DEF MutualExclusion
<1>3. OwnerExact'
  BY DEF OwnerExact
<1>4. \A u \in Tasks : pc[u] \notin {"xchg", "done", "setcount", "wake"}
  BY MutexAssumption DEF ListExact
<1>5. ListExact'
  BY <1>4, MutexAssumption DEF ListExact
<1>6. DoneNegative' /\ NoLostWakeup'
  BY <1>4 DEF DoneNegative, NoLostWakeup
<1> QED BY <1>1, <1>2, <1>3, <1>5, <1>6

LEMMA WakeWaiterStep ==
  ASSUME IInv, NEW t \in Tasks, WakeWaiter(t) PROVE IInv'
<1> USE DEF IInv, TypeOK, Places, Goto, WakeWaiter
<1>1. wait_lock = t
  BY DEF ListExact
<1>2. CASE wait_list # <<>> /\ pc[Head(wait_list)] = "asleep"
  <2>1. PICK h : h = Head(wait_list)
    OBVIOUS
  <2>2. /\ h \in Tasks /\ h # t /\ pc[h] = "asleep" /\ h = wait_list[1]
        /\ 1 \in Positions(wait_list)
        /\ pc' = [pc EXCEPT ![t] = "idle", ![h] = "woken"]
    BY <1>2, <2>1 DEF Positions
  <2>3. TypeOK' /\ HasLock' = HasLock
    BY <2>2 DEF HasLock
  <2>4. MutualExclusion' /\ DoneNegative'
    BY <2>2, <2>3 DEF MutualExclusion, DoneNegative
  <2>5. OwnerExact'
    BY <2>2 DEF OwnerExact
  <2>6. ListExact'
    BY <1>1, <2>2, MutexAssumption DEF ListExact
  <2>7. NoLostWakeup'
    BY <2>2 DEF NoLostWakeup
  <2> QED BY <2>3, <2>4, <2>5, <2>6, <2>7
<1>3. CASE wait_list # <<>> => pc[Head(wait_list)] # "asleep"
  <2>1. pc' = [pc EXCEPT ![t] = "idle"]
    BY <1>3
  <2>2. TypeOK' /\ HasLock' = HasLock
    BY <2>1 DEF HasLock
  <2>3. MutualExclusion' /\ DoneNegative'
    BY <2>1, <2>2 DEF MutualExclusion, DoneNegative
  <2>4. OwnerExact'
    BY <2>1 DEF OwnerExact
  <2>5. ListExact'
    BY <1>1, <2>1, MutexAssumption DEF ListExact
  <2>6. NoLostWakeup'
    <3>1. ASSUME wait_list # <<>>
          PROVE  \E i \in Positions(wait_list) : pc'[wait_list[i]] # "asleep"
      <4>1. /\ 1 \in Positions(wait_list) /\ Head(wait_list) = wait_list[1]
            /\ wait_list[1] \in Tasks
        BY <3>1 DEF Positions
      <4> QED BY <1>3, <2>1, <3>1, <4>1
    <3> QED BY <3>1 DEF NoLostWakeup
  <2> QED BY <2>2, <2>3, <2>4, <2>5, <2>6
<1> QED BY <1>2, <1>3

(* Signals and stray wake-ups only make sleepers runnable. *)
LEMMA WakeStep ==
  ASSUME IInv, NEW t \in Tasks,
         pc' = pc \/ (pc[t] = "asleep" /\ pc' = [pc EXCEPT ![t] = "woken"]),
         sig' \in [Tasks -> Signals],
         UNCHANGED <<count, owner, wait_lock, wait_list, mode>>
  PROVE  IInv'
<1> USE DEF IInv, TypeOK, Places
<1>1. TypeOK' /\ HasLock' = HasLock
  BY DEF HasLock
<1>2. MutualExclusion' /\ DoneNegative' /\ OwnerExact' /\ ListExact'
  BY <1>1 DEF MutualExclusion, DoneNegative, OwnerExact, ListExact
<1>3. NoLostWakeup'
  BY <1>1 DEF NoLostWakeup, Positions
<1> QED BY <1>1, <1>2, <1>3

(* What a task may call is a mode. *)
LEMMA ModesOfType == \A t \in Tasks : ModesOf(t) \subseteq Modes
  BY DEF ModesOf, Modes

LEMMA IInvInductive == IInv /\ [Next]_vars => IInv'
<1> SUFFICES ASSUME IInv, [Next]_vars PROVE IInv'
  OBVIOUS
<1>0. TypeOK
  BY DEF IInv
<1>1. ASSUME NEW t \in Tasks, NEW m \in Modes, FastpathLock(t, m) PROVE IInv'
  <2>1. /\ mode' \in [Tasks -> Modes] /\ sig' \in [Tasks -> Signals]
        /\ pc[t] = "idle" /\ count \in Int /\ count - 1 \in Int
        /\ UNCHANGED <<owner, wait_lock, wait_list, sig>>
    BY <1>0, <1>1 DEF TypeOK, FastpathLock
  <2>2. CASE count = 1 /\ count' = 0 /\ Goto(t, "setowner")
    BY <2>1, <2>2, TakeStep
  <2>3. CASE Goto(t, "spin") /\ (count' = count \/ (count # 1 /\ count' = count - 1))
    BY <2>1, <2>3, SpinStep
  <2> QED BY <1>1, <2>2, <2>3 DEF FastpathLock
<1>2. ASSUME NEW t \in Tasks, Trylock(t) PROVE IInv'
  BY <1>0, <1>2, TakeStep DEF Trylock, TypeOK
<1>3. ASSUME NEW t \in Tasks, ReadOwner(t) \/ SpinOnOwner(t) PROVE IInv'
  <2>1. /\ count' = count /\ count' \in Int
        /\ mode' \in [Tasks -> Modes] /\ sig' \in [Tasks -> Signals]
        /\ pc[t] \in {"spin", "spinowner"}
        /\ UNCHANGED <<owner, wait_lock, wait_list>>
    BY <1>0, <1>3 DEF ReadOwner, SpinOnOwner, TypeOK
  <2>2. Goto(t, "queue") \/ Goto(t, "trynull") \/ Goto(t, "try")
        \/ Goto(t, "spinowner")
    BY <1>3 DEF ReadOwner, SpinOnOwner
  <2> QED BY <2>1, <2>2, SpinStep
<1>4. ASSUME NEW t \in Tasks, Cmpxchg(t) PROVE IInv'
  <2>1. /\ mode' \in [Tasks -> Modes] /\ sig' \in [Tasks -> Signals]
        /\ pc[t] \in {"try", "trynull"} /\ count \in Int
        /\ UNCHANGED <<owner, wait_lock, wait_list, sig>>
    BY <1>0, <1>4 DEF TypeOK, Cmpxchg
  <2>2. CASE count = 1 /\ count' = 0 /\ Goto(t, "setowner")
    BY <2>1, <2>2, TakeStep
  <2>3. CASE count' = count /\ (Goto(t, "spin") \/ Goto(t, "queue"))
    BY <2>1, <2>3, SpinStep
  <2> QED BY <1>4, <2>2, <2>3 DEF Cmpxchg
<1>5. ASSUME NEW t \in Tasks, NEW s \in Signals, Signal(t, s) PROVE IInv'
  BY <1>0, <1>5, WakeStep DEF Signal, TypeOK
<1>6. ASSUME NEW t \in Tasks, SpuriousWake(t) PROVE IInv'
  BY <1>0, <1>6, WakeStep DEF SpuriousWake, TypeOK, Goto
<1>7. ASSUME NEW t \in Tasks, Return(t) PROVE IInv'
  <2>1. /\ count' = count /\ count' \in Int /\ Goto(t, "idle")
        /\ mode' \in [Tasks -> Modes] /\ sig' \in [Tasks -> Signals]
        /\ pc[t] = "failed" /\ UNCHANGED <<owner, wait_lock, wait_list>>
    BY <1>0, <1>7 DEF Return, TypeOK, Signals
  <2> QED BY <2>1, SpinStep
<1>8. CASE UNCHANGED vars
  BY <1>8 DEF vars, IInv, TypeOK, MutualExclusion, HasLock, OwnerExact, ListExact,
              DoneNegative, NoLostWakeup
<1> QED
  BY <1>1, <1>2, <1>3, <1>4, <1>5, <1>6, <1>7, <1>8, SetOwnerStep, QueueStep,
     WaitLoopStep, DoneStep, SetCountStep, UnlockStep, FastpathUnlockStep,
     UnlockSlowpathStep, WakeWaiterStep, ModesOfType
  DEF Next, Step

(* kernel/mutex.c on ARMv6 is safe for any number of tasks: at most one    *)
(* has the lock and count says so, lock->owner is never stale, wait_list   *)
(* is the set of waiters, and sleeping waiters are never forgotten.        *)
THEOREM MutexSafe ==
  Spec => [](/\ TypeOK /\ MutualExclusion /\ OwnerExact /\ ListExact
             /\ NoLostWakeup)
<1>1. IInv => /\ TypeOK /\ MutualExclusion /\ OwnerExact /\ ListExact
              /\ NoLostWakeup
  BY DEF IInv
<1> QED BY <1>1, InitIInv, IInvInductive, PTL DEF Spec

-----------------------------------------------------------------------------
(* What a step does to count and to the tasks that have not reached their  *)
(* xchg yet: a decrement always comes with a new such task.                *)
Kept == count' \in Int /\ count' >= count /\ Undecided \subseteq Undecided'
Reset == count' \in Int /\ count' >= -1

LEMMA CountStep ==
  ASSUME TypeOK, [Next]_vars
  PROVE  \/ Reset
         \/ Kept
         \/ /\ count' = count - 1
            /\ \E t \in Tasks \ Undecided : Undecided' = Undecided \cup {t}
<1> USE DEF TypeOK, Places, Goto, Undecided, Kept, Reset
<1>1. ASSUME NEW t \in Tasks, NEW m \in Modes, FastpathLock(t, m)
      PROVE  \/ Reset
             \/ Kept
             \/ /\ count' = count - 1
                /\ \E u \in Tasks \ Undecided : Undecided' = Undecided \cup {u}
  <2>1. CASE count' = 0
    BY <2>1
  <2>2. CASE count # 1 /\ count' = count - 1 /\ Goto(t, "spin")
    <3>1. t \notin Undecided /\ Undecided' = Undecided \cup {t}
      BY <1>1, <2>2 DEF FastpathLock
    <3> QED BY <2>2, <3>1
  <2>3. CASE count' = count /\ Goto(t, "spin")
    BY <1>1, <2>3 DEF FastpathLock
  <2> QED BY <1>1, <2>1, <2>2, <2>3 DEF FastpathLock
<1>2. ASSUME NEW t \in Tasks, SetOwner(t) PROVE Kept
  BY <1>2 DEF SetOwner
<1>3. ASSUME NEW t \in Tasks, ReadOwner(t) PROVE Kept
  BY <1>3 DEF ReadOwner
<1>4. ASSUME NEW t \in Tasks, SpinOnOwner(t) PROVE Kept
  BY <1>4 DEF SpinOnOwner
<1>5. ASSUME NEW t \in Tasks, Cmpxchg(t) PROVE Kept \/ Reset
  BY <1>5 DEF Cmpxchg
<1>6. ASSUME NEW t \in Tasks, Queue(t) PROVE Reset
  BY <1>6 DEF Queue
<1>7. ASSUME NEW t \in Tasks, WaitLoop(t) PROVE Reset
  BY <1>7 DEF WaitLoop
<1>8. ASSUME NEW t \in Tasks, Done(t) PROVE Kept
  BY <1>8 DEF Done
<1>9. ASSUME NEW t \in Tasks, SetCount(t) PROVE Kept \/ Reset
  BY <1>9 DEF SetCount
<1>10. ASSUME NEW t \in Tasks, Unlock(t) PROVE Kept
  BY <1>10 DEF Unlock
<1>11. ASSUME NEW t \in Tasks, FastpathUnlock(t) PROVE Kept
  BY <1>11 DEF FastpathUnlock
<1>12. ASSUME NEW t \in Tasks, UnlockSlowpath(t) PROVE Reset
  BY <1>12 DEF UnlockSlowpath
<1>13. ASSUME NEW t \in Tasks, WakeWaiter(t) PROVE Kept
  <2>1. CASE wait_list # <<>> /\ pc[Head(wait_list)] = "asleep"
    <3>1. Head(wait_list) \in Tasks
      BY <2>1
    <3> QED BY <1>13, <2>1, <3>1 DEF WakeWaiter
  <2>2. CASE wait_list # <<>> => pc[Head(wait_list)] # "asleep"
    BY <1>13, <2>2 DEF WakeWaiter
  <2> QED BY <2>1, <2>2
<1>14. ASSUME NEW t \in Tasks, Trylock(t) PROVE Reset
  BY <1>14 DEF Trylock
<1>15. ASSUME NEW t \in Tasks, SpuriousWake(t) PROVE Kept
  BY <1>15 DEF SpuriousWake
<1>16. ASSUME NEW t \in Tasks, Return(t) PROVE Kept
  BY <1>16 DEF Return
<1>17. ASSUME NEW t \in Tasks, NEW s \in Signals, Signal(t, s) PROVE Kept
  BY <1>17 DEF Signal
<1>18. ASSUME UNCHANGED vars PROVE Kept
  BY <1>18 DEF vars
<1> HIDE DEF TypeOK, Places, Goto, Undecided, Kept, Reset
<1>19. ASSUME NEW t \in Tasks, Step(t) PROVE Kept \/ Reset
  BY <1>19, <1>2, <1>3, <1>4, <1>5, <1>6, <1>7, <1>8, <1>9, <1>10, <1>11, <1>12, <1>13 DEF Step
<1>20. CASE Next
  <2>1. PICK t \in Tasks :
          \/ \E m \in Modes : FastpathLock(t, m)
          \/ Trylock(t) \/ Step(t)
          \/ \E s \in Signals \ {"none"} : Signal(t, s)
          \/ SpuriousWake(t) \/ Return(t)
    BY <1>20, ModesOfType DEF Next
  <2>2. CASE \E m \in Modes : FastpathLock(t, m)
    BY <1>1, <2>2
  <2>3. CASE ~\E m \in Modes : FastpathLock(t, m)
    <3>1. Kept \/ Reset
      BY <1>14, <1>15, <1>16, <1>17, <1>19, <2>1, <2>3
    <3> QED BY <3>1
  <2> QED BY <2>2, <2>3
<1> QED BY <1>18, <1>20

LEMMA UndecidedFinite ==
  /\ IsFiniteSet(Undecided) /\ Cardinality(Undecided) \in Nat
  /\ IsFiniteSet(Undecided') /\ Cardinality(Undecided') \in Nat
<1>1. Undecided \subseteq Tasks /\ Undecided' \subseteq Tasks
  BY DEF Undecided
<1> QED BY <1>1, MutexAssumption, FS_Subset, FS_CardinalityType

(* However many tasks fail in the fast path, and however often, count      *)
(* stays within the number of tasks below -1.                              *)
THEOREM MutexCountBounded == Spec => []CountBounded
<1>1. Init => CountBounded
  <2> SUFFICES ASSUME Init PROVE CountBounded
    OBVIOUS
  <2> QED BY UndecidedFinite DEF Init, CountBounded
<1>2. TypeOK /\ CountBounded /\ [Next]_vars => CountBounded'
  <2> SUFFICES ASSUME TypeOK, CountBounded, [Next]_vars PROVE CountBounded'
    OBVIOUS
  <2>0. count \in Int /\ count + Cardinality(Undecided) >= -1
    BY DEF TypeOK, CountBounded
  <2>1. CASE Reset
    BY <2>1, UndecidedFinite DEF CountBounded, Reset
  <2>2. CASE Kept
    <3>1. Cardinality(Undecided) <= Cardinality(Undecided')
      BY <2>2, UndecidedFinite, FS_Subset DEF Kept
    <3>2. count' + Cardinality(Undecided') >= -1
      BY <2>0, <2>2, <3>1, UndecidedFinite DEF Kept
    <3> QED BY <3>2 DEF CountBounded
  <2>3. CASE /\ count' = count - 1
             /\ \E t \in Tasks \ Undecided : Undecided' = Undecided \cup {t}
    <3>1. Cardinality(Undecided') = Cardinality(Undecided) + 1
      BY <2>3, UndecidedFinite, FS_AddElement
    <3>2. count' + Cardinality(Undecided') >= -1
      BY <2>0, <2>3, <3>1, UndecidedFinite
    <3> QED BY <3>2 DEF CountBounded
  <2> QED BY <2>1, <2>2, <2>3, CountStep
<1> QED BY <1>1, <1>2, MutexSafe, PTL DEF Spec

-----------------------------------------------------------------------------
(* Every step is a step of the abstract lock or leaves it alone. *)
LEMMA StepRefines ==
  ASSUME IInv, [Next]_vars
  PROVE  [Abstract!Next]_(Abstract!vars)
<1> USE DEF IInv, TypeOK, Places, Goto
<1>1. ASSUME NEW t \in Tasks,
             \/ Trylock(t) \/ Cmpxchg(t) \/ Queue(t)
             \/ \E m \in Modes : FastpathLock(t, m)
      PROVE  HasLock' = HasLock \/ (HasLock = {} /\ HasLock' = {t})
  BY <1>1 DEF Trylock, Cmpxchg, Queue, FastpathLock, MutualExclusion, HasLock
<1>2. ASSUME NEW t \in Tasks, WaitLoop(t)
      PROVE  HasLock' = HasLock \/ (HasLock = {} /\ HasLock' = {t})
  <2>1. CASE count = 1
    BY <1>2, <2>1 DEF WaitLoop, MutualExclusion, HasLock
  <2>2. CASE count # 1
    BY <1>2, <2>2 DEF WaitLoop, HasLock
  <2> QED BY <2>1, <2>2
<1>3. ASSUME NEW t \in Tasks,
             \/ SetOwner(t) \/ ReadOwner(t) \/ SpinOnOwner(t)
             \/ Done(t) \/ SetCount(t) \/ Unlock(t)
      PROVE  HasLock' = HasLock
  BY <1>3 DEF SetOwner, ReadOwner, SpinOnOwner, Done, SetCount, Unlock, HasLock
<1>4. ASSUME NEW t \in Tasks,
             \/ WakeWaiter(t) \/ SpuriousWake(t) \/ Return(t)
             \/ \E s \in Signals : Signal(t, s)
      PROVE  HasLock' = HasLock
  <2>1. CASE WakeWaiter(t)
    <3>1. CASE wait_list # <<>> /\ pc[Head(wait_list)] = "asleep"
      <4>1. Head(wait_list) \in Tasks
        BY <3>1
      <4> QED BY <2>1, <3>1, <4>1 DEF WakeWaiter, HasLock
    <3>2. CASE wait_list # <<>> => pc[Head(wait_list)] # "asleep"
      BY <2>1, <3>2 DEF WakeWaiter, HasLock
    <3> QED BY <3>1, <3>2
  <2>2. CASE SpuriousWake(t) \/ Return(t) \/ \E s \in Signals : Signal(t, s)
    BY <2>2 DEF SpuriousWake, Return, Signal, HasLock
  <2> QED BY <1>4, <2>1, <2>2
<1>5. ASSUME NEW t \in Tasks, FastpathUnlock(t) \/ UnlockSlowpath(t)
      PROVE  t \in HasLock /\ (HasLock' = HasLock \/ HasLock' = HasLock \ {t})
  BY <1>5 DEF FastpathUnlock, UnlockSlowpath, HasLock
<1>6. CASE UNCHANGED vars
  BY <1>6 DEF vars, HasLock, Abstract!vars
<1> HIDE DEF IInv, TypeOK, Places, Goto
<1>7. \/ HasLock' = HasLock
      \/ \E t \in Tasks : HasLock = {} /\ HasLock' = {t}
      \/ \E t \in Tasks : t \in HasLock /\ HasLock' = HasLock \ {t}
      \/ UNCHANGED vars
  BY <1>1, <1>2, <1>3, <1>4, <1>5, ModesOfType DEF Next, Step
<1>8. ASSUME NEW t \in Tasks, HasLock = {}, HasLock' = {t}
      PROVE  Abstract!Acquire
  BY <1>8 DEF Abstract!Acquire, Abstract!PassOn
<1>9. ASSUME NEW t \in Tasks, t \in HasLock, HasLock' = HasLock \ {t}
      PROVE  Abstract!ReleaseWrite(t)
  BY <1>9 DEF Abstract!ReleaseWrite, Abstract!PassOn
<1> QED BY <1>6, <1>7, <1>8, <1>9 DEF Abstract!Next, Abstract!vars

(* kernel/mutex.c implements a lock that one task at a time acquires and   *)
(* releases; the fast paths that fail, the spinning and the sleeping are   *)
(* not visible in it.                                                      *)
THEOREM MutexRefines == Spec => ImplementsLock
<1>1. Init => Abstract!Init
  BY DEF Init, Abstract!Init, HasLock
<1> QED
  BY <1>1, InitIInv, IInvInductive, StepRefines, PTL
  DEF Spec, ImplementsLock, Abstract!Spec

=============================================================================
