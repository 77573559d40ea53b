---------------------------- MODULE RwSemProofs ----------------------------
(***************************************************************************)
(* Proofs about RwSem, for any finite set of tasks.                        *)
(***************************************************************************)
EXTENDS RwSem, WaitQueueTheorems, FiniteSetTheorems, TLAPS

(* The invariant.  WriterAtHead is what makes the blind hand-over of       *)
(* __up_read correct; ActivityExact turns the tests of sem->activity into  *)
(* facts about who has the lock; ListExact says that the waiters a release *)
(* picks have no lock yet.                                                 *)
IInv ==
  /\ TypeOK /\ ListExact /\ NoLostWakeup
  /\ ActivityExact /\ Exclusion /\ WriterAtHead /\ NoIdleLock

LEMMA HoldersFinite ==
  ASSUME NEW how
  PROVE  /\ Holders(how) \subseteq Tasks /\ IsFiniteSet(Holders(how))
         /\ Cardinality(Holders(how)) \in Nat
<1>1. Holders(how) \subseteq Tasks
  BY DEF Holders
<1> QED BY <1>1, RwAssumption, FS_Subset, FS_CardinalityType

(* With sem->activity >= 0 there is no writer, with 0 there is nobody; a   *)
(* reader excludes the writers, and a writer everybody else.               *)
LEMMA WhoHolds ==
  ASSUME IInv
  PROVE  /\ activity >= 0 => Writers = {}
         /\ activity = 0 => Readers = {}
         /\ \A t \in Readers : Writers = {} /\ activity > 0
         /\ \A t \in Readers : activity = 1 => Readers = {t}
         /\ \A t \in Writers : Writers = {t} /\ Readers = {} /\ activity = -1
<1> USE DEF IInv, TypeOK
<1>1. activity >= 0 => Writers = {}
  BY DEF ActivityExact
<1>2. Cardinality(Readers) \in Nat /\ (Cardinality(Readers) = 0 <=> Readers = {})
  BY HoldersFinite, FS_EmptySet DEF Readers
<1>3. activity = 0 => Readers = {}
  BY <1>1, <1>2 DEF ActivityExact
<1>4. \A t \in Readers : Writers = {}
  BY DEF Exclusion, Abstract!Exclusion
<1>5. \A t \in Readers : activity > 0
  BY <1>2, <1>4 DEF ActivityExact
<1>6. \A t \in Readers : activity = 1 => Readers = {t}
  <2> SUFFICES ASSUME NEW t \in Readers, activity = 1 PROVE Readers = {t}
    OBVIOUS
  <2>1. Cardinality(Readers) = 1
    BY <1>4 DEF ActivityExact
  <2>2. \E x : Readers = {x}
    BY <2>1, HoldersFinite, FS_Singleton DEF Readers
  <2> QED BY <2>2
<1>7. \A t \in Writers : Writers = {t} /\ Readers = {} /\ activity = -1
  BY DEF ActivityExact, Exclusion, Abstract!Exclusion
<1> QED BY <1>1, <1>3, <1>4, <1>5, <1>6, <1>7

(* Everything but the queue: a state whose holders and whose activity are  *)
(* related as below satisfies ActivityExact and Exclusion.                 *)
LEMMA ReadersHold ==
  ASSUME Writers' = {}, activity' = Cardinality(Readers')
  PROVE  ActivityExact' /\ Exclusion'
<1>1. Cardinality(Readers') \in Nat
  <2>1. Readers' \subseteq Tasks
    BY DEF Readers, Holders
  <2> QED BY <2>1, RwAssumption, FS_Subset, FS_CardinalityType
<1> QED BY <1>1 DEF ActivityExact, Exclusion, Abstract!Exclusion

LEMMA WriterHolds ==
  ASSUME NEW u \in Tasks, Writers' = {u}, Readers' = {}, activity' = -1
  PROVE  ActivityExact' /\ Exclusion'
  BY DEF ActivityExact, Exclusion, Abstract!Exclusion

-----------------------------------------------------------------------------
LEMMA EnqueueStep ==
  ASSUME IInv, NEW t \in Tasks, NEW how \in {"read", "write"},
         pc[t] = "idle", Enqueue(t, how),
         how = "read" => ~ReadFree, how = "write" => ~WriteFree
  PROVE  IInv' /\ Readers' = Readers /\ Writers' = Writers
<1> USE DEF IInv, TypeOK, Places, States, Enqueue
<1>1. t \notin granted /\ ~In(t, wait_list)
  BY DEF NoLostWakeup, ListExact, Waiting
<1>2. /\ Distinct(wait_list')
      /\ \A u : In(u, wait_list') <=> In(u, wait_list) \/ u = t
  BY <1>1, AppendQueue DEF ListExact
<1>3. TypeOK'
  OBVIOUS
<1>4. ListExact'
  BY <1>1, <1>2 DEF ListExact, Waiting
<1>5. NoLostWakeup'
  BY <1>1 DEF NoLostWakeup, Waiting
<1>6. Readers' = Readers /\ Writers' = Writers
  BY <1>1 DEF Readers, Writers, Holders
<1>7. ActivityExact' /\ Exclusion'
  BY <1>6 DEF ActivityExact, Exclusion, Abstract!Exclusion
<1>8. NoIdleLock'
  BY DEF NoIdleLock, ReadFree, WriteFree
<1>9. WriterAtHead'
  <2>1. CASE wait_list = <<>>
    BY <2>1 DEF WriterAtHead, ReadFree
  <2>2. CASE wait_list # <<>>
    <3>1. /\ Head(wait_list') = Head(wait_list) /\ Head(wait_list) \in Tasks
          /\ In(Head(wait_list), wait_list)
      BY <2>2 DEF In, Positions
    <3> QED BY <1>1, <2>2, <3>1 DEF WriterAtHead
  <2> QED BY <2>1, <2>2
<1> QED BY <1>3, <1>4, <1>5, <1>6, <1>7, <1>8, <1>9

LEMMA TakeStep ==
  ASSUME IInv, NEW t \in Tasks, pc[t] = "idle",
         \/ ReadFree /\ Take(t, "read", activity + 1)
         \/ WriteFree /\ Take(t, "write", -1)
  PROVE  IInv' /\ Abstract!Acquire
<1> USE DEF IInv, TypeOK, Places, States, Take, ReadFree, WriteFree
<1>1. t \notin granted
  BY DEF NoLostWakeup, Waiting
<1>2. TypeOK'
  OBVIOUS
<1>3. ListExact' /\ NoLostWakeup' /\ WriterAtHead' /\ NoIdleLock'
  BY <1>1 DEF ListExact, NoLostWakeup, Waiting, WriterAtHead, NoIdleLock
<1>4. CASE ReadFree /\ Take(t, "read", activity + 1)
  <2>1. /\ Writers' = Writers /\ Writers = {}
        /\ t \notin Readers /\ Readers' = Readers \cup {t}
    BY <1>1, <1>4, WhoHolds DEF Readers, Writers, Holders
  <2>2. Cardinality(Readers') = Cardinality(Readers) + 1
    BY <2>1, HoldersFinite, FS_AddElement DEF Readers
  <2>3. activity' = Cardinality(Readers')
    BY <1>4, <2>1, <2>2 DEF ActivityExact
  <2>4. Abstract!Acquire
    <3>1. {t} \in SUBSET (Tasks \ Readers)
      BY <2>1
    <3>2. \E S \in SUBSET (Tasks \ Readers) :
            Readers' = Readers \cup S /\ Writers' = {}
      BY <2>1, <3>1
    <3> QED BY <2>1, <3>2 DEF Abstract!Acquire, Abstract!PassOn
  <2> QED BY <1>2, <1>3, <2>1, <2>3, <2>4, ReadersHold
<1>5. CASE WriteFree /\ Take(t, "write", -1)
  <2>1. /\ Readers' = Readers /\ Readers = {}
        /\ Writers' = Writers \cup {t} /\ Writers = {}
    BY <1>1, <1>5, WhoHolds DEF Readers, Writers, Holders
  <2>2. Abstract!Acquire
    BY <2>1 DEF Abstract!Acquire, Abstract!PassOn
  <2> QED BY <1>2, <1>3, <1>5, <2>1, <2>2, WriterHolds
<1> QED BY <1>4, <1>5

-----------------------------------------------------------------------------
(* The end of a release: the caller t is at place p afterwards, and the    *)
(* first n waiters get the lock.                                           *)
LEMMA GrantStep ==
  ASSUME IInv, NEW t \in Tasks, NEW p \in {"idle", "read"},
         pc[t] \in {"read", "write"}, LockFree,
         NEW n \in 1..Len(wait_list), Grant(n),
         pc' = [pc EXCEPT ![t] = p], UNCHANGED <<flags, state>>
  PROVE  /\ wait_list' \in Seq(Tasks) /\ granted' \subseteq Tasks
         /\ waking' \subseteq Tasks /\ pc' \in [Tasks -> Places]
         /\ ListExact' /\ NoLostWakeup'
         /\ wait_list' = <<>> <=> n = Len(wait_list)
         /\ wait_list' # <<>> => Head(wait_list') = wait_list[n + 1]
         /\ FirstOf(wait_list, n) \subseteq Tasks /\ t \notin FirstOf(wait_list, n)
         /\ FirstOf(wait_list, n) \cap (Readers \cup Writers) = {}
         /\ \A how \in {"read", "write"} :
              \A u : u \in Holders(how)' <=>
                       \/ u \in Holders(how) /\ u # t
                       \/ u = t /\ p = how
                       \/ u \in FirstOf(wait_list, n) /\ flags[u] = how
<1> USE DEF IInv, TypeOK, Places, States
<1>1. PICK F : F = FirstOf(wait_list, n)
  OBVIOUS
<1>2. /\ wait_list' \in Seq(Tasks) /\ Distinct(wait_list')
      /\ wait_list' = <<>> <=> n = Len(wait_list)
      /\ n < Len(wait_list) => Head(wait_list') = wait_list[n + 1]
      /\ F \subseteq Tasks
      /\ \A u : In(u, wait_list) <=> u \in F \/ In(u, wait_list')
      /\ \A u \in F : ~In(u, wait_list')
  BY <1>1, DropQueue DEF Grant, ListExact
<1>3. granted' = granted \cup F /\ waking' = F
  BY <1>1 DEF Grant
<1>4. \A u \in F : Waiting(u) /\ u \notin granted
  BY <1>2 DEF ListExact
<1>5. t \notin granted /\ t \notin F
  BY <1>4 DEF NoLostWakeup, Waiting
<1>6. ListExact'
  BY <1>2, <1>3, <1>4, <1>5 DEF ListExact, Waiting
<1>7. NoLostWakeup'
  BY <1>2, <1>3, <1>4, <1>5 DEF NoLostWakeup, Waiting, LockFree
<1>8. F \cap (Readers \cup Writers) = {}
  BY <1>2, <1>4 DEF Readers, Writers, Holders, Waiting
<1>9. ASSUME NEW how \in {"read", "write"}
      PROVE  \A u : u \in Holders(how)' <=>
           \/ u \in Holders(how) /\ u # t
           \/ u = t /\ p = how
           \/ u \in F /\ flags[u] = how
  BY <1>2, <1>3, <1>4, <1>5 DEF Holders, Waiting
<1> QED BY <1>1, <1>2, <1>3, <1>5, <1>6, <1>7, <1>8, <1>9

(* The same when nobody is woken. *)
LEMMA GrantNoneStep ==
  ASSUME IInv, NEW t \in Tasks, NEW p \in {"idle", "read"},
         pc[t] \in {"read", "write"}, GrantNone,
         pc' = [pc EXCEPT ![t] = p], UNCHANGED <<flags, state>>
  PROVE  /\ pc' \in [Tasks -> Places] /\ ListExact' /\ NoLostWakeup'
         /\ \A how \in {"read", "write"} :
              Holders(how)' = (Holders(how) \ {t})
                              \cup (IF p = how THEN {t} ELSE {})
<1> USE DEF IInv, TypeOK, Places, States, GrantNone
<1>1. t \notin granted
  BY DEF NoLostWakeup, Waiting
<1>2. ListExact' /\ NoLostWakeup'
  BY <1>1 DEF ListExact, NoLostWakeup, Waiting
<1>3. ASSUME NEW how \in {"read", "write"}
      PROVE  Holders(how)' = (Holders(how) \ {t})
                             \cup (IF p = how THEN {t} ELSE {})
  BY <1>1 DEF Holders
<1> QED BY <1>2, <1>3

(* The first waiter gets the lock as a writer. *)
LEMMA WakeWriterStep ==
  ASSUME IInv, NEW t \in Tasks, pc[t] \in {"read", "write"}, LockFree,
         Readers \cup Writers = {t},
         wait_list # <<>>, flags[Head(wait_list)] = "write",
         activity' = -1, Grant(1),
         pc' = [pc EXCEPT ![t] = "idle"], UNCHANGED <<flags, state>>
  PROVE  IInv' /\ Readers' = {} /\ \E u \in Tasks : Writers' = {u}
<1> USE DEF IInv, TypeOK, Places, States
<1>1. 1 \in 1..Len(wait_list)
  OBVIOUS
<1>2. FirstOf(wait_list, 1) = {Head(wait_list)} /\ Head(wait_list) \in Tasks
  <2>1. Head(wait_list) = wait_list[1]
    OBVIOUS
  <2> QED BY <1>1, <2>1 DEF FirstOf
<1>3. /\ wait_list' \in Seq(Tasks) /\ granted' \subseteq Tasks
      /\ waking' \subseteq Tasks /\ pc' \in [Tasks -> Places]
      /\ ListExact' /\ NoLostWakeup'
      /\ \A how \in {"read", "write"} :
           \A u : u \in Holders(how)' <=>
                    \/ u \in Holders(how) /\ u # t
                    \/ u = t /\ "idle" = how
                    \/ u \in {Head(wait_list)} /\ flags[u] = how
  <2> HIDE DEF IInv, TypeOK, Places, States
  <2> QED BY <1>1, <1>2, GrantStep
<1>4. Readers' = {} /\ Writers' = {Head(wait_list)}
  BY <1>3 DEF Readers, Writers
<1>5. ActivityExact' /\ Exclusion'
  BY <1>2, <1>4, WriterHolds
<1>6. TypeOK' /\ WriterAtHead' /\ NoIdleLock'
  BY <1>3 DEF WriterAtHead, NoIdleLock
<1> QED BY <1>2, <1>3, <1>4, <1>5, <1>6

(* The readers at the front of the queue join the k readers that are left  *)
(* when the writer t is at place p.                                        *)
LEMMA WakeReadersStep ==
  ASSUME IInv, NEW t \in Tasks, pc[t] = "write", LockFree,
         NEW p \in {"idle", "read"}, NEW k \in {0, 1},
         k = IF p = "read" THEN 1 ELSE 0,
         wait_list # <<>>, WakeReaders(k),
         pc' = [pc EXCEPT ![t] = p], UNCHANGED <<flags, state>>
  PROVE  /\ IInv' /\ Writers' = {}
         /\ \E S \in SUBSET (Tasks \ {t}) :
              Readers' = S \cup (IF p = "read" THEN {t} ELSE {})
<1> USE DEF IInv, TypeOK, Places, States
<1>1. PICK n \in 1..Len(wait_list) :
        LeadingReaders(n) /\ Grant(n) /\ activity' = k + n
  BY DEF WakeReaders
<1>2. PICK F : F = FirstOf(wait_list, n)
  OBVIOUS
<1>3. \A u \in F : flags[u] = "read"
  BY <1>1, <1>2 DEF LeadingReaders, FirstOf
<1>4. /\ wait_list' \in Seq(Tasks) /\ granted' \subseteq Tasks
      /\ waking' \subseteq Tasks /\ pc' \in [Tasks -> Places]
      /\ ListExact' /\ NoLostWakeup'
      /\ wait_list' = <<>> <=> n = Len(wait_list)
      /\ wait_list' # <<>> => Head(wait_list') = wait_list[n + 1]
      /\ F \subseteq Tasks /\ t \notin F
      /\ \A how \in {"read", "write"} :
           \A u : u \in Holders(how)' <=>
                    \/ u \in Holders(how) /\ u # t
                    \/ u = t /\ p = how
                    \/ u \in F /\ flags[u] = how
  <2>1. Grant(n) /\ pc[t] \in {"read", "write"}
    BY <1>1
  <2> HIDE DEF IInv, TypeOK, Places, States
  <2> QED BY <2>1, <1>2, GrantStep
<1>5. t \in Writers /\ Readers = {} /\ Writers = {t}
  <2>1. t \in Writers
    BY DEF Writers, Holders
  <2> QED BY <2>1, WhoHolds
<1>6. Writers' = {} /\ Readers' = F \cup (IF p = "read" THEN {t} ELSE {})
  BY <1>3, <1>4, <1>5 DEF Readers, Writers
<1>7. IsFiniteSet(F) /\ Cardinality(F) = n
  BY <1>2, FirstOfCardinality DEF ListExact
<1>8. Cardinality(Readers') = k + n
  <2>1. CASE p = "read"
    <3>1. Readers' = F \cup {t}
      BY <1>6, <2>1
    <3>2. Cardinality(Readers') = n + 1
      BY <1>4, <1>7, <3>1, FS_AddElement
    <3> QED BY <2>1, <3>2
  <2>2. CASE p = "idle"
    BY <1>6, <1>7, <2>2
  <2> QED BY <2>1, <2>2
<1>9. ActivityExact' /\ Exclusion'
  BY <1>1, <1>6, <1>8, ReadersHold
<1>10. TypeOK' /\ NoIdleLock'
  BY <1>1, <1>4 DEF NoIdleLock
<1>11. WriterAtHead'
  BY <1>1, <1>4 DEF WriterAtHead, LeadingReaders
<1>12. \E S \in SUBSET (Tasks \ {t}) :
         Readers' = S \cup (IF p = "read" THEN {t} ELSE {})
  <2>1. F \in SUBSET (Tasks \ {t})
    BY <1>4
  <2> QED BY <1>6, <2>1
<1> QED BY <1>4, <1>6, <1>9, <1>10, <1>11, <1>12

-----------------------------------------------------------------------------
LEMMA UpReadStep ==
  ASSUME IInv, NEW t \in Tasks, UpRead(t) PROVE IInv' /\ Abstract!ReleaseRead(t)
<1> USE DEF IInv, TypeOK, Places, States
<1>1. t \in Readers /\ Writers = {} /\ activity > 0
      /\ (activity = 1 => Readers = {t})
  <2>1. t \in Readers
    BY DEF Readers, Holders, UpRead
  <2> QED BY <2>1, WhoHolds
<1>2. CASE activity - 1 = 0 /\ wait_list # <<>>
  <2>1. flags[Head(wait_list)] = "write"
    BY <1>1, <1>2 DEF WriterAtHead
  <2>2. Readers \cup Writers = {t}
    BY <1>1, <1>2
  <2>3. /\ pc[t] \in {"read", "write"} /\ LockFree /\ activity' = -1 /\ Grant(1)
        /\ pc' = [pc EXCEPT ![t] = "idle"] /\ UNCHANGED <<flags, state>>
    BY <1>2 DEF UpRead, WakeOneWriter
  <2>4. IInv' /\ Readers' = {} /\ \E u \in Tasks : Writers' = {u}
    BY <1>2, <2>1, <2>2, <2>3, WakeWriterStep
  <2> QED BY <1>1, <2>2, <2>4 DEF Abstract!ReleaseRead, Abstract!PassOn
<1>3. CASE activity - 1 # 0 \/ wait_list = <<>>
  <2>1. /\ pc[t] = "read" /\ activity' = activity - 1 /\ GrantNone
        /\ pc' = [pc EXCEPT ![t] = "idle"] /\ UNCHANGED <<flags, state>>
    BY <1>3 DEF UpRead
  <2>2. /\ pc' \in [Tasks -> Places] /\ ListExact' /\ NoLostWakeup'
        /\ \A how \in {"read", "write"} : Holders(how)' = Holders(how) \ {t}
    BY <2>1, GrantNoneStep
  <2>3. Readers' = Readers \ {t} /\ Writers' = {}
    BY <1>1, <2>2 DEF Readers, Writers
  <2>4. Cardinality(Readers') = Cardinality(Readers) - 1
    BY <1>1, <2>3, HoldersFinite, FS_RemoveElement DEF Readers
  <2>5. activity' = Cardinality(Readers')
    BY <1>1, <2>1, <2>4 DEF ActivityExact
  <2>6. ActivityExact' /\ Exclusion'
    BY <2>3, <2>5, ReadersHold
  <2>7. TypeOK' /\ WriterAtHead' /\ NoIdleLock'
    BY <1>1, <1>3, <2>1, <2>2 DEF WriterAtHead, NoIdleLock, GrantNone
  <2>8. Abstract!ReleaseRead(t)
    BY <1>1, <2>3 DEF Abstract!ReleaseRead, Abstract!PassOn
  <2> QED BY <2>2, <2>6, <2>7, <2>8
<1> QED BY <1>2, <1>3

LEMMA WriterDone ==
  ASSUME IInv, NEW t \in Tasks, pc[t] = "write", LockFree,
         NEW p \in {"idle", "read"}, NEW k \in {0, 1},
         k = IF p = "read" THEN 1 ELSE 0,
         \/ wait_list = <<>> /\ activity' = k /\ GrantNone
         \/ /\ wait_list # <<>> /\ flags[Head(wait_list)] = "write" /\ k = 1
            /\ activity' = k /\ GrantNone,
         pc' = [pc EXCEPT ![t] = p], UNCHANGED <<flags, state>>
  PROVE  IInv' /\ Writers' = {} /\ Readers' = IF p = "read" THEN {t} ELSE {}
<1> USE DEF IInv, TypeOK, Places, States
<1>1. t \in Writers /\ Readers = {} /\ Writers = {t}
  <2>1. t \in Writers
    BY DEF Writers, Holders
  <2> QED BY <2>1, WhoHolds
<1>2. /\ pc' \in [Tasks -> Places] /\ ListExact' /\ NoLostWakeup'
      /\ \A how \in {"read", "write"} :
           Holders(how)' = (Holders(how) \ {t})
                           \cup (IF p = how THEN {t} ELSE {})
  BY GrantNoneStep
<1>3. Writers' = {} /\ Readers' = IF p = "read" THEN {t} ELSE {}
  BY <1>1, <1>2 DEF Readers, Writers
<1>4. Cardinality(Readers') = k
  BY <1>3, FS_Singleton, FS_EmptySet
<1>5. ActivityExact' /\ Exclusion'
  BY <1>3, <1>4, ReadersHold
<1>6. TypeOK' /\ WriterAtHead' /\ NoIdleLock'
  BY <1>2 DEF WriterAtHead, NoIdleLock, GrantNone
<1> QED BY <1>2, <1>3, <1>5, <1>6

LEMMA WriterAlone ==
  ASSUME IInv, NEW t \in Tasks, pc[t] = "write"
  PROVE  t \in Writers /\ Writers = {t} /\ Readers = {}
<1>1. t \in Writers
  BY DEF Writers, Holders
<1> QED BY <1>1, WhoHolds

LEMMA UpWriteStep ==
  ASSUME IInv, NEW t \in Tasks, UpWrite(t)
  PROVE  IInv' /\ Abstract!ReleaseWrite(t)
<1>0. t \in Writers /\ Writers = {t} /\ Readers = {}
  BY WriterAlone DEF UpWrite
<1>1. CASE wait_list = <<>>
  <2>1. IInv' /\ Writers' = {} /\ Readers' = {}
    BY <1>1, WriterDone DEF UpWrite
  <2> QED BY <1>0, <2>1 DEF Abstract!ReleaseWrite, Abstract!PassOn
<1>2. CASE wait_list # <<>> /\ flags[Head(wait_list)] = "write"
  <2>1. activity' = -1 /\ Grant(1) /\ LockFree /\ pc[t] = "write"
        /\ pc' = [pc EXCEPT ![t] = "idle"] /\ UNCHANGED <<flags, state>>
    BY <1>2 DEF UpWrite, DoWake
  <2>2. IInv' /\ Readers' = {} /\ \E u \in Tasks : Writers' = {u}
    BY <1>0, <1>2, <2>1, WakeWriterStep
  <2> QED BY <1>0, <2>2 DEF Abstract!ReleaseWrite, Abstract!PassOn
<1>3. CASE wait_list # <<>> /\ flags[Head(wait_list)] # "write"
  <2>1. /\ IInv' /\ Writers' = {}
        /\ \E S \in SUBSET (Tasks \ {t}) : Readers' = S
    <3>1. /\ pc[t] = "write" /\ LockFree /\ WakeReaders(0)
          /\ pc' = [pc EXCEPT ![t] = "idle"] /\ UNCHANGED <<flags, state>>
      BY <1>3 DEF UpWrite, DoWake
    <3>2. 0 = IF "idle" = "read" THEN 1 ELSE 0
      OBVIOUS
    <3>3. /\ IInv' /\ Writers' = {}
          /\ \E S \in SUBSET (Tasks \ {t}) :
               Readers' = S \cup (IF "idle" = "read" THEN {t} ELSE {})
      BY <1>3, <3>1, <3>2, WakeReadersStep
    <3> QED BY <3>3
  <2> QED BY <1>0, <2>1 DEF Abstract!ReleaseWrite, Abstract!PassOn
<1> QED BY <1>1, <1>2, <1>3

LEMMA DowngradeStep ==
  ASSUME IInv, NEW t \in Tasks, DowngradeWrite(t)
  PROVE  IInv' /\ Abstract!Downgrade(t)
<1>0. t \in Writers /\ Writers = {t} /\ Readers = {}
  BY WriterAlone DEF DowngradeWrite
<1>1. CASE wait_list = <<>> \/ flags[Head(wait_list)] = "write"
  <2>1. IInv' /\ Writers' = {} /\ Readers' = {t}
    BY <1>1, WriterDone DEF DowngradeWrite, DoWake
  <2> QED BY <1>0, <2>1 DEF Abstract!Downgrade, Abstract!PassOn
<1>2. CASE wait_list # <<>> /\ flags[Head(wait_list)] # "write"
  <2>1. /\ IInv' /\ Writers' = {}
        /\ \E S \in SUBSET (Tasks \ {t}) : Readers' = S \cup {t}
    <3>1. /\ pc[t] = "write" /\ LockFree /\ WakeReaders(1)
          /\ pc' = [pc EXCEPT ![t] = "read"] /\ UNCHANGED <<flags, state>>
      BY <1>2 DEF DowngradeWrite, DoWake
    <3>2. 1 = IF "read" = "read" THEN 1 ELSE 0
      OBVIOUS
    <3> QED BY <1>2, <3>1, <3>2, WakeReadersStep
  <2> QED BY <1>0, <2>1 DEF Abstract!Downgrade, Abstract!PassOn
<1> QED BY <1>1, <1>2

(* The steps of a waiter and of the waker move no lock. *)
LEMMA WaiterStep ==
  ASSUME IInv, NEW t \in Tasks,
         CheckWaiter(t) \/ Schedule(t) \/ WakeUp(t) \/ SpuriousWake(t)
  PROVE  /\ IInv' /\ Readers' = Readers /\ Writers' = Writers
<1> USE DEF IInv, TypeOK, Places, States, CheckWaiter, Schedule, WakeUp,
            SpuriousWake
<1>1. UNCHANGED <<activity, wait_list, flags>> /\ TypeOK'
  OBVIOUS
<1>2. ListExact'
  BY DEF ListExact, Waiting
<1>3. NoLostWakeup'
  BY DEF NoLostWakeup, Waiting
<1>4. \A how \in {"read", "write"} : Holders(how)' = Holders(how)
  BY DEF Holders, NoLostWakeup, Waiting
<1>5. Readers' = Readers /\ Writers' = Writers
  BY <1>4 DEF Readers, Writers
<1>6. ActivityExact' /\ Exclusion'
  BY <1>1, <1>5 DEF ActivityExact, Exclusion, Abstract!Exclusion
<1>7. WriterAtHead' /\ NoIdleLock'
  BY <1>1 DEF WriterAtHead, NoIdleLock
<1> QED BY <1>1, <1>2, <1>3, <1>5, <1>6, <1>7

(* Every step preserves the invariant, and is a step of the abstract lock  *)
(* or leaves the holders alone.                                            *)
LEMMA IInvInductive ==
  IInv /\ [Next]_vars => IInv' /\ [Abstract!Next]_(Abstract!vars)
<1> SUFFICES ASSUME IInv, [Next]_vars
             PROVE  IInv' /\ [Abstract!Next]_(Abstract!vars)
  OBVIOUS
<1> DEFINE Same == Readers' = Readers /\ Writers' = Writers
<1>1. ASSUME NEW t \in Tasks, DownRead(t)
      PROVE  IInv' /\ (Same \/ Abstract!Acquire)
  BY <1>1, EnqueueStep, TakeStep DEF DownRead
<1>2. ASSUME NEW t \in Tasks, DownWrite(t)
      PROVE  IInv' /\ (Same \/ Abstract!Acquire)
  BY <1>2, EnqueueStep, TakeStep DEF DownWrite
<1>3. ASSUME NEW t \in Tasks, DownReadTrylock(t) \/ DownWriteTrylock(t)
      PROVE  IInv' /\ Abstract!Acquire
  BY <1>3, TakeStep DEF DownReadTrylock, DownWriteTrylock
<1>4. ASSUME UNCHANGED vars PROVE IInv' /\ Same
  BY <1>4
  DEF vars, IInv, TypeOK, ListExact, NoLostWakeup, ActivityExact, Exclusion,
      Abstract!Exclusion, WriterAtHead, NoIdleLock, Readers, Writers, Holders,
      Waiting
<1>5. \/ IInv' /\ Same
      \/ IInv' /\ Abstract!Acquire
      \/ \E t \in Tasks : /\ IInv'
                          /\ \/ Abstract!ReleaseRead(t)
                             \/ Abstract!ReleaseWrite(t)
                             \/ Abstract!Downgrade(t)
  BY <1>1, <1>2, <1>3, <1>4, WaiterStep, UpReadStep, UpWriteStep, DowngradeStep
  DEF Next
<1> QED BY <1>5 DEF Abstract!Next, Abstract!vars

LEMMA InitIInv == Init => IInv
<1> SUFFICES ASSUME Init PROVE IInv
  OBVIOUS
<1> USE DEF Init
<1>1. TypeOK /\ ListExact /\ NoLostWakeup /\ WriterAtHead /\ NoIdleLock
  BY DEF TypeOK, Places, States, ListExact, NoLostWakeup, WriterAtHead,
         NoIdleLock, Distinct, In, Positions, Waiting
<1>2. Readers = {} /\ Writers = {}
  BY DEF Readers, Writers, Holders
<1>3. ActivityExact /\ Exclusion
  BY <1>2, FS_EmptySet DEF ActivityExact, Exclusion, Abstract!Exclusion
<1> QED BY <1>1, <1>3 DEF IInv

(* lib/rwsem-spinlock.c is safe for any number of tasks: the types hold,   *)
(* readers and writers exclude each other, sem->activity is exact, the     *)
(* last reader always finds a writer at the head of the queue, the lock is *)
(* never idle with a waiter, and no granted waiter stays asleep.           *)
THEOREM RwSemSafe ==
  Spec => [](/\ TypeOK /\ Exclusion /\ ActivityExact /\ WriterAtHead
             /\ NoIdleLock /\ ListExact /\ NoLostWakeup)
<1>1. IInv => /\ TypeOK /\ Exclusion /\ ActivityExact /\ WriterAtHead
              /\ NoIdleLock /\ ListExact /\ NoLostWakeup
  BY DEF IInv
<1> QED BY <1>1, InitIInv, IInvInductive, PTL DEF Spec

(* lib/rwsem-spinlock.c implements a reader-writer lock: direct grants,    *)
(* hand-overs to a writer, batches of readers and the downgrade are all    *)
(* steps that the abstract lock allows.                                    *)
THEOREM RwSemRefines == Spec => ImplementsRwLock
<1>1. Init => Abstract!Init
  BY DEF Init, Abstract!Init, Readers, Writers, Holders
<1> QED
  BY <1>1, InitIInv, IInvInductive, PTL
  DEF Spec, ImplementsRwLock, Abstract!Spec

-----------------------------------------------------------------------------
(* What NoOvertaking says of a step. *)
InOrder ==
  \A u \in Tasks :
    u \notin Readers \cup Writers /\ u \in (Readers \cup Writers)' =>
      \A j \in Positions(wait_list) :
        In(wait_list[j], wait_list') =>
          \E i \in 1..(j - 1) : wait_list[i] = u

LEMMA NobodyNew ==
  ASSUME (Readers \cup Writers)' \subseteq Readers \cup Writers
  PROVE  InOrder
  BY DEF InOrder

(* The waiters that a release picks are in front of those it leaves.       *)
LEMMA GrantOrder ==
  ASSUME IInv, NEW t \in Tasks, NEW p \in {"idle", "read"},
         pc[t] \in {"read", "write"}, LockFree,
         NEW n \in 1..Len(wait_list), Grant(n),
         pc' = [pc EXCEPT ![t] = p], UNCHANGED <<flags, state>>
  PROVE  InOrder
<1>1. \A how \in {"read", "write"} :
        \A u : u \in Holders(how)' <=> \/ u \in Holders(how) /\ u # t
                                       \/ u = t /\ p = how
                                       \/ u \in FirstOf(wait_list, n) /\ flags[u] = how
  BY GrantStep
<1>2. t \in Readers \cup Writers
  BY DEF Readers, Writers, Holders
<1>3. \A u : u \in (Readers \cup Writers)' =>
               u \in Readers \cup Writers \/ u \in FirstOf(wait_list, n)
  BY <1>1, <1>2 DEF Readers, Writers
<1>4. wait_list \in Seq(Tasks) /\ \A u \in FirstOf(wait_list, n) : ~In(u, wait_list')
  BY DropQueue DEF Grant, IInv, TypeOK, ListExact
<1> SUFFICES ASSUME NEW u \in FirstOf(wait_list, n), NEW j \in Positions(wait_list),
                    In(wait_list[j], wait_list')
             PROVE  \E i \in 1..(j - 1) : wait_list[i] = u
  BY <1>3 DEF InOrder
<1>5. PICK i \in 1..n : wait_list[i] = u
  BY DEF FirstOf
<1>6. j \notin 1..n
  BY <1>4 DEF FirstOf
<1> QED BY <1>4, <1>5, <1>6 DEF Positions

(* A release picks waiters, or none. *)
LEMMA WakeOrder ==
  ASSUME IInv, NEW t \in Tasks, NEW p \in {"idle", "read"},
         pc[t] \in {"read", "write"}, LockFree,
         GrantNone \/ \E n \in 1..Len(wait_list) : Grant(n),
         pc' = [pc EXCEPT ![t] = p], UNCHANGED <<flags, state>>
  PROVE  InOrder
<1>1. CASE GrantNone
  <2>1. \A how \in {"read", "write"} :
          Holders(how)' = (Holders(how) \ {t}) \cup (IF p = how THEN {t} ELSE {})
    BY <1>1, GrantNoneStep
  <2>2. t \in Readers \cup Writers
    BY DEF Readers, Writers, Holders
  <2> QED BY <2>1, <2>2, NobodyNew DEF Readers, Writers
<1>2. ASSUME NEW n \in 1..Len(wait_list), Grant(n) PROVE InOrder
  BY <1>2, GrantOrder
<1> QED BY <1>1, <1>2

LEMMA StepInOrder == IInv /\ [Next]_vars => [InOrder]_vars
<1> SUFFICES ASSUME IInv, NEW t \in Tasks,
                    \/ DownRead(t) \/ DownWrite(t)
                    \/ DownReadTrylock(t) \/ DownWriteTrylock(t)
                    \/ CheckWaiter(t) \/ Schedule(t)
                    \/ UpRead(t) \/ UpWrite(t) \/ DowngradeWrite(t)
                    \/ WakeUp(t) \/ SpuriousWake(t)
             PROVE  InOrder
  BY DEF Next
<1>1. CASE wait_list = <<>>
  BY <1>1 DEF InOrder, Positions
<1>2. CASE /\ wait_list # <<>>
           /\ DownRead(t) \/ DownWrite(t) \/ DownReadTrylock(t) \/ DownWriteTrylock(t)
  <2>1. PICK how \in {"read", "write"} :
          /\ pc[t] = "idle" /\ Enqueue(t, how)
          /\ how = "read" => ~ReadFree
          /\ how = "write" => ~WriteFree
    BY <1>2 DEF DownRead, DownWrite, DownReadTrylock, DownWriteTrylock, ReadFree, WriteFree
  <2>2. Readers' = Readers /\ Writers' = Writers
    BY <2>1, EnqueueStep
  <2> QED BY <2>2, NobodyNew
<1>3. CASE CheckWaiter(t) \/ Schedule(t) \/ WakeUp(t) \/ SpuriousWake(t)
  <2>1. Readers' = Readers /\ Writers' = Writers
    BY <1>3, WaiterStep
  <2> QED BY <2>1, NobodyNew
<1>4. CASE (UpRead(t) \/ UpWrite(t) \/ DowngradeWrite(t)) /\ wait_list # <<>>
  <2>1. 1 \in 1..Len(wait_list)
    BY <1>4 DEF IInv, TypeOK
  <2>2. GrantNone \/ \E n \in 1..Len(wait_list) : Grant(n)
    BY <1>4, <2>1 DEF UpRead, UpWrite, DowngradeWrite, DoWake, WakeOneWriter, WakeReaders
  <2>3. PICK p \in {"idle", "read"} : pc' = [pc EXCEPT ![t] = p]
    BY <1>4 DEF UpRead, UpWrite, DowngradeWrite
  <2>4. pc[t] \in {"read", "write"} /\ LockFree /\ UNCHANGED <<flags, state>>
    BY <1>4 DEF UpRead, UpWrite, DowngradeWrite
  <2> QED BY <2>2, <2>3, <2>4, WakeOrder
<1> QED BY <1>1, <1>2, <1>3, <1>4

(* Who comes to hold the lock was queued before all who stay on the list:  *)
(* ReadFree and WriteFree let nobody past a queue, and every release takes *)
(* from its front, so that readers cannot starve a writer by overtaking.   *)
THEOREM RwSemFifo == Spec => NoOvertaking
<1>1. IInv /\ [Next]_vars => [InOrder]_vars
  BY StepInOrder
<1>2. Spec => [][InOrder]_vars
  BY <1>1, InitIInv, IInvInductive, PTL DEF Spec
<1> QED BY <1>2 DEF NoOvertaking, InOrder

=============================================================================
