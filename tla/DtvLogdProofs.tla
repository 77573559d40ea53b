--------------------------- MODULE DtvLogdProofs ---------------------------
(***************************************************************************)
(* The theorems about kernel/dtvlogd.c.                                    *)
(*                                                                         *)
(* - Flush requests (DtvLogd): no completion is left over, for any number  *)
(*   of tasks.  The inductive invariant IInv counts, besides the           *)
(*   completions already made, the one that the daemon still owes for a    *)
(*   raised flag.                                                          *)
(* - Lemmas on rings: where an index lies in the array, the distance of    *)
(*   two indices across a wrap, and the characters in front of an index    *)
(*   (Slice), before and after a character is put and read in two parts.   *)
(* - The ring buffer (DlogBuf): as long as calls have not overlapped, it   *)
(*   holds the last characters printed, and a flush takes just those.      *)
(*   DlogIInv says what a call and a flush find at each of their places.   *)
(* - The emergency log (EmergencyLog): the RAM area holds the recording at *)
(*   every instant, and what is saved before it is recorded over is the    *)
(*   beginning of it.  EmegIInv says how the words in the RAM follow the   *)
(*   indices in the kernel.                                                *)
(***************************************************************************)
EXTENDS DtvLogd, DlogBuf, EmergencyLog, FiniteSetTheorems, TLAPS

(* The daemon will call complete() for a request already made.  A flag     *)
(* raised while the daemon is about to clear it is lost, and owes nothing. *)
Owed == daemon = "complete" \/ (dlogbuf_complete = 1 /\ daemon # "clear")

IInv ==
  /\ TypeOK
  /\ NoStaleCompletion
  /\ Owed => done < Cardinality(Waiting)

LEMMA WaitingFinite ==
  /\ IsFiniteSet(Waiting) /\ Cardinality(Waiting) \in Nat
  /\ IsFiniteSet(Waiting') /\ Cardinality(Waiting') \in Nat
<1>1. Waiting \subseteq Tasks /\ Waiting' \subseteq Tasks
  BY DEF Waiting
<1> QED BY <1>1, DtvLogdAssumption, FS_Subset, FS_CardinalityType

LEMMA InitIInv == Init => IInv
<1> SUFFICES ASSUME Init PROVE IInv
  OBVIOUS
<1>1. TypeOK /\ ~Owed /\ done = 0
  BY DEF Init, TypeOK, Owed, DaemonPlaces, TaskPlaces
<1> QED BY <1>1, WaitingFinite DEF IInv, NoStaleCompletion

LEMMA TypeStep == TypeOK /\ [Next]_vars => TypeOK'
<1> SUFFICES ASSUME TypeOK, [Next]_vars PROVE TypeOK'
  OBVIOUS
<1> USE DEF TypeOK, DaemonPlaces, TaskPlaces, Goto
<1>1. CASE Daemon
  BY <1>1 DEF Daemon, WakeUp, Check, TestChars, TestEnabled, Copy, UsblogWrite,
              Unname, Disable, Test, Complete, Clear
<1>2. ASSUME NEW t \in Tasks, Log(t) \/ UsblogStart(t) \/ Continue(t) PROVE TypeOK'
  BY <1>2 DEF Log, UsblogStart, Continue, Enable, TestOpt, AfterFlush, Request,
              WaitForCompletion, Returned, Forget, Stop
<1>3. ASSUME NEW t \in Tasks, NEW stop \in BOOLEAN, FlushOrStop(t, stop)
      PROVE  TypeOK'
  BY <1>3 DEF FlushOrStop
<1>4. CASE UNCHANGED vars
  BY <1>4 DEF vars
<1> QED BY <1>1, <1>2, <1>3, <1>4 DEF Next

(* A step that neither waits nor completes and raises no debt. *)
LEMMA QuietStep ==
  ASSUME IInv, TypeOK', Waiting' = Waiting, done' = done, Owed' => Owed
  PROVE  IInv'
BY DEF IInv, NoStaleCompletion

LEMMA IInvInductive == IInv /\ [Next]_vars => IInv'
<1> SUFFICES ASSUME IInv, [Next]_vars PROVE IInv'
  OBVIOUS
<1>0. TypeOK /\ TypeOK'
  BY TypeStep DEF IInv
<1>1. CASE WakeUp \/ Check \/ TestChars \/ TestEnabled \/ Copy \/ UsblogWrite
           \/ Unname \/ Disable
  <2>1. Waiting' = Waiting /\ done' = done
    BY <1>1 DEF WakeUp, Check, TestChars, TestEnabled, Copy, UsblogWrite, Unname,
                Disable, Waiting
  <2>2. /\ dlogbuf_complete' = dlogbuf_complete
        /\ daemon # "clear" /\ daemon' # "complete"
    BY <1>1 DEF WakeUp, Check, TestChars, TestEnabled, Copy, UsblogWrite, Unname,
                Disable
  <2>3. Owed' => Owed
    BY <2>2 DEF Owed
  <2> QED BY <1>0, <2>1, <2>3, QuietStep
<1>2. CASE Test \/ Clear
  <2>1. Waiting' = Waiting /\ done' = done
    BY <1>2 DEF Test, Clear, Waiting
  <2>2. Owed' => Owed
    BY <1>2 DEF Test, Clear, Owed
  <2> QED BY <1>0, <2>1, <2>2, QuietStep
<1>3. CASE Complete
  <2>1. Waiting' = Waiting /\ done' = done + 1 /\ Owed /\ ~Owed'
    BY <1>3 DEF Complete, Waiting, Owed
  <2>2. done \in Nat /\ done < Cardinality(Waiting)
    BY <1>0, <2>1 DEF IInv, TypeOK
  <2>3. done' <= Cardinality(Waiting')
    BY <2>1, <2>2, WaitingFinite
  <2> QED BY <1>0, <2>1, <2>3 DEF IInv, NoStaleCompletion
<1>4. ASSUME NEW t \in Tasks,
             \/ Log(t) \/ UsblogStart(t) \/ Enable(t) \/ TestOpt(t) \/ Returned(t)
             \/ Forget(t) \/ Stop(t) \/ \E stop \in BOOLEAN : FlushOrStop(t, stop)
      PROVE  IInv'
  <2>1. Waiting' = Waiting
    BY <1>0, <1>4 DEF Log, UsblogStart, Enable, TestOpt, AfterFlush, Returned,
                      Forget, Stop, FlushOrStop, Waiting, Goto, TypeOK
  <2>2. UNCHANGED <<done, daemon, dlogbuf_complete>>
    BY <1>4 DEF Log, UsblogStart, Enable, TestOpt, Returned, Forget, Stop,
                FlushOrStop
  <2>3. Owed' => Owed
    BY <2>2 DEF Owed
  <2> QED BY <1>0, <2>1, <2>2, <2>3, QuietStep
<1>5. ASSUME NEW t \in Tasks, Request(t) PROVE IInv'
  <2>1. /\ t \notin Waiting /\ Waiting' = Waiting \cup {t}
        /\ done' = done
    BY <1>0, <1>5 DEF Request, Waiting, Goto, TypeOK
  <2>2. Cardinality(Waiting') = Cardinality(Waiting) + 1
    BY <2>1, WaitingFinite, FS_AddElement
  <2>3. done \in Nat /\ done <= Cardinality(Waiting)
    BY DEF IInv, TypeOK, NoStaleCompletion
  <2>4. done' < Cardinality(Waiting') /\ done' <= Cardinality(Waiting')
    BY <2>1, <2>2, <2>3, WaitingFinite
  <2> QED BY <1>0, <2>4 DEF IInv, NoStaleCompletion
<1>6. ASSUME NEW t \in Tasks, WaitForCompletion(t) PROVE IInv'
  <2>1. /\ t \in Waiting /\ Waiting' = Waiting \ {t}
        /\ done' = done - 1 /\ (Owed' => Owed)
    BY <1>0, <1>6 DEF WaitForCompletion, Waiting, Goto, TypeOK, Owed
  <2>2. Cardinality(Waiting') = Cardinality(Waiting) - 1
    BY <2>1, WaitingFinite, FS_RemoveElement
  <2>3. /\ done \in Nat /\ done <= Cardinality(Waiting)
        /\ Owed => done < Cardinality(Waiting)
    BY DEF IInv, TypeOK, NoStaleCompletion
  <2>4. done' <= Cardinality(Waiting')
    BY <2>1, <2>2, <2>3, WaitingFinite
  <2>5. Owed' => done' < Cardinality(Waiting')
    BY <2>1, <2>2, <2>3, WaitingFinite
  <2> QED BY <1>0, <2>4, <2>5 DEF IInv, NoStaleCompletion
<1>7. CASE UNCHANGED vars
  BY <1>7 DEF vars, IInv, TypeOK, NoStaleCompletion, Waiting, Owed
<1> QED
  BY <1>1, <1>2, <1>3, <1>4, <1>5, <1>6, <1>7 DEF Next, Daemon, Continue

(* However many tasks ask for a flush, and however their requests race the *)
(* daemon, no completion is left over when they have returned.             *)
THEOREM CompletionSafe == Spec => [](TypeOK /\ NoStaleCompletion)
<1>1. IInv => TypeOK /\ NoStaleCompletion
  BY DEF IInv
<1> QED BY <1>1, InitIInv, IInvInductive, PTL DEF Spec

-----------------------------------------------------------------------------
(* Rings. *)

Texts == Seq(Chars \cup {"nul"})

(* The place of index i in the array: DLOG_INDEX and DRAM_INDEX. *)
Slot(i) == i % BufLen

(* The m characters in front of index e. *)
Slice(buf, e, m) == [i \in 1 .. m |-> buf[Slot(e - m + i - 1)]]

(* len characters of the array, as a loop or a memcpy() reads them. *)
Part(buf, from, len) == [i \in 1 .. len |-> buf[from + i - 1]]

LEMMA HalfMultiple == \E k \in Nat : Half = k * BufLen
<1>1. \A a \in Nat, m \in Nat \ {0} : a = (m * (a \div m)) + (a % m) /\ a \div m \in Nat
  OBVIOUS
<1> QED BY <1>1, LogRingAssumption

LEMMA RingConstants ==
  BufLen \in Nat /\ Half \in Nat /\ BufLen > 1 /\ Half > BufLen + 1
<1>1. PICK k \in Nat : Half = k * BufLen
  BY HalfMultiple
<1>2. k > 1
  BY <1>1, LogRingAssumption
<1>3. k * BufLen >= BufLen + BufLen
  BY <1>2, LogRingAssumption
<1> QED BY <1>1, <1>3, LogRingAssumption

LEMMA DivMod ==
  ASSUME NEW a \in Int, NEW m \in Nat \ {0}
  PROVE  a % m \in 0 .. m - 1 /\ (\E q \in Int : a = q * m + (a % m))
<1>1. a % m \in 0 .. m - 1
  OBVIOUS
<1>2. a = (a \div m) * m + (a % m) /\ a \div m \in Int
  OBVIOUS
<1> QED BY <1>1, <1>2

LEMMA ModIs ==
  ASSUME NEW m \in Nat \ {0}, NEW q \in Int, NEW r \in 0 .. m - 1
  PROVE  (q * m + r) % m = r
OBVIOUS

LEMMA SlotIs ==
  ASSUME NEW q \in Int, NEW r \in 0 .. BufLen - 1
  PROVE  Slot(q * BufLen + r) = r
BY ModIs, RingConstants DEF Slot

LEMMA SlotQuotient ==
  ASSUME NEW i \in Int
  PROVE  \E q \in Int : i = q * BufLen + Slot(i)
<1>1. BufLen \in Nat \ {0}
  BY RingConstants
<1> QED BY <1>1, DivMod DEF Slot

LEMMA SlotType == ASSUME NEW i \in Int PROVE Slot(i) \in 0 .. BufLen - 1
<1>1. BufLen \in Nat \ {0}
  BY RingConstants
<1> QED BY <1>1, DivMod DEF Slot

(* Indices that are a multiple of BufLen apart share a place, ... *)
LEMMA SlotPeriodic ==
  ASSUME NEW i \in Int, NEW k \in Int
  PROVE  Slot(i + k * BufLen) = Slot(i)
<1>1. PICK q \in Int : i = q * BufLen + Slot(i)
  BY SlotQuotient
<1>2. (q + k) * BufLen = q * BufLen + k * BufLen
  BY RingConstants
<1>3. Slot(i) \in 0 .. BufLen - 1 /\ BufLen \in Nat
  BY SlotType, RingConstants
<1>4. q + k \in Int /\ i + k * BufLen = (q + k) * BufLen + Slot(i)
  BY <1>1, <1>2, <1>3
<1> QED BY <1>3, <1>4, SlotIs

(* ... those less than BufLen apart do not. *)
LEMMA SlotInjective ==
  ASSUME NEW i \in Int, NEW d \in 1 .. BufLen - 1
  PROVE  Slot(i + d) # Slot(i)
<1>0. Slot(i) \in Int /\ BufLen \in Nat
  BY SlotType, RingConstants
<1>1. PICK q \in Int : i = q * BufLen + Slot(i)
  BY SlotQuotient
<1>2. PICK p \in Int : i + d = p * BufLen + Slot(i + d)
  <2>1. i + d \in Int
    BY RingConstants
  <2> QED BY <2>1, SlotQuotient
<1>3. SUFFICES ASSUME Slot(i + d) = Slot(i) PROVE FALSE
  OBVIOUS
<1>4. d = (p - q) * BufLen
  <2>1. d = p * BufLen - q * BufLen
    BY <1>1, <1>2, <1>3, <1>0
  <2> QED BY <2>1, <1>0
<1>5. CASE p - q <= 0
  BY <1>4, <1>5, RingConstants
<1>6. CASE p - q >= 1
  BY <1>4, <1>6, RingConstants
<1> QED BY <1>5, <1>6

LEMMA SlotStep ==
  ASSUME NEW i \in Int, NEW d \in Nat
  PROVE  /\ Slot(i) + d < BufLen => Slot(i + d) = Slot(i) + d
         /\ Slot(i) + d >= BufLen /\ d <= BufLen => Slot(i + d) = Slot(i) + d - BufLen
<1>0. Slot(i) \in 0 .. BufLen - 1 /\ BufLen \in Nat \ {0}
  BY SlotType, RingConstants
<1>1. PICK q \in Int : i = q * BufLen + Slot(i)
  BY SlotQuotient
<1>2. CASE Slot(i) + d < BufLen
  <2>1. i + d = q * BufLen + (Slot(i) + d) /\ Slot(i) + d \in 0 .. BufLen - 1
    BY <1>0, <1>1, <1>2
  <2>2. Slot(q * BufLen + (Slot(i) + d)) = Slot(i) + d
    BY <2>1, SlotIs
  <2> QED BY <1>0, <1>2, <2>1, <2>2
<1>3. CASE Slot(i) + d >= BufLen /\ d <= BufLen
  <2>1. (q + 1) * BufLen = q * BufLen + BufLen
    BY <1>0
  <2>2. /\ i + d = (q + 1) * BufLen + (Slot(i) + d - BufLen)
        /\ Slot(i) + d - BufLen \in 0 .. BufLen - 1
    BY <1>0, <1>1, <1>3, <2>1
  <2>3. q + 1 \in Int
    OBVIOUS
  <2>4. Slot((q + 1) * BufLen + (Slot(i) + d - BufLen)) = Slot(i) + d - BufLen
    BY <2>2, <2>3, SlotIs
  <2> QED BY <1>0, <1>3, <2>2, <2>4
<1> QED BY <1>2, <1>3

(* What an int holds that has wrapped at most once. *)
LEMMA Int32Is ==
  ASSUME NEW i \in Int
  PROVE  /\ i \in Ints => Int32(i) = i
         /\ i \in Half .. 3 * Half - 1 => Int32(i) = i - 2 * Half
         /\ i \in -3 * Half .. -Half - 1 => Int32(i) = i + 2 * Half
<1> DEFINE m == 2 * Half
<1>0. m \in Nat \ {0}
  BY RingConstants
<1>1. CASE i \in Ints
  <2>1. i + Half = 0 * m + (i + Half) /\ i + Half \in 0 .. m - 1
    BY <1>1, RingConstants DEF Ints
  <2>2. (i + Half) % m = i + Half
    BY <1>0, <2>1, ModIs
  <2> QED BY <1>1, <2>2, RingConstants DEF Int32, Ints
<1>2. CASE i \in Half .. 3 * Half - 1
  <2>1. i + Half = 1 * m + (i - Half) /\ i - Half \in 0 .. m - 1
    BY <1>2, RingConstants
  <2>2. (i + Half) % m = i - Half
    BY <1>0, <2>1, ModIs
  <2> QED BY <1>2, <2>2, RingConstants DEF Int32, Ints
<1>3. CASE i \in -3 * Half .. -Half - 1
  <2>1. i + Half = (-1) * m + (i + 3 * Half) /\ i + 3 * Half \in 0 .. m - 1
    BY <1>3, RingConstants
  <2>2. ((-1) * m + (i + 3 * Half)) % m = i + 3 * Half
    <3> HIDE DEF m
    <3> QED BY <1>0, <2>1, ModIs
  <2> QED BY <1>3, <2>1, <2>2, RingConstants DEF Int32, Ints
<1> QED BY <1>1, <1>2, <1>3

(* Wrapping does not move an index in the array. *)
LEMMA SlotInt32 ==
  ASSUME NEW i \in -3 * Half .. 3 * Half - 1, NEW d \in Int
  PROVE  Slot(Int32(i) + d) = Slot(i + d)
<1>0. i \in Int /\ Half \in Nat
  BY RingConstants
<1>1. PICK k \in Nat : Half = k * BufLen
  BY HalfMultiple
<1>2. 2 * Half = (2 * k) * BufLen /\ -(2 * Half) = (-(2 * k)) * BufLen
  BY <1>1, RingConstants
<1>3. Slot(i + d + (2 * k) * BufLen) = Slot(i + d)
  BY <1>0, SlotPeriodic
<1>4. Slot(i + d + (-(2 * k)) * BufLen) = Slot(i + d)
  BY <1>0, SlotPeriodic
<1>5. \/ Int32(i) = i \/ Int32(i) = i - 2 * Half \/ Int32(i) = i + 2 * Half
  BY <1>0, Int32Is DEF Ints
<1>6. CASE Int32(i) = i
  BY <1>6
<1>7. CASE Int32(i) = i - 2 * Half
  <2>1. Int32(i) + d = i + d + (-(2 * k)) * BufLen
    BY <1>0, <1>2, <1>7
  <2> QED BY <1>4, <2>1
<1>8. CASE Int32(i) = i + 2 * Half
  <2>1. Int32(i) + d = i + d + (2 * k) * BufLen
    BY <1>0, <1>2, <1>8
  <2> QED BY <1>3, <2>1
<1> QED BY <1>5, <1>6, <1>7, <1>8

LEMMA Int32Type == ASSUME NEW i \in -3 * Half .. 3 * Half - 1 PROVE Int32(i) \in Ints
BY Int32Is, RingConstants DEF Ints

(* The distance of two indices, across a wrap. *)
LEMMA DistanceIs ==
  ASSUME NEW s \in Ints, NEW e \in Ints, NEW n \in 0 .. BufLen + 1
  PROVE  Int32(e - s) = n <=> e = s + n \/ e = s + n - 2 * Half
<1>1. e - s \in Int /\ e - s \in -2 * Half .. 2 * Half
  BY RingConstants DEF Ints
<1> QED BY <1>1, Int32Is, RingConstants DEF Ints

LEMMA DistanceAfter ==
  ASSUME NEW s \in Ints, NEW e \in Ints, NEW n \in 0 .. BufLen, Int32(e - s) = n
  PROVE  Int32(e + 1) \in Ints /\ Int32(Int32(e + 1) - s) = n + 1
<1>1. e = s + n \/ e = s + n - 2 * Half
  BY DistanceIs, RingConstants
<1>2. e + 1 \in Int /\ (Int32(e + 1) = e + 1 \/ Int32(e + 1) = e + 1 - 2 * Half)
      /\ Int32(e + 1) \in Ints
  BY Int32Is, RingConstants DEF Ints
<1>3. Int32(e + 1) = s + (n + 1) \/ Int32(e + 1) = s + (n + 1) - 2 * Half
  BY <1>1, <1>2, RingConstants DEF Ints
<1>4. n + 1 \in 0 .. BufLen + 1
  BY RingConstants
<1> QED BY <1>2, <1>3, <1>4, DistanceIs

LEMMA DistanceFull ==
  ASSUME NEW e \in Ints
  PROVE  /\ Int32(e - BufLen) \in Ints /\ Int32(e - Int32(e - BufLen)) = BufLen
         /\ Int32(e - e) = 0
<1>1. e - BufLen \in Int /\ (Int32(e - BufLen) = e - BufLen \/ Int32(e - BufLen) = e - BufLen + 2 * Half)
      /\ Int32(e - BufLen) \in Ints
  BY Int32Is, RingConstants DEF Ints
<1>2. BufLen \in 0 .. BufLen + 1 /\ 0 \in 0 .. BufLen + 1
  BY RingConstants
<1>3. \/ e = Int32(e - BufLen) + BufLen
      \/ e = Int32(e - BufLen) + BufLen - 2 * Half
  BY <1>1, RingConstants DEF Ints
<1>4. e = e + 0
  BY RingConstants DEF Ints
<1> QED BY <1>1, <1>2, <1>3, <1>4, DistanceIs

LEMMA SliceType ==
  ASSUME NEW T, NEW buf \in [0 .. BufLen - 1 -> T], NEW e \in Int, NEW m \in Nat
  PROVE  Slice(buf, e, m) \in Seq(T) /\ Len(Slice(buf, e, m)) = m
<1>1. \A i \in 1 .. m : e - m + i - 1 \in Int
  OBVIOUS
<1>2. \A i \in 1 .. m : buf[Slot(e - m + i - 1)] \in T
  BY <1>1, SlotType
<1> QED BY <1>2 DEF Slice

LEMMA FunctionText ==
  ASSUME NEW T, NEW k \in Nat, NEW f \in [1 .. k -> T]
  PROVE  f \in Seq(T) /\ Len(f) = k
OBVIOUS

LEMMA JoinedText ==
  ASSUME NEW T, NEW s \in Seq(T), NEW t \in Seq(T)
  PROVE  /\ s \o t \in Seq(T) /\ Len(s \o t) = Len(s) + Len(t)
         /\ \A i \in 1 .. Len(s) + Len(t) :
              (s \o t)[i] = IF i <= Len(s) THEN s[i] ELSE t[i - Len(s)]
OBVIOUS

(* Two sequences with the same elements are the same. *)
LEMMA SameText ==
  ASSUME NEW T, NEW s \in Seq(T), NEW t \in Seq(T), Len(s) = Len(t),
         \A i \in 1 .. Len(s) : s[i] = t[i]
  PROVE  s = t
OBVIOUS

LEMMA EmptySlice == ASSUME NEW buf, NEW e PROVE Slice(buf, e, 0) = <<>>
BY DEF Slice

LEMMA SliceInt32 ==
  ASSUME NEW buf, NEW e \in -3 * Half .. 3 * Half - 1, NEW m \in Nat
  PROVE  Slice(buf, Int32(e), m) = Slice(buf, e, m)
<1>0. e \in Int /\ Int32(e) \in Int
  BY Int32Type, RingConstants DEF Ints
<1>1. ASSUME NEW i \in 1 .. m
      PROVE  Slot(Int32(e) - m + i - 1) = Slot(e - m + i - 1)
  <2>1. -m + i - 1 \in Int
    OBVIOUS
  <2>2. Slot(Int32(e) + (-m + i - 1)) = Slot(e + (-m + i - 1))
    BY <2>1, SlotInt32
  <2>3. /\ Int32(e) + (-m + i - 1) = Int32(e) - m + i - 1
        /\ e + (-m + i - 1) = e - m + i - 1
    BY <1>0
  <2> QED BY <2>2, <2>3
<1> QED BY <1>1 DEF Slice

(* One more character in a ring that holds m: it replaces the first one if *)
(* the ring is full.                                                       *)
LEMMA SlicePut ==
  ASSUME NEW T, NEW buf \in [0 .. BufLen - 1 -> T], NEW e \in Int,
         NEW m \in 0 .. BufLen, NEW c \in T
  PROVE  Slice([buf EXCEPT ![Slot(e)] = c], e + 1, IF m < BufLen THEN m + 1 ELSE BufLen)
           = Last(Append(Slice(buf, e, m), c))
<1> DEFINE b == [buf EXCEPT ![Slot(e)] = c]
           n == IF m < BufLen THEN m + 1 ELSE BufLen
           old == Slice(buf, e, m)
           new == Slice(b, e + 1, n)
<1>0. /\ BufLen \in Nat \ {0} /\ m \in Nat /\ n \in 1 .. BufLen /\ n \in Nat
      /\ Slot(e) \in 0 .. BufLen - 1 /\ e + 1 \in Int
  BY RingConstants, SlotType
<1>1. /\ b \in [0 .. BufLen - 1 -> T] /\ b[Slot(e)] = c
      /\ \A j \in 0 .. BufLen - 1 : j # Slot(e) => b[j] = buf[j]
  BY <1>0
<1> HIDE DEF b, n, new, old
<1>2. /\ new \in Seq(T) /\ Len(new) = n
      /\ \A i \in 1 .. n : new[i] = b[Slot(e + 1 - n + i - 1)]
  <2>1. new \in Seq(T) /\ Len(new) = n
    BY <1>0, <1>1, SliceType DEF new
  <2>2. \A i \in 1 .. n : new[i] = b[Slot(e + 1 - n + i - 1)]
    BY <1>0, <1>1 DEF new, Slice
  <2> QED BY <2>1, <2>2
<1>3. /\ old \in Seq(T) /\ Len(old) = m
      /\ \A i \in 1 .. m : old[i] = buf[Slot(e - m + i - 1)]
  <2>1. old \in Seq(T) /\ Len(old) = m
    BY <1>0, SliceType DEF old
  <2> QED BY <2>1 DEF old, Slice
<1>4. \A i \in 1 .. n : e + 1 - n + i - 1 = e - n + i
  BY <1>0
<1>5. new[n] = c
  <2>1. n \in 1 .. n /\ e - n + n = e
    BY <1>0
  <2> QED BY <1>1, <1>2, <1>4, <2>1
<1>6. ASSUME NEW i \in 1 .. n - 1 PROVE new[i] = buf[Slot(e - n + i)]
  <2>1. /\ e - n + i \in Int /\ n - i \in 1 .. BufLen - 1
        /\ (e - n + i) + (n - i) = e /\ i \in 1 .. n
    BY <1>0
  <2>2. Slot(e) # Slot(e - n + i) /\ Slot(e - n + i) \in 0 .. BufLen - 1
    <3>1. Slot((e - n + i) + (n - i)) # Slot(e - n + i)
      BY <2>1, SlotInjective
    <3> QED BY <2>1, <3>1, SlotType
  <2> QED BY <1>1, <1>2, <1>4, <2>1, <2>2
<1>7. PICK l : l = Last(Append(old, c))
  OBVIOUS
<1>8. CASE m < BufLen
  <2>1. n = m + 1
    BY <1>8 DEF n
  <2>2. /\ l \in Seq(T) /\ Len(l) = n /\ l[n] = c
        /\ \A i \in 1 .. n - 1 : l[i] = old[i]
    BY <1>0, <1>3, <1>7, <1>8, <2>1 DEF Last
  <2>3. \A i \in 1 .. n - 1 : e - m + i - 1 = e - n + i /\ i \in 1 .. m
    BY <1>0, <2>1
  <2>4. \A i \in 1 .. n : new[i] = l[i]
    <3>1. ASSUME NEW i \in 1 .. n - 1 PROVE new[i] = l[i]
      BY <1>3, <1>6, <2>2, <2>3
    <3>2. \A i \in 1 .. n : i = n \/ i \in 1 .. n - 1
      BY <1>0
    <3> QED BY <1>5, <2>2, <3>1, <3>2
  <2>5. new = l
    BY <1>2, <2>2, <2>4, SameText
  <2> QED BY <1>7, <2>5 DEF b, n, new, old
<1>9. CASE m = BufLen
  <2>1. n = m
    BY <1>9 DEF n
  <2>2. /\ l \in Seq(T) /\ Len(l) = n /\ l[n] = c
        /\ \A i \in 1 .. n - 1 : l[i] = old[i + 1]
    <3>1. PICK a : a = Append(old, c)
      OBVIOUS
    <3>2. /\ a \in Seq(T) /\ Len(a) = n + 1 /\ a[n + 1] = c
          /\ \A i \in 1 .. n : a[i] = old[i]
      BY <1>0, <1>3, <2>1, <3>1
    <3>3. l = Tail(a)
      BY <1>0, <1>7, <1>9, <2>1, <3>1, <3>2 DEF Last
    <3>4. l \in Seq(T) /\ Len(l) = n /\ \A i \in 1 .. n : l[i] = a[i + 1]
      BY <1>0, <2>1, <3>2, <3>3
    <3>5. n \in 1 .. n /\ \A i \in 1 .. n - 1 : i \in 1 .. n /\ i + 1 \in 1 .. n
      BY <1>0, <1>9, <2>1
    <3> QED BY <3>2, <3>4, <3>5
  <2>3. \A i \in 1 .. n - 1 : e - m + (i + 1) - 1 = e - n + i /\ i + 1 \in 1 .. m
    BY <1>0, <2>1
  <2>4. \A i \in 1 .. n : new[i] = l[i]
    <3>1. ASSUME NEW i \in 1 .. n - 1 PROVE new[i] = l[i]
      BY <1>3, <1>6, <2>2, <2>3
    <3>2. \A i \in 1 .. n : i = n \/ i \in 1 .. n - 1
      BY <1>0
    <3> QED BY <1>5, <2>2, <3>1, <3>2
  <2>5. new = l
    BY <1>2, <2>2, <2>4, SameText
  <2> QED BY <1>7, <2>5 DEF b, n, new, old
<1> QED BY <1>0, <1>8, <1>9

(* What lies between the indices start and end, as the loops read it: up   *)
(* to the end of the array first if the indices have wrapped in it.        *)
LEMMA SliceRead ==
  ASSUME NEW T, NEW buf \in [0 .. BufLen - 1 -> T], NEW s \in Ints, NEW e \in Ints,
         NEW n \in 1 .. BufLen, Int32(e - s) = n
  PROVE  /\ Slot(s) < Slot(e) =>
              Slice(buf, e, n) = Part(buf, Slot(s), Slot(e) - Slot(s))
         /\ Slot(s) >= Slot(e) =>
              Slice(buf, e, n) = Part(buf, Slot(s), BufLen - Slot(s)) \o Part(buf, 0, Slot(e))
<1>0. /\ BufLen \in Nat \ {0} /\ n \in Nat /\ s \in Int /\ e \in Int
      /\ Slot(s) \in 0 .. BufLen - 1 /\ Slot(e) \in 0 .. BufLen - 1
  <2>1. BufLen \in Nat \ {0} /\ n \in Nat /\ s \in Int /\ e \in Int
    BY RingConstants DEF Ints
  <2> QED BY <2>1, SlotType
<1>1. \A d \in Int : Slot(e + d) = Slot(s + n + d)
  <2>1. e = Int32(s + n) /\ s + n \in -3 * Half .. 3 * Half - 1
    <3>1. e = s + n \/ e = s + n - 2 * Half
      BY DistanceIs, RingConstants
    <3>2. s + n \in Int
      BY <1>0
    <3> QED BY <3>1, <3>2, Int32Is, RingConstants DEF Ints
  <2> QED BY <2>1, SlotInt32
<1>2. ASSUME NEW i \in 1 .. n PROVE Slot(e - n + i - 1) = Slot(s + (i - 1))
  <2>1. -n + i - 1 \in Int /\ e - n + i - 1 = e + (-n + i - 1)
        /\ s + n + (-n + i - 1) = s + (i - 1)
    BY <1>0
  <2> QED BY <1>1, <2>1
<1>3. Slot(e) = Slot(s + n)
  <2>1. e + 0 = e /\ s + n + 0 = s + n /\ 0 \in Int
    BY <1>0
  <2> QED BY <1>1, <2>1
<1>4. /\ Slot(s) < Slot(e) => n = Slot(e) - Slot(s)
      /\ Slot(s) >= Slot(e) => n = BufLen - Slot(s) + Slot(e)
  <2>1. /\ Slot(s) + n < BufLen => Slot(e) = Slot(s) + n
        /\ Slot(s) + n >= BufLen => Slot(e) = Slot(s) + n - BufLen
    BY <1>0, <1>3, SlotStep
  <2> QED BY <1>0, <2>1
<1>5. ASSUME NEW i \in 1 .. n
      PROVE  /\ Slot(s) + (i - 1) < BufLen => Slot(e - n + i - 1) = Slot(s) + i - 1
             /\ Slot(s) + (i - 1) >= BufLen => Slot(e - n + i - 1) = Slot(s) + i - 1 - BufLen
  <2>1. i - 1 \in Nat /\ i - 1 <= BufLen
    BY <1>0
  <2>2. /\ Slot(s) + (i - 1) < BufLen => Slot(s + (i - 1)) = Slot(s) + (i - 1)
        /\ Slot(s) + (i - 1) >= BufLen => Slot(s + (i - 1)) = Slot(s) + (i - 1) - BufLen
    BY <1>0, <2>1, SlotStep
  <2> QED BY <1>0, <1>2, <2>1, <2>2
<1>6. CASE Slot(s) < Slot(e)
  <2>1. ASSUME NEW i \in 1 .. n PROVE buf[Slot(e - n + i - 1)] = buf[Slot(s) + i - 1]
    <3>1. Slot(s) + (i - 1) < BufLen
      BY <1>0, <1>4, <1>6
    <3> QED BY <1>5, <3>1
  <2>2. Slice(buf, e, n) = Part(buf, Slot(s), Slot(e) - Slot(s))
    BY <1>4, <1>6, <2>1 DEF Slice, Part
  <2> QED BY <1>0, <1>6, <2>2
<1>7. CASE Slot(s) >= Slot(e)
  <2> DEFINE first == Part(buf, Slot(s), BufLen - Slot(s))
             second == Part(buf, 0, Slot(e))
  <2>1. /\ first \in Seq(T) /\ Len(first) = BufLen - Slot(s)
        /\ \A i \in 1 .. BufLen - Slot(s) : first[i] = buf[Slot(s) + i - 1]
    <3>1. BufLen - Slot(s) \in Nat /\ first \in [1 .. BufLen - Slot(s) -> T]
      BY <1>0 DEF Part
    <3> HIDE DEF first
    <3>2. first \in Seq(T) /\ Len(first) = BufLen - Slot(s)
      BY <3>1, FunctionText
    <3> QED BY <3>2 DEF first, Part
  <2>2. /\ second \in Seq(T) /\ Len(second) = Slot(e)
        /\ \A i \in 1 .. Slot(e) : second[i] = buf[i - 1]
    <3>1. Slot(e) \in Nat /\ second \in [1 .. Slot(e) -> T]
      BY <1>0 DEF Part
    <3> HIDE DEF second
    <3>2. second \in Seq(T) /\ Len(second) = Slot(e)
      BY <3>1, FunctionText
    <3> QED BY <1>0, <3>2 DEF second, Part
  <2> HIDE DEF first, second
  <2>3. PICK l : l = first \o second
    OBVIOUS
  <2>4. /\ l \in Seq(T) /\ Len(l) = n
        /\ \A i \in 1 .. n : l[i] = IF i <= BufLen - Slot(s) THEN first[i]
                                    ELSE second[i - (BufLen - Slot(s))]
    <3>1. Len(first) + Len(second) = n
      BY <1>0, <1>4, <1>7, <2>1, <2>2
    <3>2. /\ l \in Seq(T) /\ Len(l) = Len(first) + Len(second)
          /\ \A i \in 1 .. Len(first) + Len(second) :
               l[i] = IF i <= Len(first) THEN first[i] ELSE second[i - Len(first)]
      BY <2>1, <2>2, <2>3, JoinedText
    <3> QED BY <2>1, <3>1, <3>2
  <2>5. ASSUME NEW i \in 1 .. n PROVE l[i] = buf[Slot(e - n + i - 1)]
    <3>1. CASE i <= BufLen - Slot(s)
      <4>1. Slot(s) + (i - 1) < BufLen /\ i \in 1 .. BufLen - Slot(s)
        BY <1>0, <3>1
      <4>2. Slot(e - n + i - 1) = Slot(s) + i - 1
        BY <1>5, <4>1
      <4>3. l[i] = first[i]
        BY <2>4, <3>1
      <4> QED BY <2>1, <4>1, <4>2, <4>3
    <3>2. CASE i > BufLen - Slot(s)
      <4>1. /\ i - (BufLen - Slot(s)) \in 1 .. Slot(e)
            /\ i - (BufLen - Slot(s)) - 1 = Slot(s) + i - 1 - BufLen
        BY <1>0, <1>4, <1>7, <3>2
      <4>2. Slot(e - n + i - 1) = Slot(s) + i - 1 - BufLen
        <5>1. Slot(s) + (i - 1) >= BufLen
          BY <1>0, <3>2
        <5> QED BY <1>5, <5>1
      <4>3. l[i] = second[i - (BufLen - Slot(s))]
        BY <1>0, <2>4, <3>2
      <4> QED BY <2>2, <4>1, <4>2, <4>3
    <3> QED BY <1>0, <3>1, <3>2
  <2>6. Slice(buf, e, n) = l
    <3>1. PICK r : r = Slice(buf, e, n)
      OBVIOUS
    <3>2. /\ r \in Seq(T) /\ Len(r) = n
          /\ \A i \in 1 .. n : r[i] = buf[Slot(e - n + i - 1)]
      <4>1. r \in Seq(T) /\ Len(r) = n
        BY <1>0, <3>1, SliceType
      <4> QED BY <3>1, <4>1 DEF Slice
    <3>3. r = l
      BY <2>4, <2>5, <3>2, SameText
    <3> QED BY <3>1, <3>3
  <2> QED BY <1>0, <1>7, <2>3, <2>6 DEF first, second
<1> QED BY <1>0, <1>6, <1>7

-----------------------------------------------------------------------------
(* The ring buffer. *)

(* The types; a writer that counts has loaded a count below BufLen. *)
DlogTyped ==
  /\ DlogTypeOK
  /\ flush_buf \in Texts /\ unsaved \in Texts /\ due \in Texts
  /\ \A w \in Writers : place[w] = "count" => reg[w] \in 0 .. BufLen - 1

AllIdle == \A w \in Writers : place[w] = "idle"

(* Calls that have not overlapped: at most one is at work on the buffer. *)
Alone ==
  /\ damaged # "yes" =>
       /\ \A w, v \in Writers : place[w] # "idle" /\ place[v] # "idle" => w = v
       /\ flusher \notin {"idle", "write"} => AllIdle
  /\ damaged = "healing" => flusher # "idle"

(* The ring is as it should be: again so from the end of a flush that ran  *)
(* alone.                                                                  *)
Clean == damaged = "no" \/ (damaged = "healing" /\ flusher = "write")

Distance == Int32(dlogbuf_end - dlogbuf_start)

(* The m characters in front of index e are the ones not saved. *)
Holds(e, m) == unsaved = Slice(dlog_buf, e, m)

OneMore == IF dlogged_chars < BufLen THEN dlogged_chars + 1 ELSE BufLen

(* What a writer that is alone finds at each place in dlogbuf_write(). *)
WriterAt(w) ==
  /\ place[w] = "put" => /\ reg[w] = dlogbuf_end /\ Distance = dlogged_chars
                         /\ Holds(dlogbuf_end, dlogged_chars)
  /\ place[w] = "load" => /\ Distance = dlogged_chars
                          /\ Holds(dlogbuf_end + 1, OneMore)
  /\ place[w] = "end" => /\ reg[w] = dlogbuf_end /\ Distance = dlogged_chars
                         /\ Holds(dlogbuf_end + 1, OneMore)
  /\ place[w] = "compare" => /\ reg[w] = dlogbuf_end /\ Distance = dlogged_chars + 1
                             /\ Holds(dlogbuf_end, OneMore)
  /\ place[w] = "start" => /\ reg[w] = dlogbuf_end /\ dlogged_chars = BufLen
                           /\ Holds(dlogbuf_end, BufLen)
  /\ place[w] = "chars" => Distance = OneMore /\ Holds(dlogbuf_end, OneMore)
  /\ place[w] = "count" => /\ reg[w] = dlogged_chars /\ dlogged_chars < BufLen
                           /\ Distance = dlogged_chars + 1
                           /\ Holds(dlogbuf_end, dlogged_chars + 1)

(* What the first memcpy() of usblog_flush() copies. *)
FirstPart ==
  LET start == DLOG_INDEX(dlogbuf_start) IN
  [i \in 1 .. (IF DlogWrapped THEN BufLen - start ELSE DLOG_INDEX(dlogbuf_end) - start)
     |-> dlog_buf[start + i - 1]]

(* What the daemon finds at each place in usblog_flush(). *)
FlusherAt ==
  /\ flusher \in {"idle", "copy", "wrap", "write"} /\ Clean /\ AllIdle =>
       Distance = dlogged_chars /\ Holds(dlogbuf_end, dlogged_chars)
  /\ flusher \in {"copy", "wrap"} /\ damaged = "no" => dlogged_chars # 0
  /\ flusher = "wrap" /\ damaged = "no" => flush_buf = FirstPart
  /\ flusher = "start" /\ damaged # "yes" => myend = dlogbuf_end /\ unsaved = <<>>
  /\ flusher = "chars" /\ damaged # "yes" => dlogbuf_start = dlogbuf_end /\ unsaved = <<>>
  /\ flusher \in {"start", "chars", "write"} /\ damaged = "no" => flush_buf = due

DlogIInv ==
  /\ DlogTyped /\ Alone /\ FlusherAt
  /\ Clean => \A w \in Writers : WriterAt(w)

LEMMA DlogInitIInv == DlogInit => DlogIInv
<1> SUFFICES ASSUME DlogInit PROVE DlogIInv
  OBVIOUS
<1>0. BufLen \in Nat /\ BufLen > 1 /\ 0 \in Ints
  BY RingConstants DEF Ints
<1>1. DlogTyped
  BY <1>0 DEF DlogInit, DlogTyped, DlogTypeOK, Texts, FlusherPlaces, WriterPlaces
<1>2. Distance = 0
  <2>1. Int32(0 - 0) = 0
    BY <1>0, DistanceFull
  <2> QED BY <2>1 DEF DlogInit, Distance
<1>3. Holds(dlogbuf_end, 0)
  BY <1>1, EmptySlice DEF DlogInit, Holds, DlogTyped, DlogTypeOK
<1>4. AllIdle /\ flusher = "idle" /\ damaged = "no" /\ dlogged_chars = 0
  BY DEF DlogInit, AllIdle
<1>5. \A w \in Writers : WriterAt(w)
  BY <1>4 DEF AllIdle, WriterAt
<1>6. Alone
  BY <1>4 DEF AllIdle, Alone
<1>7. FlusherAt
  BY <1>2, <1>3, <1>4 DEF FlusherAt
<1> QED BY <1>1, <1>5, <1>6, <1>7 DEF DlogIInv

(* Every step keeps the types. *)
LEMMA FirstPartType ==
  ASSUME DlogTypeOK
  PROVE  FirstPart \in Texts
<1> DEFINE s == DLOG_INDEX(dlogbuf_start)
           e == DLOG_INDEX(dlogbuf_end)
           k == IF DlogWrapped THEN BufLen - s ELSE e - s
<1>1. s \in 0 .. BufLen - 1 /\ e \in 0 .. BufLen - 1 /\ BufLen \in Nat
  <2>1. dlogbuf_start \in Int /\ dlogbuf_end \in Int
    BY RingConstants DEF DlogTypeOK, Ints
  <2> QED BY <2>1, SlotType, RingConstants DEF DLOG_INDEX, Slot
<1>2. k \in Nat /\ k <= BufLen - s
  BY <1>1 DEF DlogWrapped
<1>3. FirstPart = [i \in 1 .. k |-> dlog_buf[s + i - 1]]
  BY DEF FirstPart
<1> HIDE DEF s, e, k
<1>4. FirstPart \in [1 .. k -> Chars \cup {"nul"}]
  BY <1>1, <1>2, <1>3 DEF DlogTypeOK
<1> QED BY <1>2, <1>4, FunctionText DEF Texts

LEMMA LastType ==
  ASSUME NEW T, NEW s \in Seq(T), NEW c \in T
  PROVE  Last(Append(s, c)) \in Seq(T)
BY RingConstants DEF Last

LEMMA DlogTypedStep == DlogTyped /\ [DlogNext]_dlogVars => DlogTyped'
<1> SUFFICES ASSUME DlogTyped, [DlogNext]_dlogVars PROVE DlogTyped'
  OBVIOUS
<1>0. /\ BufLen \in Nat /\ BufLen > 1 /\ 0 \in Ints
      /\ \A i \in 0 .. BufLen - 1 : i \in Ints /\ i + 1 \in 0 .. BufLen
      /\ \A i \in Ints : /\ i \in Int /\ Int32(i + 1) \in Ints
                         /\ Int32(i - BufLen) \in Ints
  <2>1. /\ BufLen \in Nat /\ BufLen > 1 /\ 0 \in Ints
        /\ \A i \in 0 .. BufLen - 1 : i \in Ints /\ i + 1 \in 0 .. BufLen
        /\ \A i \in Ints : /\ i \in Int /\ i + 1 \in -3 * Half .. 3 * Half - 1
                           /\ i - BufLen \in -3 * Half .. 3 * Half - 1
    BY RingConstants DEF Ints
  <2> QED BY <2>1, Int32Type
<1> USE DEF DlogTyped, DlogTypeOK, WriterPlaces, FlusherPlaces, WriterTo
<1>1. ASSUME NEW w \in Writers, NEW c \in Chars, DlogPut(w, c) PROVE DlogTyped'
  <2>1. unsaved' \in Texts
    BY <1>1, LastType DEF DlogPut, Texts
  <2>2. \A i \in 1 .. Len(unsaved') : unsaved'[i] \in Chars \cup {"nul"}
    BY <2>1 DEF Texts
  <2>3. dlog_buf' \in [0 .. BufLen - 1 -> Chars \cup {"nul"}]
    BY <1>1 DEF DlogPut
  <2> QED BY <1>1, <2>1, <2>2, <2>3 DEF DlogPut, flush
<1>2. ASSUME NEW w \in Writers, IncEnd(w) PROVE DlogTyped'
  BY <1>0, <1>2 DEF IncEnd, flush
<1>3. ASSUME NEW w \in Writers, Compare(w) PROVE DlogTyped'
  BY <1>3 DEF Compare, flush, ring
<1>4. ASSUME NEW w \in Writers, SetStart(w) PROVE DlogTyped'
  BY <1>0, <1>4 DEF SetStart, flush
<1>5. ASSUME NEW w \in Writers, LoadChars(w) PROVE DlogTyped'
  <2>1. CASE dlogged_chars < BufLen
    <3>1. dlogged_chars \in 0 .. BufLen - 1 /\ dlogged_chars \in Ints
      BY <1>0, <2>1
    <3> QED BY <1>5, <2>1, <3>1 DEF LoadChars, flush, ring
  <2>2. CASE ~(dlogged_chars < BufLen)
    BY <1>0, <1>5, <2>2 DEF LoadChars, flush, ring
  <2> QED BY <2>1, <2>2
<1>6. ASSUME NEW w \in Writers, Count(w) PROVE DlogTyped'
  BY <1>0, <1>6 DEF Count, flush
<1>7. CASE Flush
  BY <1>7 DEF Flush, ring
<1>8. CASE CopyFirst
  <2>1. flush_buf' = FirstPart /\ flush_buf' \in Texts
    BY <1>8, FirstPartType DEF CopyFirst, FirstPart
  <2>2. \A i \in 1 .. Len(flush_buf') : flush_buf'[i] \in Chars \cup {"nul"}
    BY <2>1 DEF Texts
  <2> QED BY <1>8, <2>1, <2>2 DEF CopyFirst, ring
<1>9. CASE CopyWrapped
  <2> DEFINE second == [i \in 1 .. DLOG_INDEX(dlogbuf_end) |-> dlog_buf[i - 1]]
  <2>1. second \in Texts
    <3>1. DLOG_INDEX(dlogbuf_end) \in 0 .. BufLen - 1
      BY <1>0, SlotType DEF DLOG_INDEX, Slot
    <3>2. DLOG_INDEX(dlogbuf_end) \in Nat /\
          second \in [1 .. DLOG_INDEX(dlogbuf_end) -> Chars \cup {"nul"}]
      BY <1>0, <3>1
    <3> HIDE DEF second
    <3> QED BY <3>2, FunctionText DEF Texts
  <2>2. flush_buf' \in Texts
    <3>1. flush_buf' = flush_buf \o second \/ flush_buf' = flush_buf
      BY <1>9 DEF CopyWrapped
    <3> HIDE DEF second
    <3>2. flush_buf \o second \in Texts
      BY <2>1 DEF Texts
    <3> QED BY <3>1, <3>2
  <2>3. due' = unsaved /\ unsaved' = <<>> /\ unsaved' \in Texts
    BY <1>9 DEF CopyWrapped, Texts
  <2>4. \A s \in {flush_buf', unsaved', due'} :
          \A i \in 1 .. Len(s) : s[i] \in Chars \cup {"nul"}
    BY <2>2, <2>3 DEF Texts
  <2> HIDE DEF second
  <2> QED BY <1>9, <2>2, <2>3, <2>4 DEF CopyWrapped, ring
<1>10. CASE Empty
  BY <1>0, <1>10 DEF Empty
<1>11. CASE ClearChars
  BY <1>0, <1>11 DEF ClearChars
<1>12. CASE FlushWrite
  BY <1>12 DEF FlushWrite, ring, Texts
<1>13. ASSUME NEW w \in Writers, LoadIndex(w) \/ LoadEnd(w) PROVE DlogTyped'
  BY <1>13 DEF LoadIndex, LoadEnd, flush, ring
<1>14. CASE UNCHANGED dlogVars
  BY <1>14 DEF dlogVars, ring, flush
<1> QED
  BY <1>1, <1>2, <1>3, <1>4, <1>5, <1>6, <1>7, <1>8, <1>9, <1>10, <1>11, <1>12,
     <1>13, <1>14 DEF DlogNext

(* Once calls overlap, nothing but the types is claimed. *)
LEMMA DamagedStep == ASSUME DlogTyped', damaged' = "yes" PROVE DlogIInv'
BY DEF DlogIInv, Alone, Clean, FlusherAt

(* A call that works alone meets a clean ring and an idle daemon. *)
LEMMA WriterAlone ==
  ASSUME DlogIInv, damaged # "yes", NEW w \in Writers, place[w] # "idle"
  PROVE  /\ Clean /\ flusher \in {"idle", "write"} /\ WriterAt(w)
         /\ \A v \in Writers : v # w => place[v] = "idle"
<1>1. flusher \in {"idle", "write"}
  BY DEF DlogIInv, Alone, AllIdle
<1>2. damaged = "no" \/ damaged = "healing"
  BY DEF DlogIInv, DlogTyped, DlogTypeOK
<1>3. Clean
  BY <1>1, <1>2 DEF DlogIInv, Alone, Clean
<1> QED BY <1>1, <1>3 DEF DlogIInv, Alone

(* A step of a call that works alone. *)
LEMMA WriterStep ==
  ASSUME DlogIInv, DlogTyped', NEW w \in Writers, NEW to,
         Clean, flusher \in {"idle", "write"},
         \A v \in Writers : v # w => place[v] = "idle",
         WriterTo(w, to), UNCHANGED <<flush, damaged>>,
         WriterAt(w)',
         to = "idle" => (Distance = dlogged_chars /\ Holds(dlogbuf_end, dlogged_chars))'
  PROVE  DlogIInv'
<1>1. \A v \in Writers : v # w => place'[v] = "idle"
  BY DEF WriterTo, DlogIInv, DlogTyped, DlogTypeOK
<1>2. place'[w] = to
  BY DEF WriterTo, DlogIInv, DlogTyped, DlogTypeOK
<1>3. flusher' = flusher /\ damaged' = damaged /\ flush_buf' = flush_buf /\ due' = due
  BY DEF flush
<1>4. Clean' /\ flusher' \in {"idle", "write"}
  BY <1>3 DEF Clean
<1>5. Alone'
  BY <1>1, <1>3, <1>4 DEF Alone, DlogIInv
<1>6. \A v \in Writers : WriterAt(v)'
  BY <1>1 DEF WriterAt
<1>7. FlusherAt'
  <2>1. AllIdle' => (Distance = dlogged_chars /\ Holds(dlogbuf_end, dlogged_chars))'
    BY <1>2 DEF AllIdle
  <2>2. flusher' = "write" /\ damaged' = "no" => flush_buf' = due'
    BY <1>3 DEF DlogIInv, FlusherAt
  <2> QED BY <1>4, <2>1, <2>2 DEF FlusherAt
<1> QED BY <1>4, <1>5, <1>6, <1>7 DEF DlogIInv

(* dlogbuf_write(), step by step. *)
LEMMA LoadIndexStep ==
  ASSUME DlogIInv, DlogTyped', NEW w \in Writers, LoadIndex(w)
  PROVE  DlogIInv'
<1>1. CASE damaged' = "yes"
  BY <1>1, DamagedStep
<1>2. CASE damaged' # "yes"
  <2>1. Quiet /\ damaged' = damaged /\ damaged # "yes"
    BY <1>2 DEF LoadIndex
  <2>2. AllIdle /\ flusher \in {"idle", "write"}
    BY <2>1 DEF Quiet, AllIdle
  <2>3. Clean
    BY <2>1, <2>2 DEF Clean, DlogIInv, Alone, DlogTyped, DlogTypeOK
  <2>4. Distance = dlogged_chars /\ Holds(dlogbuf_end, dlogged_chars)
    BY <2>2, <2>3 DEF DlogIInv, FlusherAt
  <2>5. /\ UNCHANGED <<dlog_buf, dlogbuf_start, dlogbuf_end, dlogged_chars, unsaved, flush>>
        /\ place'[w] = "put" /\ reg'[w] = dlogbuf_end /\ WriterTo(w, "put")
    BY DEF LoadIndex, WriterTo, DlogIInv, DlogTyped, DlogTypeOK, ring
  <2>6. WriterAt(w)'
    BY <2>4, <2>5 DEF WriterAt, Distance, Holds
  <2>7. \A v \in Writers : v # w => place[v] = "idle"
    BY <2>2 DEF AllIdle
  <2> QED BY <2>1, <2>2, <2>3, <2>5, <2>6, <2>7, WriterStep
<1> QED BY <1>1, <1>2

LEMMA DlogPutStep ==
  ASSUME DlogIInv, DlogTyped', NEW w \in Writers, NEW c \in Chars, DlogPut(w, c)
  PROVE  DlogIInv'
<1>1. damaged' = damaged
  BY DEF DlogPut
<1>2. CASE damaged = "yes"
  BY <1>1, <1>2, DamagedStep
<1>3. CASE damaged # "yes"
  <2>1. place[w] = "put"
    BY DEF DlogPut
  <2>2. /\ Clean /\ flusher \in {"idle", "write"} /\ WriterAt(w)
        /\ \A v \in Writers : v # w => place[v] = "idle"
    BY <1>3, <2>1, WriterAlone
  <2>3. /\ reg[w] = dlogbuf_end /\ Distance = dlogged_chars
        /\ Holds(dlogbuf_end, dlogged_chars)
    BY <2>1, <2>2 DEF WriterAt
  <2>4. /\ UNCHANGED <<dlogbuf_start, dlogbuf_end, dlogged_chars, flush, damaged>>
        /\ place'[w] = "load" /\ WriterTo(w, "load")
    BY DEF DlogPut, WriterTo, DlogIInv, DlogTyped, DlogTypeOK
  <2>5. Distance' = dlogged_chars'
    BY <2>3, <2>4 DEF Distance
  <2>6. Holds(dlogbuf_end + 1, OneMore)'
    <3>1. /\ dlog_buf \in [0 .. BufLen - 1 -> Chars \cup {"nul"}]
          /\ dlogbuf_end \in Int /\ dlogged_chars \in 0 .. BufLen
          /\ c \in Chars \cup {"nul"}
      BY RingConstants DEF DlogIInv, DlogTyped, DlogTypeOK, Ints
    <3>2. Slice([dlog_buf EXCEPT ![Slot(dlogbuf_end)] = c], dlogbuf_end + 1, OneMore)
            = Last(Append(Slice(dlog_buf, dlogbuf_end, dlogged_chars), c))
      BY <3>1, SlicePut, ZenonT(60) DEF OneMore
    <3>3. /\ dlog_buf' = [dlog_buf EXCEPT ![Slot(dlogbuf_end)] = c]
          /\ unsaved' = Last(Append(unsaved, c))
      BY <2>3 DEF DlogPut, DLOG_INDEX, Slot
    <3>4. OneMore' = OneMore
      BY <2>4 DEF OneMore
    <3> QED BY <2>3, <2>4, <3>2, <3>3, <3>4 DEF Holds
  <2>7. WriterAt(w)'
    BY <2>4, <2>5, <2>6 DEF WriterAt
  <2> QED BY <2>2, <2>4, <2>7, WriterStep
<1> QED BY <1>2, <1>3

LEMMA LoadEndStep ==
  ASSUME DlogIInv, DlogTyped', NEW w \in Writers, LoadEnd(w)
  PROVE  DlogIInv'
<1>1. damaged' = damaged
  BY DEF LoadEnd
<1>2. CASE damaged = "yes"
  BY <1>1, <1>2, DamagedStep
<1>3. CASE damaged # "yes"
  <2>1. place[w] = "load"
    BY DEF LoadEnd
  <2>2. /\ Clean /\ flusher \in {"idle", "write"} /\ WriterAt(w)
        /\ \A v \in Writers : v # w => place[v] = "idle"
    BY <1>3, <2>1, WriterAlone
  <2>3. Distance = dlogged_chars /\ Holds(dlogbuf_end + 1, OneMore)
    BY <2>1, <2>2 DEF WriterAt
  <2>4. /\ UNCHANGED <<dlog_buf, dlogbuf_start, dlogbuf_end, dlogged_chars, flush, unsaved,
                       damaged>>
        /\ place'[w] = "end" /\ reg'[w] = dlogbuf_end /\ WriterTo(w, "end")
    BY DEF LoadEnd, WriterTo, DlogIInv, DlogTyped, DlogTypeOK, ring
  <2>5. WriterAt(w)'
    BY <2>3, <2>4 DEF WriterAt, Distance, Holds, OneMore
  <2> QED BY <2>2, <2>4, <2>5, WriterStep
<1> QED BY <1>2, <1>3

LEMMA IncEndStep ==
  ASSUME DlogIInv, DlogTyped', NEW w \in Writers, IncEnd(w)
  PROVE  DlogIInv'
<1>1. damaged' = damaged
  BY DEF IncEnd
<1>2. CASE damaged = "yes"
  BY <1>1, <1>2, DamagedStep
<1>3. CASE damaged # "yes"
  <2>1. place[w] = "end"
    BY DEF IncEnd
  <2>2. /\ Clean /\ flusher \in {"idle", "write"} /\ WriterAt(w)
        /\ \A v \in Writers : v # w => place[v] = "idle"
    BY <1>3, <2>1, WriterAlone
  <2>3. /\ reg[w] = dlogbuf_end /\ Distance = dlogged_chars
        /\ Holds(dlogbuf_end + 1, OneMore)
    BY <2>1, <2>2 DEF WriterAt
  <2>4. /\ UNCHANGED <<dlog_buf, dlogbuf_start, dlogged_chars, flush, unsaved, damaged>>
        /\ place'[w] = "compare" /\ dlogbuf_end' = Int32(dlogbuf_end + 1)
        /\ reg'[w] = dlogbuf_end' /\ WriterTo(w, "compare")
    BY <2>3 DEF IncEnd, WriterTo, DlogIInv, DlogTyped, DlogTypeOK
  <2>5. /\ dlogbuf_start \in Ints /\ dlogbuf_end \in Ints
        /\ dlogged_chars \in 0 .. BufLen /\ OneMore \in Nat
        /\ dlogbuf_end + 1 \in -3 * Half .. 3 * Half - 1
    BY RingConstants DEF DlogIInv, DlogTyped, DlogTypeOK, Ints, OneMore
  <2>6. Distance' = dlogged_chars' + 1
    BY <2>3, <2>4, <2>5, DistanceAfter DEF Distance
  <2>7. Holds(dlogbuf_end, OneMore)'
    <3>1. OneMore' = OneMore
      BY <2>4 DEF OneMore
    <3> QED BY <2>3, <2>4, <2>5, <3>1, SliceInt32 DEF Holds
  <2>8. WriterAt(w)'
    BY <2>4, <2>6, <2>7 DEF WriterAt
  <2> QED BY <2>2, <2>4, <2>8, WriterStep
<1> QED BY <1>2, <1>3

LEMMA CompareStep ==
  ASSUME DlogIInv, DlogTyped', NEW w \in Writers, Compare(w)
  PROVE  DlogIInv'
<1>1. damaged' = damaged
  BY DEF Compare
<1>2. CASE damaged = "yes"
  BY <1>1, <1>2, DamagedStep
<1>3. CASE damaged # "yes"
  <2>1. place[w] = "compare"
    BY DEF Compare
  <2>2. /\ Clean /\ flusher \in {"idle", "write"} /\ WriterAt(w)
        /\ \A v \in Writers : v # w => place[v] = "idle"
    BY <1>3, <2>1, WriterAlone
  <2>3. /\ reg[w] = dlogbuf_end /\ Distance = dlogged_chars + 1
        /\ Holds(dlogbuf_end, OneMore)
    BY <2>1, <2>2 DEF WriterAt
  <2>4. UNCHANGED <<ring, reg, flush, unsaved, damaged>>
    BY DEF Compare
  <2>5. PICK to : /\ to = IF Distance > BufLen THEN "start" ELSE "chars"
                  /\ WriterTo(w, to)
    BY <2>3 DEF Compare, Distance
  <2>6. place'[w] = to
    BY <2>5 DEF WriterTo, DlogIInv, DlogTyped, DlogTypeOK
  <2>7. BufLen \in Nat /\ dlogged_chars \in 0 .. BufLen
    BY RingConstants DEF DlogIInv, DlogTyped, DlogTypeOK
  <2>8. /\ reg'[w] = dlogbuf_end' /\ Distance' = dlogged_chars + 1
        /\ dlogged_chars' = dlogged_chars
        /\ Holds(dlogbuf_end, OneMore)' /\ OneMore' = OneMore
    BY <2>3, <2>4 DEF ring, Distance, Holds, OneMore
  <2>9. WriterAt(w)'
    <3>1. CASE Distance > BufLen
      <4>1. dlogged_chars = BufLen /\ OneMore = BufLen
        BY <2>3, <2>7, <3>1 DEF OneMore
      <4>2. Holds(dlogbuf_end, BufLen)'
        BY <2>8, <4>1 DEF Holds
      <4> QED BY <2>5, <2>6, <2>8, <3>1, <4>1, <4>2 DEF WriterAt
    <3>2. CASE ~(Distance > BufLen)
      <4>1. OneMore = dlogged_chars + 1
        BY <2>3, <2>7, <3>2 DEF OneMore
      <4> QED BY <2>5, <2>6, <2>8, <3>2, <4>1 DEF WriterAt
    <3> QED BY <3>1, <3>2
  <2>10. to # "idle"
    BY <2>5
  <2> QED BY <2>2, <2>4, <2>5, <2>9, <2>10, WriterStep
<1> QED BY <1>2, <1>3

LEMMA SetStartStep ==
  ASSUME DlogIInv, DlogTyped', NEW w \in Writers, SetStart(w)
  PROVE  DlogIInv'
<1>1. damaged' = damaged
  BY DEF SetStart
<1>2. CASE damaged = "yes"
  BY <1>1, <1>2, DamagedStep
<1>3. CASE damaged # "yes"
  <2>1. place[w] = "start"
    BY DEF SetStart
  <2>2. /\ Clean /\ flusher \in {"idle", "write"} /\ WriterAt(w)
        /\ \A v \in Writers : v # w => place[v] = "idle"
    BY <1>3, <2>1, WriterAlone
  <2>3. /\ reg[w] = dlogbuf_end /\ dlogged_chars = BufLen
        /\ Holds(dlogbuf_end, BufLen)
    BY <2>1, <2>2 DEF WriterAt
  <2>4. /\ UNCHANGED <<dlog_buf, dlogbuf_end, dlogged_chars, reg, flush, unsaved, damaged>>
        /\ place'[w] = "chars" /\ dlogbuf_start' = Int32(dlogbuf_end - BufLen)
        /\ WriterTo(w, "chars")
    BY <2>3 DEF SetStart, WriterTo, DlogIInv, DlogTyped, DlogTypeOK
  <2>5. dlogbuf_end \in Ints
    BY DEF DlogIInv, DlogTyped, DlogTypeOK
  <2>6. Distance' = BufLen
    BY <2>4, <2>5, DistanceFull DEF Distance
  <2>7. OneMore' = BufLen
    BY <2>3, <2>4, RingConstants DEF OneMore
  <2>8. Holds(dlogbuf_end, OneMore)'
    BY <2>3, <2>4, <2>7 DEF Holds
  <2>9. WriterAt(w)'
    BY <2>4, <2>6, <2>7, <2>8 DEF WriterAt
  <2> QED BY <2>2, <2>4, <2>9, WriterStep
<1> QED BY <1>2, <1>3

LEMMA LoadCharsStep ==
  ASSUME DlogIInv, DlogTyped', NEW w \in Writers, LoadChars(w)
  PROVE  DlogIInv'
<1>1. damaged' = damaged
  BY DEF LoadChars
<1>2. CASE damaged = "yes"
  BY <1>1, <1>2, DamagedStep
<1>3. CASE damaged # "yes"
  <2>1. place[w] = "chars"
    BY DEF LoadChars
  <2>2. /\ Clean /\ flusher \in {"idle", "write"} /\ WriterAt(w)
        /\ \A v \in Writers : v # w => place[v] = "idle"
    BY <1>3, <2>1, WriterAlone
  <2>3. Distance = OneMore /\ Holds(dlogbuf_end, OneMore)
    BY <2>1, <2>2 DEF WriterAt
  <2>4. UNCHANGED <<ring, flush, unsaved, damaged>>
    BY DEF LoadChars
  <2>5. BufLen \in Nat /\ dlogged_chars \in 0 .. BufLen
    BY RingConstants DEF DlogIInv, DlogTyped, DlogTypeOK
  <2>6. /\ Distance' = OneMore /\ dlogged_chars' = dlogged_chars
        /\ \A m : Holds(dlogbuf_end, m)' <=> Holds(dlogbuf_end, m)
    BY <2>3, <2>4 DEF ring, Distance, Holds
  <2>7. CASE dlogged_chars < BufLen
    <3>1. WriterTo(w, "count") /\ place'[w] = "count" /\ reg'[w] = dlogged_chars
      BY <2>7 DEF LoadChars, WriterTo, DlogIInv, DlogTyped, DlogTypeOK
    <3>2. OneMore = dlogged_chars + 1
      BY <2>7 DEF OneMore
    <3>3. WriterAt(w)'
      BY <2>3, <2>6, <2>7, <3>1, <3>2 DEF WriterAt
    <3> QED BY <2>2, <2>4, <3>1, <3>3, WriterStep
  <2>8. CASE ~(dlogged_chars < BufLen)
    <3>1. WriterTo(w, "idle") /\ place'[w] = "idle"
      BY <2>8 DEF LoadChars, WriterTo, DlogIInv, DlogTyped, DlogTypeOK
    <3>2. OneMore = dlogged_chars
      BY <2>5, <2>8 DEF OneMore
    <3>3. (Distance = dlogged_chars /\ Holds(dlogbuf_end, dlogged_chars))'
      BY <2>3, <2>6, <3>2
    <3>4. WriterAt(w)'
      BY <3>1 DEF WriterAt
    <3> QED BY <2>2, <2>4, <3>1, <3>3, <3>4, WriterStep
  <2> QED BY <2>7, <2>8
<1> QED BY <1>2, <1>3

LEMMA CountStep ==
  ASSUME DlogIInv, DlogTyped', NEW w \in Writers, Count(w)
  PROVE  DlogIInv'
<1>1. damaged' = damaged
  BY DEF Count
<1>2. CASE damaged = "yes"
  BY <1>1, <1>2, DamagedStep
<1>3. CASE damaged # "yes"
  <2>1. place[w] = "count"
    BY DEF Count
  <2>2. /\ Clean /\ flusher \in {"idle", "write"} /\ WriterAt(w)
        /\ \A v \in Writers : v # w => place[v] = "idle"
    BY <1>3, <2>1, WriterAlone
  <2>3. /\ reg[w] = dlogged_chars /\ Distance = dlogged_chars + 1
        /\ Holds(dlogbuf_end, dlogged_chars + 1)
    BY <2>1, <2>2 DEF WriterAt
  <2>4. /\ UNCHANGED <<dlog_buf, dlogbuf_start, dlogbuf_end, flush, unsaved, damaged>>
        /\ place'[w] = "idle" /\ dlogged_chars' = dlogged_chars + 1
        /\ WriterTo(w, "idle")
    BY <2>3 DEF Count, WriterTo, DlogIInv, DlogTyped, DlogTypeOK
  <2>5. (Distance = dlogged_chars /\ Holds(dlogbuf_end, dlogged_chars))'
    BY <2>3, <2>4 DEF Distance, Holds
  <2>6. WriterAt(w)'
    BY <2>4 DEF WriterAt
  <2> QED BY <2>2, <2>4, <2>5, <2>6, WriterStep
<1> QED BY <1>2, <1>3

(* usblog_flush(), step by step: no writer is at work unless the flush is  *)
(* damaged.                                                                *)
LEMMA FlushStep ==
  ASSUME DlogIInv, DlogTyped', Flush
  PROVE  DlogIInv'
<1>1. CASE damaged' = "yes"
  BY <1>1, DamagedStep
<1>2. CASE damaged' # "yes"
  <2>1. /\ Quiet /\ flusher = "idle" /\ flusher' = "copy" /\ dlogged_chars # 0
        /\ damaged' = IF damaged = "yes" THEN "healing" ELSE damaged
        /\ UNCHANGED <<ring, place, reg, unsaved>>
    BY <1>2 DEF Flush
  <2>2. AllIdle /\ AllIdle'
    BY <2>1 DEF Quiet, AllIdle
  <2>3. Alone'
    BY <2>1, <2>2 DEF Alone, AllIdle
  <2>4. \A w \in Writers : WriterAt(w)'
    BY <2>2 DEF WriterAt, AllIdle
  <2>5. damaged' = "no" => damaged = "no"
    BY <2>1
  <2>6. Clean' => Clean
    BY <2>1, <2>5 DEF Clean
  <2>7. Clean' => Distance' = dlogged_chars' /\ Holds(dlogbuf_end, dlogged_chars)'
    BY <2>1, <2>2, <2>6 DEF DlogIInv, FlusherAt, Distance, Holds, ring
  <2>8. FlusherAt'
    BY <2>1, <2>7 DEF FlusherAt, ring
  <2> QED BY <2>3, <2>4, <2>8 DEF DlogIInv
<1> QED BY <1>1, <1>2

(* A step of a flush that runs alone. *)
LEMMA FlusherStep ==
  ASSUME DlogIInv, DlogTyped', flusher \in {"copy", "wrap", "start", "chars"},
         UNCHANGED <<place, damaged>>, flusher' # "idle",
         damaged # "yes" /\ AllIdle /\ AllIdle' => FlusherAt'
  PROVE  DlogIInv'
<1>1. CASE damaged = "yes"
  BY <1>1, DamagedStep
<1>2. CASE damaged # "yes"
  <2>1. AllIdle /\ AllIdle'
    BY <1>2 DEF DlogIInv, Alone, AllIdle
  <2>2. Alone'
    BY <2>1 DEF Alone, AllIdle
  <2>3. \A w \in Writers : WriterAt(w)'
    BY <2>1 DEF WriterAt, AllIdle
  <2> QED BY <1>2, <2>1, <2>2, <2>3 DEF DlogIInv
<1> QED BY <1>1, <1>2

LEMMA CopyFirstStep ==
  ASSUME DlogIInv, DlogTyped', CopyFirst
  PROVE  DlogIInv'
<1>1. /\ flusher = "copy" /\ flusher' = "wrap" /\ flush_buf' = FirstPart
      /\ UNCHANGED <<dlog_buf, dlogbuf_start, dlogbuf_end, dlogged_chars, place,
                     damaged, unsaved>>
  BY DEF CopyFirst, FirstPart, ring
<1>2. FirstPart' = FirstPart
  BY <1>1 DEF FirstPart, DlogWrapped
<1>3. Distance' = Distance /\ (Holds(dlogbuf_end, dlogged_chars)' <=> Holds(dlogbuf_end, dlogged_chars))
  BY <1>1 DEF Distance, Holds
<1>4. Clean' => Clean
  BY <1>1 DEF Clean
<1>5. damaged # "yes" /\ AllIdle => FlusherAt'
  BY <1>1, <1>2, <1>3, <1>4 DEF DlogIInv, FlusherAt
<1> QED BY <1>1, <1>5, FlusherStep

(* The two parts are the whole. *)
LEMMA CopyWrappedStep ==
  ASSUME DlogIInv, DlogTyped', CopyWrapped
  PROVE  DlogIInv'
<1> DEFINE second == [i \in 1 .. DLOG_INDEX(dlogbuf_end) |-> dlog_buf[i - 1]]
<1>1. /\ flusher = "wrap" /\ flusher' = "start"
      /\ flush_buf' = IF DlogWrapped THEN flush_buf \o second ELSE flush_buf
      /\ myend' = dlogbuf_end /\ due' = unsaved /\ unsaved' = <<>>
      /\ UNCHANGED <<dlogbuf_end, place, damaged>>
  BY DEF CopyWrapped, ring
<1>2. ASSUME damaged = "no", AllIdle PROVE flush_buf' = due'
  <2>1. /\ Distance = dlogged_chars /\ Holds(dlogbuf_end, dlogged_chars)
        /\ dlogged_chars # 0 /\ flush_buf = FirstPart
    BY <1>1, <1>2 DEF DlogIInv, FlusherAt, Clean
  <2>2. /\ dlog_buf \in [0 .. BufLen - 1 -> Chars \cup {"nul"}]
        /\ dlogbuf_start \in Ints /\ dlogbuf_end \in Ints
        /\ dlogged_chars \in 1 .. BufLen
        /\ dlogbuf_start \in Int /\ dlogbuf_end \in Int
    BY <2>1, RingConstants DEF DlogIInv, DlogTyped, DlogTypeOK, Ints
  <2> DEFINE s == Slot(dlogbuf_start)
             e == Slot(dlogbuf_end)
             whole == Slice(dlog_buf, dlogbuf_end, dlogged_chars)
  <2>3. /\ s < e => whole = Part(dlog_buf, s, e - s)
        /\ s >= e => whole = Part(dlog_buf, s, BufLen - s) \o Part(dlog_buf, 0, e)
    BY <2>1, <2>2, SliceRead DEF Distance
  <2>4. s \in Int /\ e \in Int
    BY <2>2, SlotType
  <2>5. DlogWrapped <=> s >= e
    BY DEF DlogWrapped, DLOG_INDEX, Slot
  <2>6. /\ DlogWrapped => FirstPart = Part(dlog_buf, s, BufLen - s)
        /\ ~DlogWrapped => FirstPart = Part(dlog_buf, s, e - s)
        /\ second = Part(dlog_buf, 0, e)
    BY DEF FirstPart, DLOG_INDEX, Slot, Part
  <2>7. due' = whole
    BY <1>1, <2>1 DEF Holds
  <2> HIDE DEF s, e, whole, second
  <2>8. CASE DlogWrapped
    BY <1>1, <2>1, <2>3, <2>5, <2>6, <2>7, <2>8
  <2>9. CASE ~DlogWrapped
    BY <1>1, <2>1, <2>3, <2>4, <2>5, <2>6, <2>7, <2>9
  <2> QED BY <2>8, <2>9
<1> HIDE DEF second
<1>3. damaged # "yes" /\ AllIdle => FlusherAt'
  BY <1>1, <1>2 DEF FlusherAt, Clean
<1> QED BY <1>1, <1>3, FlusherStep

LEMMA EmptyStep ==
  ASSUME DlogIInv, DlogTyped', Empty
  PROVE  DlogIInv'
<1>1. /\ flusher = "start" /\ flusher' = "chars" /\ dlogbuf_start' = myend
      /\ UNCHANGED <<dlogbuf_end, place, damaged, unsaved, flush_buf, due>>
  BY DEF Empty
<1>2. damaged # "yes" => FlusherAt'
  BY <1>1 DEF DlogIInv, FlusherAt, Clean
<1> QED BY <1>1, <1>2, FlusherStep

LEMMA ClearCharsStep ==
  ASSUME DlogIInv, DlogTyped', ClearChars
  PROVE  DlogIInv'
<1>1. /\ flusher = "chars" /\ flusher' = "write" /\ dlogged_chars' = 0
      /\ UNCHANGED <<dlog_buf, dlogbuf_start, dlogbuf_end, place, damaged, unsaved,
                     flush_buf, due>>
  BY DEF ClearChars
<1>2. ASSUME damaged # "yes" PROVE FlusherAt'
  <2>1. dlogbuf_start = dlogbuf_end /\ unsaved = <<>>
    BY <1>1, <1>2 DEF DlogIInv, FlusherAt
  <2>2. Distance' = 0
    <3>1. dlogbuf_end \in Ints
      BY DEF DlogIInv, DlogTyped, DlogTypeOK
    <3> QED BY <1>1, <2>1, <3>1, DistanceFull DEF Distance
  <2>3. Holds(dlogbuf_end, dlogged_chars)'
    BY <1>1, <2>1, EmptySlice DEF Holds
  <2> QED BY <1>1, <2>2, <2>3 DEF DlogIInv, FlusherAt
<1> QED BY <1>1, <1>2, FlusherStep

LEMMA FlushWriteStep ==
  ASSUME DlogIInv, DlogTyped', FlushWrite
  PROVE  DlogIInv'
<1>1. /\ flusher = "write" /\ flusher' = "idle"
      /\ damaged' = IF damaged = "healing" THEN "no" ELSE damaged
      /\ UNCHANGED <<ring, place, reg, unsaved>>
  BY DEF FlushWrite
<1>2. CASE damaged = "yes"
  BY <1>1, <1>2, DamagedStep
<1>3. CASE damaged # "yes"
  <2>1. damaged' = "no" /\ Clean /\ (AllIdle' <=> AllIdle)
    BY <1>1, <1>3 DEF Clean, AllIdle, DlogIInv, DlogTyped, DlogTypeOK
  <2>2. Alone'
    BY <1>1, <1>3, <2>1 DEF Alone, DlogIInv
  <2>3. ASSUME NEW w \in Writers PROVE WriterAt(w)'
    <3>1. WriterAt(w)
      BY <2>1 DEF DlogIInv
    <3> QED BY <1>1, <3>1 DEF WriterAt, Distance, Holds, OneMore, ring
  <2>4. FlusherAt'
    <3>1. AllIdle' => Distance = dlogged_chars /\ Holds(dlogbuf_end, dlogged_chars)
      BY <1>1, <2>1 DEF DlogIInv, FlusherAt
    <3>2. AllIdle' => (Distance = dlogged_chars /\ Holds(dlogbuf_end, dlogged_chars))'
      BY <1>1, <3>1 DEF Distance, Holds, ring
    <3> QED BY <1>1, <3>2 DEF FlusherAt
  <2> QED BY <2>2, <2>3, <2>4 DEF DlogIInv
<1> QED BY <1>2, <1>3

LEMMA DlogIInvInductive == DlogIInv /\ [DlogNext]_dlogVars => DlogIInv'
<1> SUFFICES ASSUME DlogIInv, [DlogNext]_dlogVars PROVE DlogIInv'
  OBVIOUS
<1>1. DlogTyped'
  BY DlogTypedStep DEF DlogIInv
<1>2. CASE UNCHANGED dlogVars
  <2>1. UNCHANGED <<dlog_buf, dlogbuf_start, dlogbuf_end, dlogged_chars, place, reg,
                    flusher, myend, flush_buf, due, unsaved, damaged>>
    BY <1>2 DEF dlogVars, ring, flush
  <2>2. (Clean' <=> Clean) /\ (AllIdle' <=> AllIdle) /\ FirstPart' = FirstPart
    BY <2>1 DEF Clean, AllIdle, FirstPart, DlogWrapped
  <2>3. Alone'
    BY <2>1, <2>2 DEF DlogIInv, Alone
  <2>4. FlusherAt'
    <3>1. /\ Distance' = Distance
          /\ Holds(dlogbuf_end, dlogged_chars)' <=> Holds(dlogbuf_end, dlogged_chars)
      BY <2>1 DEF Distance, Holds
    <3> QED BY <2>1, <2>2, <3>1 DEF DlogIInv, FlusherAt
  <2>5. ASSUME NEW w \in Writers, WriterAt(w) PROVE WriterAt(w)'
    BY <2>1, <2>5 DEF WriterAt, Distance, Holds, OneMore
  <2> QED BY <1>1, <2>2, <2>3, <2>4, <2>5 DEF DlogIInv
<1>3. ASSUME NEW w \in Writers,
             \/ LoadIndex(w) \/ (\E c \in Chars : DlogPut(w, c)) \/ LoadEnd(w)
             \/ IncEnd(w) \/ Compare(w) \/ SetStart(w) \/ LoadChars(w) \/ Count(w)
      PROVE  DlogIInv'
  BY <1>1, <1>3, LoadIndexStep, DlogPutStep, LoadEndStep, IncEndStep, CompareStep,
     SetStartStep, LoadCharsStep, CountStep
<1>4. CASE Flush \/ CopyFirst \/ CopyWrapped \/ Empty \/ ClearChars \/ FlushWrite
  BY <1>1, <1>4, FlushStep, CopyFirstStep, CopyWrappedStep, EmptyStep, ClearCharsStep,
     FlushWriteStep
<1> QED BY <1>2, <1>3, <1>4 DEF DlogNext

(* What RingExact says of the ring is what the invariant says in a slice. *)
LEMMA RingExactHolds == DlogIInv => RingExact /\ FlushExact
<1> SUFFICES ASSUME DlogIInv PROVE RingExact /\ FlushExact
  OBVIOUS
<1>1. FlushExact
  BY DEF DlogIInv, FlusherAt, FlushExact
<1>2. DlogTypeOK
  BY DEF DlogIInv, DlogTyped
<1>3. ASSUME Quiet, damaged = "no"
      PROVE  /\ dlogged_chars = Int32(dlogbuf_end - dlogbuf_start)
             /\ unsaved = [i \in 1 .. dlogged_chars |->
                             dlog_buf[DLOG_INDEX(Int32(dlogbuf_start + i - 1))]]
  <2> DEFINE n == dlogged_chars
  <2>1. Distance = n /\ unsaved = Slice(dlog_buf, dlogbuf_end, n)
    BY <1>3 DEF DlogIInv, FlusherAt, Clean, Quiet, AllIdle, Holds
  <2>2. /\ dlogbuf_start \in Ints /\ dlogbuf_end \in Ints /\ n \in 0 .. BufLen
        /\ dlogbuf_start \in Int /\ dlogbuf_end \in Int /\ n \in Int
    BY <1>2, RingConstants DEF DlogTypeOK, Ints
  <2>3. ASSUME NEW i \in 1 .. n
        PROVE  Slot(Int32(dlogbuf_start + i - 1)) = Slot(dlogbuf_end - n + i - 1)
    <3> DEFINE x == dlogbuf_start + i - 1
    <3>1. x \in -3 * Half .. 3 * Half - 1 /\ x \in Int
      BY <2>2, RingConstants DEF Ints
    <3>2. Slot(Int32(x)) = Slot(x)
      <4>1. Int32(x) + 0 = Int32(x) /\ x + 0 = x /\ 0 \in Int
        BY <3>1, Int32Type, RingConstants DEF Ints
      <4> QED BY <3>1, <4>1, SlotInt32
    <3>3. dlogbuf_end = dlogbuf_start + n \/ dlogbuf_end = dlogbuf_start + n - 2 * Half
      BY <2>1, <2>2, DistanceIs, RingConstants DEF Distance
    <3>4. dlogbuf_end = Int32(dlogbuf_start + n)
      BY <2>2, <3>3, Int32Is, RingConstants DEF Ints
    <3>5. Slot(dlogbuf_end + (-n + i - 1)) = Slot(dlogbuf_start + n + (-n + i - 1))
      <4>1. -n + i - 1 \in Int /\ dlogbuf_start + n \in -3 * Half .. 3 * Half - 1
        BY <2>2, RingConstants DEF Ints
      <4> QED BY <3>4, <4>1, SlotInt32
    <3>6. /\ dlogbuf_end + (-n + i - 1) = dlogbuf_end - n + i - 1
          /\ dlogbuf_start + n + (-n + i - 1) = x
      BY <2>2
    <3> QED BY <3>2, <3>5, <3>6
  <2>4. Slice(dlog_buf, dlogbuf_end, n)
          = [i \in 1 .. n |-> dlog_buf[DLOG_INDEX(Int32(dlogbuf_start + i - 1))]]
    <3>1. \A j : DLOG_INDEX(j) = Slot(j)
      BY DEF DLOG_INDEX, Slot
    <3> QED BY <2>3, <3>1 DEF Slice
  <2> QED BY <2>1, <2>4 DEF Distance
<1> QED BY <1>1, <1>2, <1>3 DEF RingExact

(* Whatever the length of the buffer and the width of the indices, and     *)
(* however many contexts print: between calls the ring of dlogbuf_write()  *)
(* holds the last characters that were not saved, and usblog_flush()       *)
(* writes each of them once, unless calls overlapped since the last flush  *)
(* that ran alone.                                                         *)
THEOREM DlogBufSafe == DlogSpec => [](RingExact /\ FlushExact)
BY DlogInitIInv, DlogIInvInductive, RingExactHolds, PTL DEF DlogSpec

-----------------------------------------------------------------------------
(* The emergency log. *)

(* Keeps, for a recording r and a character c given as parameters. *)
KeepsOf(text, r, c) ==
  IF c = "none" THEN text = r
  ELSE LET k == IF Len(r) < BufLen THEN Len(r) ELSE BufLen - 1
       IN \E pre, post \in 0 .. 1 :
            /\ Len(text) = pre + k + post
            /\ SubSeq(text, pre + 1, pre + k) = SubSeq(r, Len(r) - k + 1, Len(r))
            /\ post = 1 => text[Len(text)] = c

(* The distance of a pair of indices. *)
Span(d) == Int32(d.end - d.start)

(* The RAM area holds the recording, whole or in the middle of a call. *)
Stored ==
  rec # <<>> /\ ~torn =>
    /\ Span(info) \in 1 .. BufLen
    /\ KeepsOf(Slice(ram, info.end, Span(info)), rec, cur)

RamTyped ==
  /\ ram \in [0 .. BufLen - 1 -> Chars \cup {"nul"}]
  /\ magic \in {"0xbabe", "other"}
  /\ info \in Indices /\ drambuf \in Indices
  /\ ramwrite_start \in BOOLEAN /\ ram_clear_flush \in BOOLEAN
  /\ writer \in {"idle", "advance", "start", "end", "chars"}
  /\ stage \in {"off", "init", "initZero", "initMagic", "wait", "open", "copy",
                 "write", "resume", "zero", "done", "failed", "run"}
  /\ cur \in Chars \cup {"none"}
  /\ torn \in BOOLEAN /\ switchedOff \in BOOLEAN
  /\ file \in Texts /\ flush_text \in Texts /\ rec \in Texts /\ Len(rec) <= BufLen

(* When characters are recorded. *)
RecordingOn ==
  /\ stage \in {"off", "init", "open", "copy", "write", "resume", "failed"} => ~ramwrite_start
  /\ stage = "wait" /\ ram_clear_flush => ~ramwrite_start
  /\ stage \in {"initZero", "initMagic", "zero", "done"} => ramwrite_start
  /\ stage \in {"off", "init", "initZero", "initMagic"} => ~ram_clear_flush
  /\ ~ramwrite_start => writer = "idle" /\ drambuf = NoIndices
  /\ ramwrite_start => (cur = "none" <=> writer = "idle")

(* What a call finds while a character is put in: the indices in the       *)
(* kernel count the characters, and the words in the RAM follow them.      *)
RecorderAt ==
  LET more == Last(Append(rec, cur))
      before == Span(info) = Len(rec) /\ Int32(info.end + 1) = drambuf.end
  IN
  /\ writer = "idle" => /\ Span(drambuf) = Len(rec) /\ drambuf.chars = Len(rec)
                        /\ rec = Slice(ram, drambuf.end, Len(rec))
                        /\ rec # <<>> => info = drambuf
  /\ writer = "advance" => /\ Span(drambuf) = Len(rec) /\ drambuf.chars = Len(rec)
                           /\ more = Slice(ram, drambuf.end + 1, Len(more))
                           /\ rec # <<>> => info = drambuf
  /\ writer \in {"start", "end", "chars"} =>
       /\ Span(drambuf) = Len(more) /\ drambuf.chars = Len(more)
       /\ more = Slice(ram, drambuf.end, Len(more))
  /\ writer = "start" /\ rec # <<>> => before /\ info.chars = Len(rec)
  /\ writer = "end" => info.start = drambuf.start
  /\ writer = "end" /\ rec # <<>> => Int32(info.end + 1) = drambuf.end
  /\ writer = "chars" => info.start = drambuf.start /\ info.end = drambuf.end

EmegIInv ==
  /\ RamTyped /\ RecordingOn /\ Stored
  /\ ramwrite_start /\ ~torn => RecorderAt
  /\ stage = "write" => flush_text = Text
  /\ stage = "resume" => file \in Prefixes(Text)
  /\ switchedOff => magic = "other" /\ stage \notin {"initZero", "initMagic"}

(* How many characters of a recording r are there for sure. *)
Kept(r) == IF Len(r) < BufLen THEN Len(r) ELSE BufLen - 1

(* k characters of s, after the first a, are those of r after the first b. *)
Shared(s, a, r, b, k) == \A i \in 1 .. k : s[a + i] = r[b + i]

(* k characters of s after the first a. *)
Piece(s, a, k) == SubSeq(s, a + 1, a + k)

LEMMA KeepsIs ==
  ASSUME NEW text PROVE (Keeps(text) <=> KeepsOf(text, rec, cur))
BY DEF Keeps, KeepsOf

LEMMA PartOfText ==
  ASSUME NEW T, NEW s \in Seq(T), NEW a \in Nat, NEW k \in Nat, a + k <= Len(s)
  PROVE  /\ SubSeq(s, a + 1, a + k) \in Seq(T) /\ Len(SubSeq(s, a + 1, a + k)) = k
         /\ \A i \in 1 .. k : SubSeq(s, a + 1, a + k)[i] = s[a + i]
OBVIOUS

LEMMA SharedParts ==
  ASSUME NEW s \in Texts, NEW r \in Texts, NEW a \in Nat, NEW b \in Nat,
         NEW k \in Nat, a + k <= Len(s), b + k <= Len(r), Shared(s, a, r, b, k)
  PROVE  Piece(s, a, k) = Piece(r, b, k)
<1>1. PICK p : p = SubSeq(s, a + 1, a + k)
  OBVIOUS
<1>2. PICK q : q = SubSeq(r, b + 1, b + k)
  OBVIOUS
<1>3. p \in Texts /\ Len(p) = k /\ \A i \in 1 .. k : p[i] = s[a + i]
  BY <1>1, PartOfText DEF Texts
<1>4. q \in Texts /\ Len(q) = k /\ \A i \in 1 .. k : q[i] = r[b + i]
  BY <1>2, PartOfText DEF Texts
<1>5. p = q
  BY <1>3, <1>4, SameText DEF Shared, Texts
<1> QED BY <1>1, <1>2, <1>5 DEF Piece

(* A text that has the last characters of the recording. *)
LEMMA KeepsMost ==
  ASSUME NEW r \in Texts, NEW c, c # "none", NEW s \in Texts,
         NEW pre \in 0 .. 1, NEW post \in 0 .. 1, NEW k \in Nat, NEW b \in Nat,
         k = Kept(r), b + k = Len(r), Len(s) = pre + k + post,
         Piece(s, pre, k) = Piece(r, b, k),
         post = 1 => s[Len(s)] = c
  PROVE  KeepsOf(s, r, c)
<1>1. b = Len(r) - k
  OBVIOUS
<1>3. SubSeq(s, pre + 1, pre + k) = SubSeq(r, Len(r) - k + 1, Len(r))
  <2>1. PICK p : p = Piece(s, pre, k)
    OBVIOUS
  <2>2. p = SubSeq(s, pre + 1, pre + k)
    BY <2>1 DEF Piece
  <2>3. b + 1 = Len(r) - k + 1 /\ b + k = Len(r)
    BY <1>1
  <2>4. p = SubSeq(r, Len(r) - k + 1, Len(r))
    BY <2>1, <2>3 DEF Piece
  <2> QED BY <2>2, <2>4
<1> QED BY <1>3 DEF KeepsOf, Kept

(* What Append and Last make of a recording. *)
LEMMA MoreIs ==
  ASSUME NEW r \in Texts, NEW c \in Chars, Len(r) <= BufLen
  PROVE  \E k, b \in Nat :
           /\ k = Kept(r) /\ b + k = Len(r) /\ Last(Append(r, c)) \in Texts
           /\ Len(Last(Append(r, c))) = k + 1 /\ k + 1 <= BufLen
           /\ Last(Append(r, c))[k + 1] = c
           /\ Shared(Last(Append(r, c)), 0, r, b, k)
<1>0. BufLen \in Nat /\ BufLen > 1 /\ Len(r) \in Nat
  BY RingConstants DEF Texts
<1>1. PICK a : a = Append(r, c)
  OBVIOUS
<1>2. /\ a \in Texts /\ Len(a) = Len(r) + 1 /\ a[Len(r) + 1] = c
      /\ \A i \in 1 .. Len(r) : a[i] = r[i]
  BY <1>1 DEF Texts
<1>3. CASE Len(r) < BufLen
  <2>1. Last(a) = a /\ Kept(r) = Len(r)
    BY <1>0, <1>2, <1>3 DEF Last, Kept
  <2>2. Shared(a, 0, r, 0, Len(r))
    BY <1>2 DEF Shared
  <2>3. Len(r) + 1 <= BufLen /\ 0 + Len(r) = Len(r) /\ 0 \in Nat
    BY <1>0, <1>3
  <2> QED BY <1>0, <1>1, <1>2, <2>1, <2>2, <2>3
<1>4. CASE Len(r) = BufLen
  <2>0. PICK k \in Nat : k = BufLen - 1
    BY <1>0
  <2>1. Last(a) = Tail(a) /\ Kept(r) = k
    BY <1>0, <1>2, <1>4, <2>0 DEF Last, Kept
  <2>2. PICK m : m = Tail(a)
    OBVIOUS
  <2>3. m \in Texts /\ Len(m) = k + 1 /\ \A i \in 1 .. k + 1 : m[i] = a[i + 1]
    BY <1>0, <1>2, <1>4, <2>0, <2>2 DEF Texts
  <2>4. ASSUME NEW i \in 1 .. k PROVE m[0 + i] = r[1 + i]
    <3>1. 0 + i = i /\ 1 + i = i + 1 /\ i \in 1 .. k + 1 /\ i + 1 \in 1 .. Len(r)
      BY <1>4, <2>0
    <3> QED BY <1>2, <2>3, <3>1
  <2>5. Shared(m, 0, r, 1, k)
    BY <2>4 DEF Shared
  <2>6. /\ k + 1 \in 1 .. k + 1 /\ k + 1 + 1 = Len(r) + 1 /\ 1 \in Nat
        /\ 1 + k = Len(r) /\ k + 1 <= BufLen
    BY <1>0, <1>4, <2>0
  <2>7. m[k + 1] = c
    BY <1>2, <2>3, <2>6
  <2>8. Last(Append(r, c)) = m
    BY <1>1, <2>1, <2>2
  <2> QED BY <2>1, <2>3, <2>5, <2>6, <2>7, <2>8
<1> QED BY <1>0, <1>3, <1>4

(* The three ways in which the RAM holds a recording while a character is  *)
(* put in.  The character is in the array, the indices are the old ones:   *)
LEMMA KeepsOld ==
  ASSUME NEW buf \in [0 .. BufLen - 1 -> Chars \cup {"nul"}], NEW e \in Int,
         NEW c \in Chars, NEW r \in Texts, r # <<>>, Len(r) <= BufLen, c # "none",
         r = Slice(buf, e, Len(r))
  PROVE  KeepsOf(Slice([buf EXCEPT ![Slot(e)] = c], e, Len(r)), r, c)
<1> DEFINE b == [buf EXCEPT ![Slot(e)] = c]
<1>1. PICK n \in Nat : n = Len(r)
  BY DEF Texts
<1>2. PICK k \in Nat : k = IF n < BufLen THEN n ELSE BufLen - 1
  BY RingConstants
<1>3. PICK pre \in 0 .. 1 : pre + k = n
  <2>1. n - k \in 0 .. 1
    BY <1>1, <1>2, RingConstants
  <2> QED BY <2>1
<1>4. /\ BufLen \in Nat /\ BufLen > 1 /\ n >= 1 /\ n <= BufLen /\ k < BufLen /\ k \in Nat
      /\ Slot(e) \in 0 .. BufLen - 1
  BY <1>1, <1>2, RingConstants, SlotType DEF Texts
<1>5. /\ b \in [0 .. BufLen - 1 -> Chars \cup {"nul"}]
      /\ \A j \in 0 .. BufLen - 1 : j # Slot(e) => b[j] = buf[j]
  BY <1>4
<1> HIDE DEF b
<1>6. PICK s : s = Slice(b, e, n)
  OBVIOUS
<1>7. s \in Texts /\ Len(s) = n
  BY <1>1, <1>5, <1>6, SliceType DEF Texts
<1>8. ASSUME NEW i \in 1 .. k PROVE s[pre + i] = r[pre + i]
  <2>1. PICK j \in 1 .. n : j = pre + i
    BY <1>3, <1>4
  <2>2. PICK d \in 1 .. BufLen - 1 : d = k - i + 1
    BY <1>4
  <2>3. PICK x \in Int : x = e - n + j - 1
    OBVIOUS
  <2>4. x + d = e
    BY <1>3, <1>4, <2>1, <2>2, <2>3
  <2>5. Slot(x) # Slot(e) /\ Slot(x) \in 0 .. BufLen - 1
    BY <2>4, SlotInjective, SlotType
  <2>6. s[j] = b[Slot(x)]
    BY <1>6, <2>3 DEF Slice
  <2>7. r[j] = buf[Slot(x)]
    <3>1. r = Slice(buf, e, n)
      BY <1>1
    <3> QED BY <2>3, <3>1 DEF Slice
  <2> QED BY <1>5, <2>1, <2>5, <2>6, <2>7
<1>9. KeepsOf(s, r, c)
  <2>1. /\ k = Kept(r) /\ Len(s) = pre + k + 0 /\ pre + k = Len(r)
        /\ 0 \in 0 .. 1 /\ pre \in Nat /\ 0 # 1
    BY <1>1, <1>2, <1>3, <1>7 DEF Kept
  <2>2. Shared(s, pre, r, pre, k)
    BY <1>8 DEF Shared
  <2>3. Piece(s, pre, k) = Piece(r, pre, k)
    BY <1>7, <2>1, <2>2, SharedParts
  <2> QED BY <1>7, <2>1, <2>3, KeepsMost
<1> QED BY <1>1, <1>6, <1>9 DEF b

(* ... the start has moved on and the end has not yet: *)
LEMMA KeepsShort ==
  ASSUME NEW buf \in [0 .. BufLen - 1 -> Chars \cup {"nul"}], NEW e \in Int,
         NEW c \in Chars, NEW r \in Texts, r # <<>>, Len(r) <= BufLen, c # "none",
         NEW more, more = Last(Append(r, c)), more = Slice(buf, e + 1, Len(more))
  PROVE  /\ Len(more) - 1 \in 1 .. BufLen
         /\ KeepsOf(Slice(buf, e, Len(more) - 1), r, c)
<1>0. /\ BufLen \in Nat /\ BufLen > 1 /\ Len(r) \in Nat /\ Len(r) >= 1
  BY RingConstants DEF Texts
<1>1. PICK k \in Nat, b \in Nat :
        /\ k = Kept(r) /\ b + k = Len(r) /\ Len(more) = k + 1 /\ k + 1 <= BufLen
        /\ Shared(more, 0, r, b, k)
  BY MoreIs
<1>2. k \in 1 .. BufLen /\ Len(more) - 1 = k
  BY <1>0, <1>1 DEF Kept
<1>5. PICK s : s = Slice(buf, e, k)
  OBVIOUS
<1>6. s \in Texts /\ Len(s) = k
  BY <1>5, SliceType DEF Texts
<1>7. ASSUME NEW i \in 1 .. k PROVE s[0 + i] = r[b + i]
  <2>1. s[i] = buf[Slot(e - k + i - 1)]
    BY <1>5 DEF Slice
  <2>2. more[i] = buf[Slot(e + 1 - (k + 1) + i - 1)]
    <3>1. more = Slice(buf, e + 1, k + 1) /\ i \in 1 .. k + 1
      BY <1>1
    <3> QED BY <3>1 DEF Slice
  <2>3. e - k + i - 1 = e + 1 - (k + 1) + i - 1 /\ 0 + i = i
    OBVIOUS
  <2>4. more[0 + i] = r[b + i]
    BY <1>1 DEF Shared
  <2> QED BY <2>1, <2>2, <2>3, <2>4
<1>8. KeepsOf(s, r, c)
  <2>1. Len(s) = 0 + k + 0 /\ 0 \in 0 .. 1 /\ 0 # 1 /\ 0 \in Nat
    BY <1>6
  <2>2. Shared(s, 0, r, b, k)
    BY <1>7 DEF Shared
  <2>3. Piece(s, 0, k) = Piece(r, b, k)
    <3>1. 0 + k <= Len(s) /\ b + k <= Len(r)
      BY <1>0, <1>1, <1>6
    <3> QED BY <1>6, <2>1, <2>2, <3>1, SharedParts
  <2> QED BY <1>1, <1>6, <2>1, <2>3, KeepsMost
<1> QED BY <1>2, <1>5, <1>8

(* ... the end has followed. *)
LEMMA KeepsMore ==
  ASSUME NEW c \in Chars, NEW r \in Texts, Len(r) <= BufLen, c # "none"
  PROVE  KeepsOf(Last(Append(r, c)), r, c)
<1>1. PICK more : more = Last(Append(r, c))
  OBVIOUS
<1>2. PICK k \in Nat, b \in Nat :
        /\ k = Kept(r) /\ b + k = Len(r) /\ more \in Texts /\ Len(more) = k + 1
        /\ more[k + 1] = c /\ Shared(more, 0, r, b, k)
  BY <1>1, MoreIs
<1>3. /\ Len(more) = 0 + k + 1 /\ 0 \in 0 .. 1 /\ 1 \in 0 .. 1 /\ more[Len(more)] = c
      /\ 0 \in Nat
  BY <1>2
<1>4. Piece(more, 0, k) = Piece(r, b, k)
  <2>1. 0 + k <= Len(more) /\ b + k <= Len(r)
    BY <1>2 DEF Texts
  <2> QED BY <1>2, <1>3, <2>1, SharedParts
<1>5. KeepsOf(more, r, c)
  BY <1>2, <1>3, <1>4, KeepsMost
<1> QED BY <1>1, <1>5

(* The end of a pair of indices moves on last. *)
LEMMA DistanceBefore ==
  ASSUME NEW s \in Ints, NEW e \in Ints, NEW n \in 1 .. BufLen,
         Int32(Int32(e + 1) - s) = n
  PROVE  Int32(e - s) = n - 1
<1>1. e + 1 \in Int /\ (Int32(e + 1) = e + 1 \/ Int32(e + 1) = e + 1 - 2 * Half)
      /\ Int32(e + 1) \in Ints
  BY Int32Is, RingConstants DEF Ints
<1>2. n \in 0 .. BufLen + 1 /\ n - 1 \in 0 .. BufLen + 1
  BY RingConstants
<1>3. Int32(e + 1) = s + n \/ Int32(e + 1) = s + n - 2 * Half
  BY <1>1, <1>2, DistanceIs
<1>4. e = s + (n - 1) \/ e = s + (n - 1) - 2 * Half
  BY <1>1, <1>2, <1>3, RingConstants DEF Ints
<1> QED BY <1>2, <1>4, DistanceIs

-----------------------------------------------------------------------------
LEMMA RamTypedIs == RamTyped => RamTypeOK
<1>1. ASSUME NEW s \in Texts, NEW i \in 1 .. Len(s) PROVE s[i] \in Chars \cup {"nul"}
  BY DEF Texts
<1> QED BY <1>1 DEF RamTyped, RamTypeOK

LEMMA IndicesIs ==
  ASSUME NEW d \in Indices
  PROVE  /\ d.start \in Ints /\ d.end \in Ints /\ d.chars \in 0 .. BufLen
         /\ d.start \in Int /\ d.end \in Int /\ d.chars \in Int
BY RingConstants DEF Indices, Ints

LEMMA NoIndicesIs ==
  /\ NoIndices \in Indices /\ NoIndices.start = 0 /\ NoIndices.end = 0
  /\ NoIndices.chars = 0 /\ Span(NoIndices) = 0
<1>1. 0 \in Ints /\ 0 - 0 = 0
  BY RingConstants DEF Ints
<1>2. Int32(0) = 0
  BY <1>1, Int32Is
<1> QED BY <1>1, <1>2, RingConstants DEF NoIndices, Indices, Span

(* What the loops read is what lies between the indices, unless they       *)
(* overflow.                                                               *)
LEMMA TextType == ASSUME RamTyped PROVE Text \in Texts
<1>1. PICK s, e : s = DRAM_INDEX(info.start) /\ e = DRAM_INDEX(info.end)
  OBVIOUS
<1>2. s \in 0 .. BufLen - 1 /\ e \in 0 .. BufLen - 1 /\ BufLen \in Nat
  BY <1>1, IndicesIs, SlotType, RingConstants DEF RamTyped, DRAM_INDEX, Slot
<1>3. ASSUME NEW from \in Nat, NEW len \in Nat, from + len <= BufLen
      PROVE  Part(ram, from, len) \in Texts
  <2>1. ASSUME NEW i \in 1 .. len PROVE ram[from + i - 1] \in Chars \cup {"nul"}
    <3>1. from + i - 1 \in 0 .. BufLen - 1
      BY <1>2, <1>3
    <3> QED BY <3>1 DEF RamTyped
  <2>2. Part(ram, from, len) \in [1 .. len -> Chars \cup {"nul"}]
    BY <2>1 DEF Part
  <2> QED BY <2>2, FunctionText DEF Texts
<1>4. Part(ram, 0, e) \in Texts /\ Part(ram, s, BufLen - s) \in Texts
  BY <1>2, <1>3
<1>5. [i \in 1 .. BufLen - s |-> "nul"] \in Texts
  <2>1. BufLen - s \in Nat
    BY <1>2
  <2>2. [i \in 1 .. BufLen - s |-> "nul"] \in [1 .. BufLen - s -> Chars \cup {"nul"}]
    OBVIOUS
  <2> QED BY <2>1, <2>2, FunctionText DEF Texts
<1>6. ~(s >= e) => Part(ram, s, e - s) \in Texts
  <2>1. ~(s >= e) => e - s \in Nat /\ s + (e - s) <= BufLen /\ s \in Nat
    BY <1>2
  <2> QED BY <1>3, <2>1
<1>7. RamWrapped <=> s >= e
  BY <1>1 DEF RamWrapped
<1>8. ASSUME NEW a \in Texts, NEW b \in Texts PROVE a \o b \in Texts
  BY JoinedText DEF Texts
<1>9. Text = IF Overflows THEN Part(ram, 0, e) \o [i \in 1 .. BufLen - s |-> "nul"]
             ELSE IF RamWrapped THEN Part(ram, s, BufLen - s) \o Part(ram, 0, e)
             ELSE Part(ram, s, e - s)
  BY <1>1 DEF Text, Part
<1>10. CASE Overflows
  <2>1. Text = Part(ram, 0, e) \o [i \in 1 .. BufLen - s |-> "nul"]
    BY <1>9, <1>10
  <2> QED BY <1>4, <1>5, <1>8, <2>1
<1>11. CASE ~Overflows /\ RamWrapped
  <2>1. Text = Part(ram, s, BufLen - s) \o Part(ram, 0, e)
    BY <1>9, <1>11
  <2> QED BY <1>4, <1>8, <2>1
<1>12. CASE ~Overflows /\ ~RamWrapped
  <2>1. Text = Part(ram, s, e - s)
    BY <1>9, <1>12
  <2> QED BY <1>6, <1>7, <1>12, <2>1
<1> QED BY <1>10, <1>11, <1>12

LEMMA TextIs ==
  ASSUME RamTyped, Span(info) \in 1 .. BufLen, ~Overflows
  PROVE  Text = Slice(ram, info.end, Span(info))
<1>1. PICK s, e, n : s = info.start /\ e = info.end /\ n = Span(info)
  OBVIOUS
<1>2. s \in Ints /\ e \in Ints /\ n \in 1 .. BufLen /\ Int32(e - s) = n
  BY <1>1, IndicesIs DEF RamTyped, Span
<1>3. ram \in [0 .. BufLen - 1 -> Chars \cup {"nul"}]
  BY DEF RamTyped
<1>4. RamWrapped <=> Slot(s) >= Slot(e)
  BY <1>1 DEF RamWrapped, DRAM_INDEX, Slot
<1>5. Text = IF RamWrapped THEN Part(ram, Slot(s), BufLen - Slot(s)) \o Part(ram, 0, Slot(e))
             ELSE Part(ram, Slot(s), Slot(e) - Slot(s))
  BY <1>1 DEF Text, Part, DRAM_INDEX, Slot
<1>6. Slot(s) \in Int /\ Slot(e) \in Int
  BY <1>2, SlotType, RingConstants DEF Ints
<1>7. CASE RamWrapped
  <2>1. Text = Part(ram, Slot(s), BufLen - Slot(s)) \o Part(ram, 0, Slot(e))
    BY <1>5, <1>7
  <2>2. Slice(ram, e, n) = Part(ram, Slot(s), BufLen - Slot(s)) \o Part(ram, 0, Slot(e))
    BY <1>2, <1>3, <1>4, <1>7, SliceRead
  <2> QED BY <1>1, <2>1, <2>2
<1>8. CASE ~RamWrapped
  <2>1. Text = Part(ram, Slot(s), Slot(e) - Slot(s))
    BY <1>5, <1>8
  <2>2. Slot(s) < Slot(e)
    BY <1>4, <1>6, <1>8
  <2>3. Slice(ram, e, n) = Part(ram, Slot(s), Slot(e) - Slot(s))
    BY <1>2, <1>3, <2>2, SliceRead
  <2> QED BY <1>1, <2>1, <2>3
<1> QED BY <1>7, <1>8

(* The text is a function of the RAM area. *)
LEMMA TextSame == ASSUME ram' = ram, info' = info PROVE Text' = Text
BY DEF Text, Overflows, RamWrapped

(* The indices after one more character. *)
LEMMA AdvancedIs ==
  ASSUME NEW d \in Indices
  PROVE  /\ Advanced(d) \in Indices /\ Advanced(d).end = Int32(d.end + 1)
         /\ Span(d) = d.chars =>
              /\ Span(Advanced(d)) = Advanced(d).chars
              /\ Advanced(d).chars = IF d.chars < BufLen THEN d.chars + 1 ELSE BufLen
<1>1. /\ d.start \in Ints /\ d.end \in Ints /\ d.chars \in 0 .. BufLen
      /\ BufLen \in Nat /\ BufLen > 1
  BY IndicesIs, RingConstants
<1>2. PICK end : end = Int32(d.end + 1)
  OBVIOUS
<1>3. end \in Ints
  <2>1. d.end + 1 \in -3 * Half .. 3 * Half - 1
    BY <1>1, RingConstants DEF Ints
  <2> QED BY <1>2, <2>1, Int32Type
<1>4. Int32(end - BufLen) \in Ints /\ Int32(end - Int32(end - BufLen)) = BufLen
  BY <1>3, DistanceFull
<1>5. PICK a : a = Advanced(d)
  OBVIOUS
<1>6. /\ a.start = IF Int32(end - d.start) > BufLen THEN Int32(end - BufLen) ELSE d.start
      /\ a.end = end
      /\ a.chars = IF d.chars < BufLen THEN d.chars + 1 ELSE d.chars
  BY <1>2, <1>5 DEF Advanced
<1>7. a.start \in Ints /\ a.chars \in 0 .. BufLen
  BY <1>1, <1>4, <1>6
<1>8. a \in Indices
  BY <1>2, <1>3, <1>5, <1>6, <1>7 DEF Advanced, Indices
<1>9. ASSUME Span(d) = d.chars
      PROVE  /\ Int32(a.end - a.start) = a.chars
             /\ a.chars = IF d.chars < BufLen THEN d.chars + 1 ELSE BufLen
  <2>1. Int32(d.end - d.start) = d.chars
    BY <1>9 DEF Span
  <2>2. Int32(end - d.start) = d.chars + 1
    BY <1>1, <1>2, <2>1, DistanceAfter
  <2>3. CASE d.chars < BufLen
    BY <1>1, <1>6, <2>2, <2>3
  <2>4. CASE d.chars = BufLen
    BY <1>1, <1>4, <1>6, <2>2, <2>4
  <2> QED BY <1>1, <2>3, <2>4
<1> QED BY <1>2, <1>5, <1>6, <1>8, <1>9 DEF Span

-----------------------------------------------------------------------------
LEMMA RamInitIInv == RamInit => EmegIInv
<1> SUFFICES ASSUME RamInit PROVE EmegIInv
  OBVIOUS
<1>1. <<>> \in Texts /\ Len(<<>>) = 0 /\ 0 <= BufLen
  BY RingConstants DEF Texts
<1>2. RamTyped
  BY <1>1, NoIndicesIs DEF RamInit, RamTyped
<1>3. RecordingOn
  BY DEF RamInit, RecordingOn
<1>4. Stored
  BY DEF RamInit, Stored
<1> QED BY <1>2, <1>3, <1>4 DEF RamInit, EmegIInv

(* The beginnings of a text, and the whole of it among them. *)
LEMMA PrefixText ==
  ASSUME NEW s \in Texts, NEW p \in Prefixes(s)
  PROVE  p \in Texts /\ (Len(p) = Len(s) => p = s)
<1>1. PICK n \in 0 .. Len(s) : p = SubSeq(s, 1, n)
  BY DEF Prefixes
<1>2. n \in Nat /\ Len(s) \in Nat
  BY DEF Texts
<1>3. p \in Texts /\ Len(p) = n
  BY <1>1, <1>2 DEF Texts
<1>4. n = Len(s) => p = s
  BY <1>1, <1>2, <1>3 DEF Texts
<1> QED BY <1>3, <1>4

LEMMA RamTypedStep == EmegIInv /\ [RamNext]_ramVars => RamTyped'
<1> SUFFICES ASSUME EmegIInv, [RamNext]_ramVars PROVE RamTyped'
  OBVIOUS
<1> USE DEF ramArea, kernel, ghosts
<1>0. RamTyped /\ RecordingOn
  BY DEF EmegIInv
<1>1. <<>> \in Texts /\ Len(<<>>) = 0 /\ 0 <= BufLen /\ NoIndices \in Indices
  BY RingConstants, NoIndicesIs DEF Texts
<1>2. ASSUME NEW c \in Chars, RamPut(c) PROVE RamTyped'
  <2>1. DRAM_INDEX(drambuf.end) \in 0 .. BufLen - 1
    BY <1>0, IndicesIs, SlotType DEF RamTyped, DRAM_INDEX, Slot
  <2>2. ram' \in [0 .. BufLen - 1 -> Chars \cup {"nul"}]
    BY <1>0, <1>2, <2>1 DEF RamTyped, RamPut
  <2> QED BY <1>0, <1>2, <2>2 DEF RamTyped, RamPut
<1>3. CASE Advance
  BY <1>0, <1>3, AdvancedIs DEF RamTyped, Advance
<1>4. CASE WriteRamInfo
  <2>1. CASE WriteInfo("start", "start", "end")
    <3>1. info' \in Indices
      BY <1>0, <2>1, IndicesIs DEF RamTyped, WriteInfo, Indices
    <3> QED BY <1>0, <2>1, <3>1 DEF RamTyped, WriteInfo
  <2>2. CASE WriteInfo("end", "end", "chars")
    <3>1. info' \in Indices
      BY <1>0, <2>2, IndicesIs DEF RamTyped, WriteInfo, Indices
    <3> QED BY <1>0, <2>2, <3>1 DEF RamTyped, WriteInfo
  <2>3. CASE WriteInfo("chars", "chars", "idle")
    <3>1. info' \in Indices
      BY <1>0, <2>3, IndicesIs DEF RamTyped, WriteInfo, Indices
    <3>2. cur \in Chars
      BY <1>0, <2>3 DEF RamTyped, RecordingOn, WriteInfo
    <3>3. Last(Append(rec, cur)) \in Texts /\ Len(Last(Append(rec, cur))) <= BufLen
      <4>1. rec \in Texts /\ Len(rec) <= BufLen
        BY <1>0 DEF RamTyped
      <4> QED BY <3>2, <4>1, MoreIs, RingConstants
    <3> QED BY <1>0, <2>3, <3>1, <3>3 DEF RamTyped, WriteInfo
  <2> QED BY <1>4, <2>1, <2>2, <2>3 DEF WriteRamInfo
<1>5. CASE RambufInit
  BY <1>0, <1>1, <1>5 DEF RamTyped, RambufInit
<1>6. CASE InitZero \/ FlushZero
  BY <1>0, <1>1, <1>6 DEF RamTyped, InitZero, FlushZero, ZeroIndices
<1>7. CASE WriteMagic
  BY <1>0, <1>7 DEF RamTyped, WriteMagic
<1>8. CASE FirstRound
  BY <1>0, <1>8 DEF RamTyped, FirstRound
<1>9. CASE OpenFails
  BY <1>0, <1>9 DEF RamTyped, OpenFails
<1>10. CASE Open
  BY <1>0, <1>1, <1>10 DEF RamTyped, Open
<1>11. CASE RamCopy
  BY <1>0, <1>11, TextType DEF RamTyped, RamCopy
<1>12. CASE RamWrite
  <2>1. file' \in Texts
    BY <1>0, <1>12, PrefixText DEF RamTyped, RamWrite
  <2> QED BY <1>0, <1>12, <2>1 DEF RamTyped, RamWrite
<1>13. CASE Resume
  BY <1>0, <1>1, <1>13 DEF RamTyped, Resume
<1>14. CASE FlushDone
  BY <1>0, <1>14 DEF RamTyped, FlushDone
<1>15. CASE PowerOff
  BY <1>0, <1>15 DEF RamTyped, PowerOff
<1>16. CASE Reset
  <2>1. file' \in Texts
    BY <1>0, <1>16, PrefixText DEF RamTyped, Reset
  <2> QED BY <1>0, <1>1, <1>16, <2>1 DEF RamTyped, Reset
<1>17. CASE Boot
  BY <1>0, <1>17 DEF RamTyped, Boot
<1>18. CASE UNCHANGED ramVars
  BY <1>0, <1>18 DEF RamTyped, ramVars
<1> QED BY <1>2, <1>3, <1>4, <1>5, <1>6, <1>7, <1>8, <1>9, <1>10, <1>11, <1>12, <1>13,
           <1>14, <1>15, <1>16, <1>17, <1>18 DEF RamNext, Record, DaemonStep

LEMMA RecordingStep == EmegIInv /\ [RamNext]_ramVars => RecordingOn'
<1> SUFFICES ASSUME EmegIInv, [RamNext]_ramVars PROVE RecordingOn'
  OBVIOUS
<1> USE DEF ramArea, kernel, ghosts, RecordingOn
<1>0. RamTyped /\ RecordingOn
  BY DEF EmegIInv
<1>2. ASSUME NEW c \in Chars, RamPut(c) PROVE RecordingOn'
  BY <1>0, <1>2, EmergencyLogAssumption DEF RamPut
<1>3. CASE Advance
  BY <1>0, <1>3 DEF Advance
<1>4. CASE WriteRamInfo
  BY <1>0, <1>4 DEF WriteRamInfo, WriteInfo
<1>5. CASE RambufInit
  BY <1>0, <1>5 DEF RambufInit
<1>6. CASE InitZero \/ FlushZero
  BY <1>0, <1>6 DEF InitZero, FlushZero, ZeroIndices
<1>7. CASE WriteMagic
  BY <1>0, <1>7 DEF WriteMagic
<1>8. CASE FirstRound
  BY <1>0, <1>8 DEF FirstRound
<1>9. CASE OpenFails
  BY <1>0, <1>9 DEF OpenFails
<1>10. CASE Open
  BY <1>0, <1>10 DEF Open
<1>11. CASE RamCopy
  BY <1>0, <1>11 DEF RamCopy
<1>12. CASE RamWrite
  BY <1>0, <1>12 DEF RamWrite
<1>13. CASE Resume
  BY <1>0, <1>13 DEF Resume
<1>14. CASE FlushDone
  BY <1>0, <1>14 DEF FlushDone
<1>15. CASE PowerOff
  BY <1>0, <1>15 DEF PowerOff
<1>16. CASE Reset
  BY <1>0, <1>16 DEF Reset
<1>17. CASE Boot
  BY <1>0, <1>17 DEF Boot, Up
<1>18. CASE UNCHANGED ramVars
  BY <1>0, <1>18 DEF ramVars
<1> QED BY <1>2, <1>3, <1>4, <1>5, <1>6, <1>7, <1>8, <1>9, <1>10, <1>11, <1>12, <1>13,
           <1>14, <1>15, <1>16, <1>17, <1>18 DEF RamNext, Record, DaemonStep

(* What a step that leaves the recorder alone keeps. *)
LEMMA SameRecorder ==
  ASSUME UNCHANGED <<ram, info, drambuf, writer, cur, rec>>
  PROVE  (RecorderAt => RecorderAt') /\ (Stored /\ torn' = torn => Stored')
BY DEF RecorderAt, Stored, Span

(* A recorder that starts with an empty recording. *)
LEMMA NewRecorder ==
  ASSUME writer' = "idle", drambuf' = NoIndices, rec' = <<>>
  PROVE  RecorderAt' /\ Stored'
<1>1. Len(rec') = 0 /\ Slice(ram', drambuf'.end, 0) = <<>>
  BY EmptySlice
<1>2. Span(drambuf') = 0 /\ drambuf'.chars = 0
  BY NoIndicesIs
<1> QED BY <1>1, <1>2 DEF RecorderAt, Stored, Span

LEMMA PutStep ==
  ASSUME EmegIInv, ~torn, NEW c \in Chars, RamPut(c)
  PROVE  Stored' /\ RecorderAt'
<1>1. /\ writer = "idle" /\ writer' = "advance" /\ cur' = c
      /\ UNCHANGED <<info, drambuf, rec>>
      /\ ram' = [ram EXCEPT ![Slot(drambuf.end)] = c]
  BY DEF RamPut, DRAM_INDEX, Slot
<1>2. PICK e \in Ints : e = drambuf.end
  BY IndicesIs DEF EmegIInv, RamTyped
<1>3. PICK n \in 0 .. BufLen : n = Len(rec)
  BY RingConstants DEF EmegIInv, RamTyped, Texts
<1>4. /\ Span(drambuf) = n /\ drambuf.chars = n /\ rec = Slice(ram, e, n)
      /\ rec # <<>> => info = drambuf
  BY <1>1, <1>2, <1>3 DEF EmegIInv, RamPut, RecorderAt
<1>5. /\ ram \in [0 .. BufLen - 1 -> Chars \cup {"nul"}] /\ rec \in Texts
      /\ c \in Chars \cup {"nul"} /\ e \in Int /\ c # "none"
  BY <1>2, RingConstants, EmergencyLogAssumption DEF EmegIInv, RamTyped, Ints
<1>6. PICK m \in Nat : m = IF n < BufLen THEN n + 1 ELSE BufLen
  BY RingConstants
<1>7. Slice(ram', e + 1, m) = Last(Append(rec, c))
  <2>1. Slice([ram EXCEPT ![Slot(e)] = c], e + 1, IF n < BufLen THEN n + 1 ELSE BufLen)
          = Last(Append(Slice(ram, e, n), c))
    BY <1>5, SlicePut, ZenonT(60)
  <2>2. ram' = [ram EXCEPT ![Slot(e)] = c] /\ rec = Slice(ram, e, n)
    BY <1>1, <1>2, <1>4
  <2> QED BY <1>6, <2>1, <2>2
<1>8. ram' \in [0 .. BufLen - 1 -> Chars \cup {"nul"}]
  BY <1>1, <1>2, <1>5, SlotType
<1>9. Len(Last(Append(rec, c))) = m
  <2>1. PICK f \in Int : f = e + 1
    BY <1>5
  <2>2. PICK b : b = ram'
    OBVIOUS
  <2>3. Len(Slice(b, f, m)) = m
    BY <1>8, <2>2, SliceType
  <2> QED BY <1>7, <2>1, <2>2, <2>3
<1>10. RecorderAt'
  <2>1. (Last(Append(rec, cur)))' = Last(Append(rec, c))
    BY <1>1
  <2> QED BY <1>1, <1>2, <1>3, <1>4, <1>7, <1>9, <2>1 DEF RecorderAt, Span
<1>11. ASSUME rec # <<>>
       PROVE  Span(info) \in 1 .. BufLen /\ KeepsOf(Slice(ram', info.end, Span(info)), rec, c)
  <2>1. info.end = e /\ Span(info) = n
    BY <1>2, <1>4, <1>11
  <2>2. n # 0 /\ n <= BufLen
    BY <1>3, <1>5, <1>11, RingConstants DEF Texts
  <2>3. n \in 1 .. BufLen
    BY <1>3, <2>2, RingConstants
  <2>4. KeepsOf(Slice([ram EXCEPT ![Slot(e)] = c], e, Len(rec)), rec, c)
    BY <1>3, <1>4, <1>5, <1>11, <2>2, KeepsOld
  <2> QED BY <1>1, <1>2, <1>3, <2>1, <2>3, <2>4
<1>12. Stored'
  BY <1>1, <1>11 DEF Stored, Span
<1> QED BY <1>10, <1>12

LEMMA AdvanceStep ==
  ASSUME EmegIInv, ~torn, Advance
  PROVE  Stored' /\ RecorderAt'
<1>1. /\ writer = "advance" /\ writer' = "start" /\ drambuf' = Advanced(drambuf)
      /\ UNCHANGED <<info, ram, rec, cur, torn>>
  BY DEF Advance, ramArea, ghosts
<1>2. Stored'
  BY <1>1 DEF EmegIInv, Stored, Span
<1>3. ramwrite_start /\ cur # "none"
  BY <1>1 DEF EmegIInv, RecordingOn
<1>4. PICK more : more = Last(Append(rec, cur))
  OBVIOUS
<1>5. PICK n \in 0 .. BufLen : n = Len(rec)
  BY RingConstants DEF EmegIInv, RamTyped, Texts
<1>6. /\ Span(drambuf) = n /\ drambuf.chars = n
      /\ more = Slice(ram, drambuf.end + 1, Len(more))
      /\ rec # <<>> => info = drambuf
  BY <1>1, <1>3, <1>4, <1>5 DEF EmegIInv, RecorderAt
<1>7. drambuf \in Indices /\ rec \in Texts /\ cur \in Chars /\ Len(rec) <= BufLen
  BY <1>3 DEF EmegIInv, RamTyped
<1>8. /\ drambuf'.end = Int32(drambuf.end + 1)
      /\ Span(drambuf') = drambuf'.chars
      /\ drambuf'.chars = IF n < BufLen THEN n + 1 ELSE BufLen
  BY <1>1, <1>6, <1>7, AdvancedIs
<1>9. Len(more) = drambuf'.chars /\ Len(more) \in Nat
  <2>1. PICK k \in Nat : k = Kept(rec) /\ Len(more) = k + 1
    BY <1>4, <1>7, MoreIs
  <2>2. k + 1 = IF n < BufLen THEN n + 1 ELSE BufLen
    BY <1>5, <2>1, RingConstants DEF Kept
  <2> QED BY <1>8, <2>1, <2>2
<1>10. more = Slice(ram, drambuf'.end, Len(more))
  <2>1. drambuf.end + 1 \in -3 * Half .. 3 * Half - 1
    BY <1>7, IndicesIs, RingConstants DEF Ints
  <2>2. Slice(ram, Int32(drambuf.end + 1), Len(more)) = Slice(ram, drambuf.end + 1, Len(more))
    BY <1>9, <2>1, SliceInt32
  <2> QED BY <1>6, <1>8, <2>2
<1>11. (Last(Append(rec, cur)))' = more
  BY <1>1, <1>4
<1>12. rec # <<>> => /\ Span(info) = Len(rec) /\ Int32(info.end + 1) = drambuf'.end
                     /\ info.chars = Len(rec)
  BY <1>5, <1>6, <1>8
<1>13. RecorderAt'
  BY <1>1, <1>8, <1>9, <1>10, <1>11, <1>12 DEF RecorderAt, Span
<1> QED BY <1>2, <1>13

(* What a call that is in write_ram_info() finds. *)
LEMMA WriterFinds ==
  ASSUME EmegIInv, ~torn, writer \in {"start", "end", "chars"}
  PROVE  /\ drambuf \in Indices /\ info \in Indices /\ rec \in Texts /\ Len(rec) <= BufLen
         /\ cur \in Chars /\ cur # "none"
         /\ ram \in [0 .. BufLen - 1 -> Chars \cup {"nul"}]
         /\ RecorderAt /\ Stored
         /\ Len(Last(Append(rec, cur))) \in 1 .. BufLen
<1>1. ramwrite_start /\ cur # "none"
  BY DEF EmegIInv, RecordingOn
<1>2. rec \in Texts /\ cur \in Chars /\ Len(rec) <= BufLen
  BY <1>1 DEF EmegIInv, RamTyped
<1>3. PICK k \in Nat : Len(Last(Append(rec, cur))) = k + 1 /\ k + 1 <= BufLen
  BY <1>2, MoreIs
<1>4. Len(Last(Append(rec, cur))) \in 1 .. BufLen
  BY <1>3, RingConstants
<1> QED BY <1>1, <1>2, <1>4 DEF EmegIInv, RamTyped

LEMMA WriteStartStep ==
  ASSUME EmegIInv, ~torn, WriteInfo("start", "start", "end")
  PROVE  Stored' /\ RecorderAt'
<1>1. /\ writer = "start" /\ writer' = "end"
      /\ info' = [info EXCEPT !["start"] = drambuf["start"]]
      /\ UNCHANGED <<ram, drambuf, rec, cur, torn>>
  BY DEF WriteInfo
<1>2. /\ drambuf \in Indices /\ info \in Indices /\ rec \in Texts /\ Len(rec) <= BufLen
      /\ cur \in Chars /\ cur # "none"
      /\ ram \in [0 .. BufLen - 1 -> Chars \cup {"nul"}]
      /\ RecorderAt
  BY <1>1, WriterFinds
<1>3. info'.start = drambuf.start /\ info'.end = info.end
  BY <1>1, <1>2 DEF Indices
<1>4. PICK more : more = Last(Append(rec, cur))
  OBVIOUS
<1>5. /\ Span(drambuf) = Len(more) /\ drambuf.chars = Len(more)
      /\ more = Slice(ram, drambuf.end, Len(more))
      /\ rec # <<>> => Int32(info.end + 1) = drambuf.end
  BY <1>1, <1>2, <1>4 DEF RecorderAt
<1>6. Len(more) \in 1 .. BufLen
  BY <1>1, <1>4, WriterFinds
<1>7. RecorderAt'
  <2>1. (Last(Append(rec, cur)))' = more
    BY <1>1, <1>4
  <2> QED BY <1>1, <1>3, <1>5, <2>1 DEF RecorderAt, Span
<1>8. ASSUME rec # <<>>
      PROVE  /\ Span(info') \in 1 .. BufLen
             /\ KeepsOf(Slice(ram, info'.end, Span(info')), rec, cur)
  <2>1. PICK e \in Ints, s \in Ints : e = info.end /\ s = drambuf.start
    BY <1>2, IndicesIs
  <2>2. PICK n \in 1 .. BufLen : n = Len(more)
    BY <1>6
  <2>3. Int32(Int32(e + 1) - s) = n
    BY <1>5, <1>8, <2>1, <2>2 DEF Span
  <2>4. Int32(e - s) = n - 1
    BY <2>3, DistanceBefore
  <2>5. Span(info') = n - 1
    BY <1>3, <2>1, <2>4 DEF Span
  <2>6. more = Slice(ram, e + 1, Len(more))
    <3>1. e + 1 \in -3 * Half .. 3 * Half - 1 /\ n \in Nat
      BY RingConstants DEF Ints
    <3>2. Slice(ram, Int32(e + 1), n) = Slice(ram, e + 1, n)
      BY <3>1, SliceInt32
    <3> QED BY <1>5, <1>8, <2>1, <2>2, <3>2
  <2>7. Len(more) - 1 \in 1 .. BufLen /\ KeepsOf(Slice(ram, e, Len(more) - 1), rec, cur)
    <3>1. e \in Int
      BY RingConstants DEF Ints
    <3> QED BY <1>2, <1>4, <1>8, <2>6, <3>1, KeepsShort
  <2> QED BY <1>3, <2>1, <2>2, <2>5, <2>7
<1>9. Stored'
  BY <1>1, <1>8 DEF Stored, Span
<1> QED BY <1>7, <1>9

LEMMA WriteEndStep ==
  ASSUME EmegIInv, ~torn, WriteInfo("end", "end", "chars")
  PROVE  Stored' /\ RecorderAt'
<1>1. /\ writer = "end" /\ writer' = "chars"
      /\ info' = [info EXCEPT !["end"] = drambuf["end"]]
      /\ UNCHANGED <<ram, drambuf, rec, cur, torn>>
  BY DEF WriteInfo
<1>2. /\ drambuf \in Indices /\ info \in Indices /\ rec \in Texts /\ Len(rec) <= BufLen
      /\ cur \in Chars /\ cur # "none" /\ RecorderAt
  BY <1>1, WriterFinds
<1>3. info'.start = info.start /\ info'.end = drambuf.end
  BY <1>1, <1>2 DEF Indices
<1>4. PICK more : more = Last(Append(rec, cur))
  OBVIOUS
<1>5. /\ Span(drambuf) = Len(more) /\ drambuf.chars = Len(more)
      /\ more = Slice(ram, drambuf.end, Len(more))
      /\ info.start = drambuf.start
  BY <1>1, <1>2, <1>4 DEF RecorderAt
<1>6. Len(more) \in 1 .. BufLen
  BY <1>1, <1>4, WriterFinds
<1>7. RecorderAt'
  <2>1. (Last(Append(rec, cur)))' = more
    BY <1>1, <1>4
  <2> QED BY <1>1, <1>3, <1>5, <2>1 DEF RecorderAt, Span
<1>8. Span(info') = Len(more) /\ KeepsOf(Slice(ram, info'.end, Len(more)), rec, cur)
  <2>1. Span(info') = Len(more)
    BY <1>3, <1>5 DEF Span
  <2>2. KeepsOf(more, rec, cur)
    BY <1>2, <1>4, KeepsMore
  <2> QED BY <1>3, <1>5, <2>1, <2>2
<1>9. Stored'
  BY <1>1, <1>6, <1>8 DEF Stored, Span
<1> QED BY <1>7, <1>9

LEMMA WriteCharsStep ==
  ASSUME EmegIInv, ~torn, WriteInfo("chars", "chars", "idle")
  PROVE  Stored' /\ RecorderAt'
<1>1. /\ writer = "chars" /\ writer' = "idle"
      /\ info' = [info EXCEPT !["chars"] = drambuf["chars"]]
      /\ rec' = Last(Append(rec, cur)) /\ cur' = "none"
      /\ UNCHANGED <<ram, drambuf, torn>>
  BY DEF WriteInfo
<1>2. drambuf \in Indices /\ info \in Indices /\ RecorderAt
  BY <1>1, WriterFinds
<1>4. PICK more : more = Last(Append(rec, cur))
  OBVIOUS
<1>5. /\ Span(drambuf) = Len(more) /\ drambuf.chars = Len(more)
      /\ more = Slice(ram, drambuf.end, Len(more))
      /\ info.start = drambuf.start /\ info.end = drambuf.end
  BY <1>1, <1>2, <1>4 DEF RecorderAt
<1>6. Len(more) \in 1 .. BufLen
  BY <1>1, <1>4, WriterFinds
<1>7. info' = drambuf
  BY <1>1, <1>2, <1>5 DEF Indices
<1>8. rec' = more
  BY <1>1, <1>4
<1>9. RecorderAt'
  BY <1>1, <1>5, <1>7, <1>8 DEF RecorderAt, Span
<1>10. KeepsOf(more, more, "none")
  BY DEF KeepsOf
<1>11. Stored'
  BY <1>1, <1>5, <1>6, <1>7, <1>8, <1>10 DEF Stored, Span
<1> QED BY <1>9, <1>11

(* Stored and RecorderAt, step by step. *)
LEMMA RecorderStep ==
  EmegIInv /\ [RamNext]_ramVars => Stored' /\ (ramwrite_start' /\ ~torn' => RecorderAt')
<1> SUFFICES ASSUME EmegIInv, [RamNext]_ramVars
             PROVE  Stored' /\ (ramwrite_start' /\ ~torn' => RecorderAt')
  OBVIOUS
<1> DEFINE Goal == Stored' /\ (ramwrite_start' /\ ~torn' => RecorderAt')
<1> SUFFICES Goal
  OBVIOUS
<1> USE DEF ramArea, kernel, ghosts
<1>0. Stored /\ RecordingOn /\ (ramwrite_start /\ ~torn => RecorderAt)
  BY DEF EmegIInv
<1>1. ASSUME torn' PROVE Goal
  BY <1>1 DEF Stored
<1>2. ASSUME UNCHANGED <<ram, info, drambuf, writer, cur, rec, torn, ramwrite_start>>
      PROVE  Goal
  BY <1>0, <1>2, SameRecorder
<1>3. ASSUME writer' = "idle", drambuf' = NoIndices, rec' = <<>> PROVE Goal
  BY <1>3, NewRecorder
<1>4. ASSUME NEW c \in Chars, RamPut(c) PROVE Goal
  <2>1. CASE torn
    BY <1>1, <1>4, <2>1 DEF RamPut
  <2> QED BY <1>4, <2>1, PutStep
<1>5. CASE Advance
  <2>1. CASE torn
    BY <1>1, <1>5, <2>1 DEF Advance
  <2> QED BY <1>5, <2>1, AdvanceStep
<1>6. CASE WriteRamInfo
  <2>1. CASE torn
    BY <1>1, <1>6, <2>1 DEF WriteRamInfo, WriteInfo
  <2> QED BY <1>6, <2>1, WriteStartStep, WriteEndStep, WriteCharsStep DEF WriteRamInfo
<1>7. CASE RambufInit
  <2>1. CASE magic = "0xbabe"
    BY <1>2, <1>7, <2>1 DEF RambufInit
  <2>2. CASE magic # "0xbabe"
    <3>1. writer' = "idle" /\ drambuf' = NoIndices /\ rec' = <<>>
      BY <1>0, <1>7, <2>2 DEF RambufInit, RecordingOn
    <3> QED BY <1>3, <3>1
  <2> QED BY <2>1, <2>2
<1>8. CASE InitZero \/ FlushZero
  <2>1. CASE writer = "idle"
    <3>1. writer' = "idle" /\ drambuf' = NoIndices /\ rec' = <<>>
      BY <1>8, <2>1 DEF InitZero, FlushZero, ZeroIndices
    <3> QED BY <1>3, <3>1
  <2>2. CASE writer # "idle"
    BY <1>1, <1>8, <2>2 DEF InitZero, FlushZero, ZeroIndices
  <2> QED BY <2>1, <2>2
<1>9. CASE WriteMagic
  BY <1>2, <1>9 DEF WriteMagic
<1>10. CASE FirstRound
  BY <1>2, <1>10 DEF FirstRound
<1>11. CASE OpenFails
  BY <1>2, <1>11 DEF OpenFails
<1>12. CASE Open
  BY <1>2, <1>12 DEF Open
<1>13. CASE RamCopy
  BY <1>2, <1>13 DEF RamCopy
<1>14. CASE RamWrite
  BY <1>2, <1>14 DEF RamWrite
<1>15. CASE Resume
  <2>1. writer' = "idle" /\ drambuf' = NoIndices /\ rec' = <<>>
    BY <1>0, <1>15 DEF Resume, RecordingOn
  <2> QED BY <1>3, <2>1
<1>16. CASE FlushDone
  BY <1>2, <1>16 DEF FlushDone
<1>17. CASE PowerOff
  BY <1>2, <1>17 DEF PowerOff
<1>18. CASE Reset
  BY <1>0, <1>18 DEF Reset, Stored, Span
<1>19. CASE Boot
  BY <1>2, <1>19 DEF Boot
<1>20. CASE UNCHANGED ramVars
  BY <1>2, <1>20 DEF ramVars
<1> QED BY <1>4, <1>5, <1>6, <1>7, <1>8, <1>9, <1>10, <1>11, <1>12, <1>13, <1>14, <1>15,
           <1>16, <1>17, <1>18, <1>19, <1>20 DEF RamNext, Record, DaemonStep

(* ram_flush() reads an area that nobody writes, and the magic number does *)
(* not come back after a power off.                                        *)
LEMMA SaveStep ==
  EmegIInv /\ [RamNext]_ramVars =>
    /\ stage' = "write" => flush_text' = Text'
    /\ stage' = "resume" => file' \in Prefixes(Text')
    /\ switchedOff' => magic' = "other" /\ stage' \notin {"initZero", "initMagic"}
<1> SUFFICES ASSUME EmegIInv, [RamNext]_ramVars
             PROVE  /\ stage' = "write" => flush_text' = Text'
                    /\ stage' = "resume" => file' \in Prefixes(Text')
                    /\ switchedOff' => magic' = "other" /\ stage' \notin {"initZero", "initMagic"}
  OBVIOUS
<1> DEFINE Goal == /\ stage' = "write" => flush_text' = Text'
                   /\ stage' = "resume" => file' \in Prefixes(Text')
                   /\ switchedOff' => magic' = "other"
                                      /\ stage' \notin {"initZero", "initMagic"}
<1> SUFFICES Goal
  OBVIOUS
<1> USE DEF ramArea, kernel, ghosts
<1>0. /\ RecordingOn /\ (stage = "write" => flush_text = Text)
      /\ (stage = "resume" => file \in Prefixes(Text))
      /\ (switchedOff => magic = "other" /\ stage \notin {"initZero", "initMagic"})
  BY DEF EmegIInv
<1>2. CASE Record
  <2>1. /\ ramwrite_start
        /\ UNCHANGED <<stage, magic, switchedOff>>
    BY <1>0, <1>2 DEF Record, RamPut, Advance, WriteRamInfo, WriteInfo, RecordingOn
  <2> QED BY <1>0, <2>1 DEF RecordingOn
<1>3. CASE ~Record
  <2>1. ram' = ram /\ info' = info
    BY <1>3 DEF RamNext, DaemonStep, RambufInit, InitZero, FlushZero, ZeroIndices, WriteMagic, FirstRound,
                OpenFails, Open, RamCopy, RamWrite, Resume, FlushDone, PowerOff, Reset,
                Boot, ramVars
  <2>2. Text' = Text
    BY <2>1, TextSame
  <2>3. CASE DaemonStep
    BY <1>0, <2>2, <2>3 DEF DaemonStep, RambufInit, InitZero, FlushZero, ZeroIndices, WriteMagic, FirstRound,
                OpenFails, Open, RamCopy, RamWrite, Resume, FlushDone
  <2>4. CASE PowerOff
    BY <1>0, <2>2, <2>4 DEF PowerOff, Starting
  <2>5. CASE Reset
    BY <1>0, <2>2, <2>5 DEF Reset
  <2>6. CASE Boot
    BY <1>0, <2>2, <2>6 DEF Boot
  <2>7. CASE UNCHANGED ramVars
    BY <1>0, <2>2, <2>7 DEF ramVars
  <2> QED BY <1>3, <2>3, <2>4, <2>5, <2>6, <2>7 DEF RamNext
<1> QED BY <1>2, <1>3

LEMMA EmegInductive == RamSpec => []EmegIInv
<1>1. EmegIInv /\ [RamNext]_ramVars => EmegIInv'
  BY RamTypedStep, RecordingStep, RecorderStep, SaveStep DEF EmegIInv
<1> QED BY RamInitIInv, <1>1, PTL DEF RamSpec

(* At every instant, and through resets, later boots and failures to open  *)
(* the file, the RAM area holds the last characters printed, less at most  *)
(* one; and when ram_flush() allows the area to be recorded over, it has   *)
(* written to emeg_log.txt the beginning of that recording, and all of it  *)
(* if its write() was not short: for every size of the area and every      *)
(* width of the indices, across their wrap too (the reading in the last    *)
(* BufLen values of start below the wrap excepted).                        *)
THEOREM EmergencyLogSafe == RamSpec => [](CrashKeepsLog /\ SavedBeforeReuse)
<1>1. EmegIInv => CrashKeepsLog /\ SavedBeforeReuse
  <2> SUFFICES ASSUME EmegIInv PROVE CrashKeepsLog /\ SavedBeforeReuse
    OBVIOUS
  <2>1. RamTypeOK
    BY RamTypedIs DEF EmegIInv
  <2>2. rec # <<>> /\ ~torn /\ ~Overflows => Keeps(Text)
    <3> SUFFICES ASSUME rec # <<>>, ~torn, ~Overflows PROVE Keeps(Text)
      OBVIOUS
    <3>1. /\ Span(info) \in 1 .. BufLen
          /\ KeepsOf(Slice(ram, info.end, Span(info)), rec, cur)
      BY DEF EmegIInv, Stored
    <3>2. Text = Slice(ram, info.end, Span(info))
      BY <3>1, TextIs DEF EmegIInv
    <3> QED BY <3>1, <3>2, KeepsIs
  <2>3. stage = "resume" =>
          file \in Prefixes(Text) /\ (Len(file) = Len(Text) => file = Text)
    BY TextType, PrefixText DEF EmegIInv
  <2> QED BY <2>1, <2>2, <2>3 DEF CrashKeepsLog, SavedBeforeReuse
<1> QED BY <1>1, EmegInductive, PTL

(* After a power off command that found rambuf_init() done the next        *)
(* rambuf_init() makes no emergency log: nothing brings the magic number   *)
(* back in between.                                                        *)
THEOREM PowerOffNoLog == RamSpec => NoLogAfterPowerOff
<1>1. EmegIInv /\ [RamNext]_ramVars =>
        [stage = "init" /\ switchedOff => ~ram_clear_flush']_ramVars
  <2> SUFFICES ASSUME EmegIInv, RamNext, stage = "init", switchedOff
               PROVE  ~ram_clear_flush'
    OBVIOUS
  <2>1. magic # "0xbabe" /\ ~ram_clear_flush
    BY DEF EmegIInv, RecordingOn
  <2> QED BY <2>1 DEF RamNext, Record, RamPut, Advance, WriteRamInfo, WriteInfo, DaemonStep,
             RambufInit, InitZero, FlushZero, ZeroIndices, WriteMagic, FirstRound, OpenFails, Open, RamCopy,
             RamWrite, Resume, FlushDone, PowerOff, Reset, Boot, ramArea, kernel, ghosts
<1> QED BY <1>1, EmegInductive, PTL DEF RamSpec, NoLogAfterPowerOff

=============================================================================
