------------------------- MODULE WaitQueueTheorems -------------------------
(***************************************************************************)
(* The list operations of the kernel keep a queue a queue without          *)
(* repetition, and change its elements by exactly one.                     *)
(***************************************************************************)
EXTENDS WaitQueue, FiniteSetTheorems, TLAPS

LEMMA DelQueue ==
  ASSUME NEW S, NEW s \in Seq(S), NEW i \in Positions(s), Distinct(s)
  PROVE  /\ Without(s, i) \in Seq(S)
         /\ Distinct(Without(s, i))
         /\ \A t : In(t, Without(s, i)) <=> In(t, s) /\ t # s[i]
<1> USE DEF Positions
<1>1. PICK d : d = Without(s, i)
  OBVIOUS
<1>2. /\ d \in Seq(S)
      /\ Len(d) = Len(s) - 1
      /\ \A k \in 1..Len(d) : d[k] = IF k < i THEN s[k] ELSE s[k + 1]
  BY <1>1 DEF Without
<1>3. Distinct(d)
  BY <1>2 DEF Distinct
<1>4. ASSUME NEW t, In(t, d) PROVE In(t, s) /\ t # s[i]
  BY <1>2, <1>4 DEF Distinct, Positions, In
<1>5. ASSUME NEW t, In(t, s), t # s[i] PROVE In(t, d)
  <2>1. PICK k \in Positions(s) : s[k] = t
    BY <1>5 DEF In
  <2>2. CASE k < i
    BY <1>2, <2>1, <2>2 DEF In
  <2>3. CASE k > i
    <3>1. k - 1 \in 1..Len(d) /\ d[k - 1] = t
      BY <1>2, <2>1, <2>3
    <3> QED BY <3>1 DEF In
  <2> QED BY <1>5, <2>1, <2>2, <2>3
<1> QED BY <1>1, <1>2, <1>3, <1>4, <1>5

LEMMA TailQueue ==
  ASSUME NEW S, NEW s \in Seq(S), s # <<>>, Distinct(s)
  PROVE  /\ Tail(s) \in Seq(S)
         /\ Distinct(Tail(s))
         /\ Head(s) \in S
         /\ In(Head(s), s)
         /\ \A t : In(t, Tail(s)) <=> In(t, s) /\ t # Head(s)
<1> USE DEF Positions
<1>1. /\ Tail(s) \in Seq(S)
      /\ Len(Tail(s)) = Len(s) - 1
      /\ \A k \in 1..Len(Tail(s)) : Tail(s)[k] = s[k + 1]
      /\ Head(s) = s[1] /\ 1 \in Positions(s) /\ Head(s) \in S
  OBVIOUS
<1>2. Distinct(Tail(s))
  BY <1>1 DEF Distinct
<1>3. ASSUME NEW t, In(t, Tail(s)) PROVE In(t, s) /\ t # Head(s)
  BY <1>1, <1>3 DEF Distinct, Positions, In
<1>4. ASSUME NEW t, In(t, s), t # Head(s) PROVE In(t, Tail(s))
  <2>1. PICK k \in Positions(s) : s[k] = t
    BY <1>4 DEF In
  <2>2. k - 1 \in 1..Len(Tail(s)) /\ Tail(s)[k - 1] = t
    BY <1>1, <1>4, <2>1
  <2> QED BY <2>2 DEF In
<1> QED BY <1>1, <1>2, <1>3, <1>4 DEF In

LEMMA AppendQueue ==
  ASSUME NEW S, NEW s \in Seq(S), NEW u \in S, Distinct(s), ~In(u, s)
  PROVE  /\ Append(s, u) \in Seq(S)
         /\ Distinct(Append(s, u))
         /\ \A t : In(t, Append(s, u)) <=> In(t, s) \/ t = u
<1> USE DEF Positions
<1>1. PICK a : a = Append(s, u)
  OBVIOUS
<1>2. /\ a \in Seq(S) /\ Len(a) = Len(s) + 1
      /\ \A k \in Positions(s) : a[k] = s[k]
      /\ a[Len(s) + 1] = u
  BY <1>1
<1>3. Distinct(a)
  BY <1>2 DEF Distinct, Positions, In
<1>4. ASSUME NEW t PROVE In(t, a) <=> In(t, s) \/ t = u
  BY <1>2 DEF In
<1> QED BY <1>1, <1>2, <1>3, <1>4

(* A queue splits into its first n entries and the rest. *)
LEMMA DropQueue ==
  ASSUME NEW S, NEW s \in Seq(S), NEW n \in 0..Len(s), Distinct(s)
  PROVE  /\ Drop(s, n) \in Seq(S)
         /\ Distinct(Drop(s, n))
         /\ Drop(s, n) = <<>> <=> n = Len(s)
         /\ n < Len(s) => Head(Drop(s, n)) = s[n + 1]
         /\ FirstOf(s, n) \subseteq S
         /\ \A t : In(t, s) <=> t \in FirstOf(s, n) \/ In(t, Drop(s, n))
         /\ \A t \in FirstOf(s, n) : ~In(t, Drop(s, n))
<1> USE DEF Positions
<1>1. PICK d : d = Drop(s, n)
  OBVIOUS
<1>2. /\ d \in Seq(S)
      /\ Len(d) = Len(s) - n
      /\ \A k \in 1..Len(d) : d[k] = s[k + n]
  BY <1>1 DEF Drop
<1>3. Distinct(d)
  BY <1>2 DEF Distinct
<1>4. /\ d = <<>> <=> n = Len(s)
      /\ n < Len(s) => Head(d) = s[n + 1]
  BY <1>2
<1>5. FirstOf(s, n) \subseteq S
  BY DEF FirstOf
<1>6. ASSUME NEW t, In(t, s) PROVE t \in FirstOf(s, n) \/ In(t, d)
  <2>1. PICK k \in 1..Len(s) : s[k] = t
    BY <1>6 DEF In
  <2>2. CASE k <= n
    BY <2>1, <2>2 DEF FirstOf
  <2>3. CASE k > n
    <3>1. k - n \in 1..Len(d) /\ d[k - n] = t
      BY <1>2, <2>1, <2>3
    <3> QED BY <3>1 DEF In
  <2> QED BY <2>2, <2>3
<1>7. ASSUME NEW t, t \in FirstOf(s, n) \/ In(t, d) PROVE In(t, s)
  BY <1>2, <1>7 DEF In, FirstOf
<1>8. ASSUME NEW t \in FirstOf(s, n), In(t, d) PROVE FALSE
  BY <1>2, <1>8 DEF In, FirstOf, Distinct
<1> QED BY <1>1, <1>2, <1>3, <1>4, <1>5, <1>6, <1>7, <1>8

(* The first n entries of a queue are n tasks. *)
LEMMA FirstOfCardinality ==
  ASSUME NEW S, NEW s \in Seq(S), NEW n \in 0..Len(s), Distinct(s)
  PROVE  IsFiniteSet(FirstOf(s, n)) /\ Cardinality(FirstOf(s, n)) = n
<1> DEFINE F == FirstOf(s, n)
           f == [i \in 1..n |-> s[i]]
<1>1. f \in [1..n -> F] /\ (\A y \in F : \E i \in 1..n : f[i] = y)
  BY DEF FirstOf
<1>2. \A i, j \in 1..n : f[i] = f[j] => i = j
  BY DEF Distinct, Positions
<1> HIDE DEF F, f
<1>3. f \in Bijection(1..n, F)
  BY <1>1, <1>2 DEF Bijection, Injection, Surjection, IsInjective
<1>4. ExistsBijection(1..n, F)
  BY <1>3 DEF ExistsBijection
<1>5. n \in Nat
  OBVIOUS
<1> QED BY <1>4, <1>5, FS_CountingElements, FS_NatBijection DEF F

=============================================================================
