-------------------------- MODULE WorkQueueProofs --------------------------
(***************************************************************************)
(* Proofs about WorkQueue, for any number of works and tasks on the one or *)
(* two CPUs that the kernel is built for (see WorkQueue!GrabLock).         *)
(***************************************************************************)
EXTENDS WorkQueue, WaitQueueTheorems, FiniteSetTheorems, TLAPS

(* x is somewhere in front of y. *)
Before(s, x, y) == \E i, j \in Positions(s) : i < j /\ s[i] = x /\ s[j] = y

Listed(w) == \E c \in Cpus : In(w, worklist[c])
TakenBy(c, w) == worker[c] = "clear" /\ current_work[c] = w
Executes(c, w) == worker[c] \in {"clear", "func"} /\ current_work[c] = w
Claimed(w) == \E c \in Cpus : TakenBy(c, w)
Cancelled(w) == \E t \in Tasks : Cancelling(t, w)

(* Whoever owns the pending bit of a work excludes all the others.         *)
Owner(w) ==
  /\ w \in pending <=>
       Listed(w) \/ Claimed(w) \/ Cancelled(w) \/ w \in timer \/ queueing[w] # Idle
  /\ Listed(w) => ~Claimed(w) /\ ~Cancelled(w)
  /\ Claimed(w) => ~Cancelled(w)
  /\ w \in timer => ~Listed(w) /\ ~Claimed(w) /\ ~Cancelled(w) /\ queueing[w] = Idle
  /\ queueing[w] # Idle => ~Listed(w) /\ ~Claimed(w) /\ ~Cancelled(w)
  /\ \A t, u \in Tasks : Cancelling(t, w) /\ Cancelling(u, w) => t = u
  /\ \A c \in Cpus : In(w, worklist[c]) \/ TakenBy(c, w) => cwq[w] = c
  /\ \A c \in Cpus : Executes(c, w) => cwq[w] # NULL
  /\ queueing[w].st = "add" => cwq[w] = queueing[w].cpu
  /\ queueing[w].st \in {"insert", "add"} => queueing[w].cpu \in online
  /\ w \in firing => queueing[w].st \in {"insert", "add"}

(* The local variables a task uses where it is. *)
Locals(t) ==
  /\ pc[t] \in {"flushCpu", "flushWait", "waitOn", "waitOnWait", "down", "downWait", "stop", "exit"}
       => loc[t].cpu \in Cpus
  /\ pc[t] \in {"flushLock", "grabLock"} => loc[t].cwq \in Cpus
  /\ pc[t] \in {"flushDelayed", "flushWork", "flushLock", "flushWorkWait", "again", "grab",
                "grabRead", "grabLock", "waitRead", "waitOn", "waitOnWait", "clear",
                "clearPending"} => loc[t].work \in Works

(* A task has a barrier, which is on its stack, in at most one place, and  *)
(* only while it waits for it.                                             *)
Waits(t) == pc[t] \in {"flushWait", "waitOnWait", "flushWorkWait", "downWait"}
Runs(c, t) == worker[c] = "func" /\ current_work[c] = t

Barrier(t) ==
  /\ \A c \in Cpus : In(t, worklist[c]) \/ Runs(c, t) =>
       /\ Waits(t) /\ t \notin done
       /\ pc[t] # "flushWorkWait" => c = loc[t].cpu
  /\ \A c, d \in Cpus :
       (In(t, worklist[c]) \/ Runs(c, t)) /\ (In(t, worklist[d]) \/ Runs(d, t)) => c = d
  /\ \A c \in Cpus : ~(In(t, worklist[c]) /\ Runs(c, t))
  /\ t \in done => Waits(t)

(* A worker and its CPU. *)
CpuState(c) ==
  /\ worker[c] = "clear" => current_work[c] \in Works
  /\ worker[c] = "func" => current_work[c] \in Works \cup Tasks
  /\ c \notin populated =>
       worker[c] = "dead" /\ c \notin online /\ \A w \in Works : ~In(w, worklist[c])

(* A CPU that goes down: the works on its list are in front of the         *)
(* barrier of cleanup_workqueue_thread(), and then there are none.         *)
GoingDown(t) == pc[t] \in {"down", "downWait", "stop", "exit"}

Down(t) ==
  LET c == loc[t].cpu IN
  /\ GoingDown(t) => c \notin online /\ \A u \in Tasks : GoingDown(u) => u = t
  /\ pc[t] = "downWait" => \A w \in Works : In(w, worklist[c]) =>
       /\ t \notin done /\ ~Runs(c, t)
       /\ In(t, worklist[c]) => Before(worklist[c], w, t)
  /\ pc[t] \in {"stop", "exit"} => \A w \in Works : ~In(w, worklist[c])

(* wait_on_work(): the CPUs that have been looked at do not run the work.  *)
CancelWait(t) ==
  LET w == loc[t].work IN
  /\ pc[t] = "waitOn" /\ loc[t].ret >= 0 => \A c \in Cpus : c < loc[t].cpu => ~Executes(c, w)
  /\ pc[t] = "waitOnWait" /\ loc[t].ret >= 0 =>
       \A c \in Cpus : c < loc[t].cpu \/ (c = loc[t].cpu /\ t \in done) => ~Executes(c, w)
  /\ pc[t] = "clear" => \A c \in Cpus : ~Executes(c, w)

(* What a flush is owed, and where it is. *)
OwedWork(t, w) == <<"queued", w>> \in owed[t]
OwedRun(t, c) == <<"running", c>> \in owed[t]

Debt(t) ==
  /\ \A w \in Works : OwedWork(t, w) => Listed(w)
  /\ \A c \in Cpus : OwedRun(t, c) => worker[c] \in {"clear", "func"}
  /\ pc[t] \notin {"flushCpu", "flushWait", "flushLock", "flushWorkWait"} => owed[t] = {}

FlushAll(t) ==
  pc[t] \in {"flushCpu", "flushWait"} =>
    LET k == loc[t].cpu IN
    /\ \A w \in Works, c \in Cpus : OwedWork(t, w) /\ In(w, worklist[c]) =>
         /\ c >= k
         /\ pc[t] = "flushWait" /\ c = k =>
              /\ t \notin done /\ ~Runs(c, t)
              /\ In(t, worklist[c]) => Before(worklist[c], w, t)
    /\ \A c \in Cpus : OwedRun(t, c) =>
         /\ c >= k
         /\ pc[t] = "flushWait" /\ c = k => t \notin done

FlushOne(t) ==
  LET w == loc[t].work IN
  /\ pc[t] \in {"flushLock", "flushWorkWait"} => \A v \in Works : OwedWork(t, v) => v = w
  /\ pc[t] = "flushLock" =>
       /\ OwedWork(t, w) => In(w, worklist[loc[t].cwq])
       /\ \A c \in Cpus : OwedRun(t, c) =>
            /\ c = loc[t].cwq /\ current_work[c] = w
            /\ Listed(w) \/ queueing[w].st = "add" => cwq[w] = c
  /\ pc[t] = "flushWorkWait" => \A c \in Cpus :
       /\ In(t, worklist[c]) => /\ OwedWork(t, w) => Before(worklist[c], w, t)
                                /\ \A d \in Cpus : OwedRun(t, d) => d = c
       /\ Runs(c, t) \/ t \in done => owed[t] = {}

Self(t) ==
  /\ Locals(t) /\ Barrier(t) /\ Down(t) /\ CancelWait(t)
  /\ Debt(t) /\ FlushAll(t) /\ FlushOne(t)

IInv ==
  /\ TypeOK
  /\ \A c \in Cpus : Distinct(worklist[c]) /\ CpuState(c)
  /\ \A w \in Works : Owner(w)
  /\ \A t \in Tasks : Self(t)

-----------------------------------------------------------------------------
(* The list operations on a worklist, in terms of what is on it and of     *)
(* what is in front of what.                                               *)
LEMMA InsertQueue ==
  ASSUME NEW S, NEW s \in Seq(S), NEW u \in S, Distinct(s), ~In(u, s),
         NEW i \in 1 .. Len(s) + 1
  PROVE  /\ InsertAt(s, i, u) \in Seq(S)
         /\ Distinct(InsertAt(s, i, u))
         /\ \A x : In(x, InsertAt(s, i, u)) <=> In(x, s) \/ x = u
         /\ \A x, y : Before(s, x, y) => Before(InsertAt(s, i, u), x, y)
         /\ \A k \in 1 .. i - 1 : Before(InsertAt(s, i, u), s[k], u)
<1> USE DEF Positions
<1>1. PICK a : a = InsertAt(s, i, u)
  OBVIOUS
<1>2. /\ a \in Seq(S) /\ Len(a) = Len(s) + 1
      /\ \A k \in 1 .. Len(a) : a[k] = IF k < i THEN s[k] ELSE IF k = i THEN u ELSE s[k - 1]
  <2> DEFINE p == SubSeq(s, 1, i - 1)
             q == SubSeq(s, i, Len(s))
  <2>1. /\ p \in Seq(S) /\ Len(p) = i - 1
        /\ \A k \in 1 .. Len(p) : p[k] = s[k]
    OBVIOUS
  <2>2. /\ q \in Seq(S) /\ Len(q) = Len(s) + 1 - i
        /\ \A k \in 1 .. Len(q) : q[k] = s[k + i - 1]
    OBVIOUS
  <2>3. a = p \o <<u>> \o q
    BY <1>1 DEF InsertAt
  <2> HIDE DEF p, q
  <2>4. PICK b : b = p \o <<u>>
    OBVIOUS
  <2>5. /\ b \in Seq(S) /\ Len(b) = i
        /\ \A k \in 1 .. Len(p) : b[k] = p[k]
        /\ b[i] = u
    BY <2>1, <2>4
  <2>6. /\ a \in Seq(S) /\ Len(a) = Len(b) + Len(q)
        /\ \A k \in 1 .. Len(b) : a[k] = b[k]
        /\ \A k \in Len(b) + 1 .. Len(b) + Len(q) : a[k] = q[k - Len(b)]
    <3>1. a = b \o q
      BY <2>3, <2>4
    <3> QED BY <2>2, <2>5, <3>1
  <2>7. /\ a \in Seq(S) /\ Len(a) = Len(s) + 1
    BY <2>2, <2>5, <2>6
  <2>8. ASSUME NEW k \in 1 .. Len(a), k < i PROVE a[k] = s[k]
    BY <2>1, <2>5, <2>6, <2>8
  <2>9. a[i] = u
    BY <2>5, <2>6
  <2>10. ASSUME NEW k \in 1 .. Len(a), k > i PROVE a[k] = s[k - 1]
    <3>1. k \in Len(b) + 1 .. Len(b) + Len(q) /\ k - i \in 1 .. Len(q)
      BY <2>2, <2>5, <2>6, <2>7, <2>10
    <3>2. a[k] = q[k - i] /\ q[k - i] = s[k - i + i - 1]
      BY <2>2, <2>5, <2>6, <3>1
    <3> QED BY <3>1, <3>2
  <2> QED BY <2>7, <2>8, <2>9, <2>10
<1>3. ASSUME NEW k \in 1 .. Len(s)
      PROVE  LET m == IF k < i THEN k ELSE k + 1 IN m \in 1 .. Len(a) /\ a[m] = s[k]
  BY <1>2
<1>4. /\ i \in 1 .. Len(a) /\ a[i] = u
      /\ \A k \in 1 .. Len(a) : k # i =>
           LET m == IF k < i THEN k ELSE k - 1 IN m \in 1 .. Len(s) /\ a[k] = s[m]
  BY <1>2
<1>5. Distinct(a)
  <2>1. ASSUME NEW k \in 1 .. Len(a), k # i PROVE a[k] # u
    BY <1>4, <2>1 DEF In
  <2>2. ASSUME NEW k \in 1 .. Len(a), NEW l \in 1 .. Len(a), k # i, l # i, a[k] = a[l]
        PROVE  k = l
    <3> DEFINE km == IF k < i THEN k ELSE k - 1
               lm == IF l < i THEN l ELSE l - 1
    <3>1. km \in 1 .. Len(s) /\ lm \in 1 .. Len(s) /\ s[km] = s[lm]
      BY <1>4, <2>2
    <3>2. km = lm
      BY <3>1 DEF Distinct
    <3> QED BY <2>2, <3>2
  <2> QED BY <1>4, <2>1, <2>2 DEF Distinct
<1>6. ASSUME NEW x PROVE In(x, a) <=> In(x, s) \/ x = u
  <2>1. In(x, a) => In(x, s) \/ x = u
    BY <1>4 DEF In
  <2>2. In(x, s) => In(x, a)
    BY <1>3 DEF In
  <2>3. x = u => In(x, a)
    BY <1>4 DEF In
  <2> QED BY <2>1, <2>2, <2>3
<1>7. ASSUME NEW x, NEW y, Before(s, x, y) PROVE Before(a, x, y)
  <2>1. PICK k, l \in 1 .. Len(s) : k < l /\ s[k] = x /\ s[l] = y
    BY <1>7 DEF Before
  <2> DEFINE km == IF k < i THEN k ELSE k + 1
             lm == IF l < i THEN l ELSE l + 1
  <2>2. km \in 1 .. Len(a) /\ lm \in 1 .. Len(a) /\ km < lm
    BY <2>1, <1>2
  <2>3. a[km] = x /\ a[lm] = y
    BY <2>1, <1>3
  <2> QED BY <2>2, <2>3 DEF Before
<1>8. ASSUME NEW k \in 1 .. i - 1 PROVE Before(a, s[k], u)
  <2>1. k \in 1 .. Len(a) /\ a[k] = s[k] /\ k < i
    BY <1>2
  <2> QED BY <1>4, <2>1 DEF Before
<1> QED BY <1>1, <1>2, <1>5, <1>6, <1>7, <1>8

LEMMA AppendBefore ==
  ASSUME NEW S, NEW s \in Seq(S), NEW u \in S
  PROVE  \A x, y : Before(s, x, y) => Before(Append(s, u), x, y)
  BY DEF Before, Positions

LEMMA TailBefore ==
  ASSUME NEW S, NEW s \in Seq(S), s # <<>>, Distinct(s)
  PROVE  /\ \A x, y : Before(s, x, y) /\ x # Head(s) => Before(Tail(s), x, y)
         /\ \A x : ~Before(s, x, Head(s))
<1> USE DEF Positions
<1>1. /\ Tail(s) \in Seq(S)
      /\ Len(Tail(s)) = Len(s) - 1
      /\ \A k \in 1..Len(Tail(s)) : Tail(s)[k] = s[k + 1]
      /\ Head(s) = s[1] /\ 1 \in Positions(s) /\ Head(s) \in S
  OBVIOUS
<1>2. ASSUME NEW x, NEW y, Before(s, x, y), x # Head(s) PROVE Before(Tail(s), x, y)
  <2>1. PICK k, l \in 1 .. Len(s) : k < l /\ s[k] = x /\ s[l] = y
    BY <1>2 DEF Before
  <2>2. k # 1
    BY <1>1, <1>2, <2>1
  <2>3. k - 1 \in 1 .. Len(Tail(s)) /\ l - 1 \in 1 .. Len(Tail(s)) /\ k - 1 < l - 1
    BY <1>1, <2>1, <2>2
  <2>4. Tail(s)[k - 1] = x /\ Tail(s)[l - 1] = y
    BY <1>1, <2>1, <2>3
  <2> QED BY <2>3, <2>4 DEF Before
<1>3. ASSUME NEW x, Before(s, x, Head(s)) PROVE FALSE
  BY <1>1, <1>3 DEF Before, Distinct
<1> QED BY <1>2, <1>3

LEMMA DelBefore ==
  ASSUME NEW S, NEW s \in Seq(S), NEW i \in Positions(s), Distinct(s)
  PROVE  \A x, y : Before(s, x, y) /\ x # s[i] /\ y # s[i] => Before(Without(s, i), x, y)
<1> USE DEF Positions
<1>1. PICK d : d = Without(s, i)
  OBVIOUS
<1>2. /\ Len(d) = Len(s) - 1
      /\ \A k \in 1..Len(d) : d[k] = IF k < i THEN s[k] ELSE s[k + 1]
  BY <1>1 DEF Without
<1>3. ASSUME NEW k \in 1 .. Len(s), k # i
      PROVE  LET m == IF k < i THEN k ELSE k - 1 IN m \in 1 .. Len(d) /\ d[m] = s[k]
  <2>1. CASE k < i
    BY <1>2, <2>1
  <2>2. CASE k > i
    <3>1. k - 1 \in 1 .. Len(d) /\ ~(k - 1 < i) /\ k - 1 + 1 = k
      BY <1>2, <2>2
    <3>2. d[k - 1] = s[k - 1 + 1]
      BY <1>2, <3>1
    <3> QED BY <2>2, <3>1, <3>2
  <2> QED BY <1>3, <2>1, <2>2
<1>4. ASSUME NEW x, NEW y, Before(s, x, y), x # s[i], y # s[i] PROVE Before(d, x, y)
  <2>1. PICK k, l \in 1 .. Len(s) : k < l /\ s[k] = x /\ s[l] = y
    BY <1>4 DEF Before
  <2>2. k # i /\ l # i
    BY <1>4, <2>1
  <2> DEFINE km == IF k < i THEN k ELSE k - 1
             lm == IF l < i THEN l ELSE l - 1
  <2>3. km < lm
    BY <2>1, <2>2
  <2>4. /\ km \in 1 .. Len(d) /\ d[km] = x
        /\ lm \in 1 .. Len(d) /\ d[lm] = y
    BY <1>3, <2>1, <2>2
  <2> QED BY <2>3, <2>4 DEF Before
<1> QED BY <1>1, <1>4

-----------------------------------------------------------------------------
(* What a step must leave alone for the parts of the invariant to survive. *)
SameOwner(w) ==
  /\ \A c \in Cpus : /\ In(w, worklist[c])' <=> In(w, worklist[c])
                     /\ TakenBy(c, w)' <=> TakenBy(c, w)
                     /\ Executes(c, w)' => Executes(c, w)
  /\ \A t \in Tasks : Cancelling(t, w)' <=> Cancelling(t, w)
  /\ queueing'[w] = queueing[w] /\ cwq'[w] = cwq[w]
  /\ w \in pending' <=> w \in pending
  /\ w \in timer' <=> w \in timer
  /\ w \in firing' <=> w \in firing

LEMMA OwnerFrame ==
  ASSUME NEW w \in Works, Owner(w), SameOwner(w),
         queueing[w].st \in {"insert", "add"} /\ queueing[w].cpu \in online =>
           queueing[w].cpu \in online'
  PROVE  Owner(w)'
<1>1. /\ Listed(w)' <=> Listed(w)
      /\ Claimed(w)' <=> Claimed(w)
      /\ Cancelled(w)' <=> Cancelled(w)
  BY DEF SameOwner, Listed, Claimed, Cancelled
<1> QED BY <1>1 DEF SameOwner, Owner

SameTask(t) ==
  /\ pc'[t] = pc[t] /\ loc'[t] = loc[t]
  /\ t \in done' <=> t \in done
  /\ \A c \in Cpus : /\ In(t, worklist[c])' <=> In(t, worklist[c])
                     /\ Runs(c, t)' <=> Runs(c, t)

LEMMA BarrierFrame ==
  ASSUME NEW t \in Tasks, Locals(t), Barrier(t), SameTask(t)
  PROVE  Locals(t)' /\ Barrier(t)'
  BY DEF SameTask, Locals, Barrier, Waits

LEMMA DownFrame ==
  ASSUME NEW t \in Tasks, Locals(t), Down(t), SameTask(t),
         GoingDown(t) => online' \subseteq online /\ \A u \in Tasks : GoingDown(u)' => GoingDown(u),
         \A w \in Works, c \in Cpus : c \notin online /\ In(w, worklist[c])' =>
           /\ In(w, worklist[c])
           /\ Before(worklist[c], w, t) => Before(worklist[c], w, t)'
  PROVE  Down(t)'
  BY DEF SameTask, Locals, Down, GoingDown

LEMMA CancelFrame ==
  ASSUME NEW t \in Tasks, CancelWait(t), SameTask(t),
         Cancelling(t, loc[t].work) =>
           \A c \in Cpus : Executes(c, loc[t].work)' => Executes(c, loc[t].work)
  PROVE  CancelWait(t)'
  BY DEF SameTask, CancelWait, Cancelling, Executes

LEMMA DebtFrame ==
  ASSUME NEW t \in Tasks, Locals(t), Debt(t), FlushAll(t), FlushOne(t), SameTask(t),
         owed'[t] \subseteq owed[t],
         \A w \in Works, c \in Cpus : OwedWork(t, w)' =>
           /\ In(w, worklist[c])' <=> In(w, worklist[c])
           /\ Before(worklist[c], w, t) => Before(worklist[c], w, t)',
         \A c \in Cpus : OwedRun(t, c)' =>
           worker'[c] \in {"clear", "func"} /\ current_work'[c] = current_work[c],
         \A w \in Works : pc[t] = "flushLock" /\ w = loc[t].work /\ owed'[t] # {}
                            /\ (Listed(w) \/ queueing[w].st = "add")' =>
           (Listed(w) \/ queueing[w].st = "add") /\ cwq'[w] = cwq[w]
  PROVE  Debt(t)' /\ FlushAll(t)' /\ FlushOne(t)'
<1>1. Debt(t)'
  BY DEF SameTask, Debt, OwedWork, OwedRun, Listed
<1>2. FlushAll(t)'
  BY DEF SameTask, FlushAll, OwedWork, OwedRun
<1>3. FlushOne(t)'
  <2> DEFINE w == loc[t].work
  <2>1. w' = w /\ (pc[t] \in {"flushLock", "flushWorkWait"} => w \in Works)
    BY DEF SameTask, Locals
  <2>2. pc[t] = "flushLock" => loc[t].cwq \in Cpus
    BY DEF Locals
  <2> HIDE DEF w
  <2>3. CASE pc[t] = "flushLock"
    BY <2>1, <2>2, <2>3 DEF SameTask, FlushOne, OwedWork, OwedRun, w
  <2>4. CASE pc[t] = "flushWorkWait"
    BY <2>1, <2>4 DEF SameTask, FlushOne, OwedWork, OwedRun, w
  <2> QED BY <2>3, <2>4 DEF SameTask, FlushOne
<1> QED BY <1>1, <1>2, <1>3

-----------------------------------------------------------------------------
(* A step that touches no list, no worker and nothing of task t.           *)
LEMMA TaskFrame ==
  ASSUME IInv, NEW t \in Tasks, UNCHANGED <<worklist, worker, current_work>>,
         pc'[t] = pc[t], loc'[t] = loc[t], t \in done' <=> t \in done,
         owed'[t] \subseteq owed[t],
         GoingDown(t) => online' \subseteq online /\ \A u \in Tasks : GoingDown(u)' => GoingDown(u),
         \A w \in Works : pc[t] = "flushLock" /\ w = loc[t].work /\ owed'[t] # {}
                            /\ (Listed(w) \/ queueing'[w].st = "add") =>
           (Listed(w) \/ queueing[w].st = "add") /\ cwq'[w] = cwq[w]
  PROVE  Self(t)'
<1>1. Self(t)
  BY DEF IInv
<1>2. SameTask(t)
  BY DEF SameTask, Runs
<1>3. Locals(t)' /\ Barrier(t)'
  BY <1>1, <1>2, BarrierFrame DEF Self
<1>4. Down(t)'
  BY <1>1, <1>2, DownFrame DEF Self
<1>5. CancelWait(t)'
  BY <1>1, <1>2, CancelFrame DEF Self, Executes
<1>6. \A c \in Cpus : OwedRun(t, c)' => worker'[c] \in {"clear", "func"}
  BY <1>1 DEF Self, Debt, OwedRun
<1>7. \A w \in Works : Listed(w)' <=> Listed(w)
  BY DEF Listed
<1>8. Debt(t)' /\ FlushAll(t)' /\ FlushOne(t)'
  BY <1>1, <1>2, <1>6, <1>7, DebtFrame DEF Self
<1> QED BY <1>3, <1>4, <1>5, <1>8 DEF Self

(* A stage of a queueing: nothing but the work itself is touched.          *)
LEMMA QueueFrame ==
  ASSUME IInv, NEW w \in Works, TypeOK', Owner(w)',
         UNCHANGED <<worklist, worker, current_work, pc, loc, done, online, populated, role>>,
         \A v \in Works \ {w} : /\ queueing'[v] = queueing[v] /\ cwq'[v] = cwq[v]
                                /\ v \in pending' <=> v \in pending
                                /\ v \in timer' <=> v \in timer
                                /\ v \in firing' <=> v \in firing,
         \A t \in Tasks : owed'[t] \subseteq owed[t],
         \A t \in Tasks : pc[t] = "flushLock" /\ w = loc[t].work /\ owed'[t] # {}
                            /\ (Listed(w) \/ queueing'[w].st = "add") =>
           (Listed(w) \/ queueing[w].st = "add") /\ cwq'[w] = cwq[w]
  PROVE  IInv'
<1>1. ASSUME NEW c \in Cpus PROVE Distinct(worklist[c])' /\ CpuState(c)'
  BY DEF IInv, CpuState
<1>2. ASSUME NEW v \in Works, v # w PROVE Owner(v)'
  <2>1. SameOwner(v)
    BY <1>2 DEF SameOwner, TakenBy, Executes, Cancelling
  <2> QED BY <2>1, OwnerFrame DEF IInv
<1>3. ASSUME NEW t \in Tasks PROVE Self(t)'
  <2>1. GoingDown(t) => online' \subseteq online /\ \A u \in Tasks : GoingDown(u)' => GoingDown(u)
    BY DEF GoingDown
  <2> QED BY <2>1, TaskFrame
<1> QED BY <1>1, <1>2, <1>3 DEF IInv

(* queueing[w] after a step that begins a stage. *)
LEMMA StageEffect ==
  ASSUME TypeOK, NEW w \in Works, NEW c \in Cpus,
         NEW st \in {"insert", "add", "delay", "arm"}, Stage(w, st, c)
  PROVE  /\ queueing' \in [Works -> {Idle} \cup
                             [st : {"insert", "add", "delay", "arm"}, cpu : Cpus]]
         /\ queueing'[w].st = st /\ queueing'[w].cpu = c /\ queueing'[w] # Idle
         /\ \A v \in Works \ {w} : queueing'[v] = queueing[v]
<1>1. [st |-> st, cpu |-> c] # Idle
  BY DEF Idle
<1> QED BY <1>1 DEF TypeOK, Stage

(* queueing[w] when a queueing is in progress. *)
LEMMA StageType ==
  ASSUME TypeOK, NEW w \in Works
  PROVE  /\ queueing[w] = Idle <=> queueing[w].st = "none"
         /\ queueing[w].st # "none" =>
              queueing[w].st \in {"insert", "add", "delay", "arm"} /\ queueing[w].cpu \in Cpus
  BY DEF TypeOK, Idle

(* What owns a work outside the stages of its queueing and its timer.      *)
LEMMA HoldersSame ==
  ASSUME NEW w \in Works, UNCHANGED <<worklist, worker, current_work, pc, loc>>
  PROVE  /\ Listed(w)' <=> Listed(w)
         /\ Claimed(w)' <=> Claimed(w)
         /\ Cancelled(w)' <=> Cancelled(w)
         /\ \A c \in Cpus : TakenBy(c, w)' <=> TakenBy(c, w)
         /\ \A c \in Cpus : Executes(c, w)' <=> Executes(c, w)
         /\ \A t \in Tasks : Cancelling(t, w)' <=> Cancelling(t, w)
  BY DEF Listed, Claimed, Cancelled, TakenBy, Executes, Cancelling

(* queue_work_on() and queue_delayed_work_on(): test_and_set_bit() makes   *)
(* the caller the only owner.                                              *)
LEMMA QueueWorkOnStep ==
  ASSUME IInv, NEW w \in Works, NEW c \in Cpus,
         QueueWorkOn(w, c) \/ QueueDelayedWorkOn(w, c)
  PROVE  IInv'
<1>1. PICK st \in {"insert", "delay"} :
        /\ c \in online /\ w \notin pending
        /\ pending' = pending \cup {w} /\ Stage(w, st, c)
        /\ UNCHANGED <<worklist, current_work, worker, should_stop, cwq, timer, firing, pc, loc,
                       done, online, populated, role, owed>>
  BY DEF QueueWorkOn, QueueDelayedWorkOn, lists, task, cpus
<1>2. /\ queueing' \in [Works -> {Idle} \cup
                          [st : {"insert", "add", "delay", "arm"}, cpu : Cpus]]
      /\ queueing'[w].st = st /\ queueing'[w].cpu = c /\ queueing'[w] # Idle
      /\ \A v \in Works \ {w} : queueing'[v] = queueing[v]
  BY <1>1, StageEffect DEF IInv
<1>3. TypeOK'
  BY <1>1, <1>2, WorkQueueAssumption DEF IInv, TypeOK
<1>4. Owner(w)'
  <2>1. /\ Owner(w) /\ w \notin pending /\ w \notin timer /\ w \notin firing
    BY <1>1 DEF IInv, TypeOK
  <2> QED BY <1>1, <1>2, <2>1, HoldersSame DEF Owner
<1> QED BY <1>1, <1>2, <1>3, <1>4, QueueFrame

LEMMA SetWqDataStep ==
  ASSUME IInv, NEW w \in Works, SetWqData(w)
  PROVE  IInv'
<1> DEFINE c == queueing[w].cpu
<1>1. /\ queueing[w].st = "insert" /\ cwq' = [cwq EXCEPT ![w] = c] /\ Stage(w, "add", c)
      /\ UNCHANGED <<worklist, current_work, worker, should_stop, pending, timer, firing, pc, loc,
                     done, online, populated, role>>
      /\ owed' = [t \in Tasks |-> IF loc[t].work = w THEN {} ELSE owed[t]]
  BY DEF SetWqData, Requeued, lists, task, cpus
<1>2. c \in Cpus /\ queueing[w] # Idle
  BY <1>1, StageType DEF IInv
<1>3. /\ queueing' \in [Works -> {Idle} \cup
                          [st : {"insert", "add", "delay", "arm"}, cpu : Cpus]]
      /\ queueing'[w].st = "add" /\ queueing'[w].cpu = c /\ queueing'[w] # Idle
      /\ \A v \in Works \ {w} : queueing'[v] = queueing[v]
  BY <1>1, <1>2, StageEffect DEF IInv
<1>4. /\ cwq' \in [Works -> Cpus \cup {NULL}] /\ cwq'[w] = c
      /\ \A v \in Works \ {w} : cwq'[v] = cwq[v]
  BY <1>1, <1>2 DEF IInv, TypeOK
<1>5. /\ owed' \in [Tasks -> SUBSET Owed]
      /\ \A t \in Tasks : owed'[t] \subseteq owed[t]
      /\ \A t \in Tasks : loc[t].work = w => owed'[t] = {}
  BY <1>1 DEF IInv, TypeOK
<1>6. TypeOK'
  BY <1>1, <1>3, <1>4, <1>5 DEF IInv, TypeOK
<1>7. Owner(w)'
  <2>1. Owner(w)
    BY DEF IInv
  <2>2. c # NULL
    BY <1>2, WorkQueueAssumption DEF Cpus, NULL
  <2> QED BY <1>1, <1>2, <1>3, <1>4, <2>1, <2>2, HoldersSame DEF Owner, Listed, Claimed
<1> QED BY <1>1, <1>3, <1>4, <1>5, <1>6, <1>7, QueueFrame

LEMMA SetWqDataForTimerStep ==
  ASSUME IInv, NEW w \in Works, SetWqDataForTimer(w)
  PROVE  IInv'
<1> DEFINE c == queueing[w].cpu
<1>1. /\ queueing[w].st = "delay" /\ cwq' = [cwq EXCEPT ![w] = c] /\ Stage(w, "arm", c)
      /\ UNCHANGED <<worklist, current_work, worker, should_stop, pending, timer, firing, pc, loc,
                     done, online, populated, role, owed>>
  BY DEF SetWqDataForTimer, lists, task, cpus
<1>2. c \in Cpus /\ queueing[w] # Idle
  BY <1>1, StageType DEF IInv
<1>3. /\ queueing' \in [Works -> {Idle} \cup
                          [st : {"insert", "add", "delay", "arm"}, cpu : Cpus]]
      /\ queueing'[w].st = "arm" /\ queueing'[w].cpu = c /\ queueing'[w] # Idle
      /\ \A v \in Works \ {w} : queueing'[v] = queueing[v]
  BY <1>1, <1>2, StageEffect DEF IInv
<1>4. /\ cwq' \in [Works -> Cpus \cup {NULL}] /\ cwq'[w] = c
      /\ \A v \in Works \ {w} : cwq'[v] = cwq[v]
  BY <1>1, <1>2 DEF IInv, TypeOK
<1>5. TypeOK'
  BY <1>1, <1>3, <1>4 DEF IInv, TypeOK
<1>6. Owner(w) /\ ~Listed(w)
  BY <1>2 DEF IInv, Owner
<1>7. Owner(w)'
  <2>2. c # NULL
    BY <1>2, WorkQueueAssumption DEF Cpus, NULL
  <2> QED BY <1>1, <1>2, <1>3, <1>4, <1>6, <2>2, HoldersSame DEF Owner, Listed, Claimed
<1> QED BY <1>1, <1>3, <1>4, <1>5, <1>6, <1>7, QueueFrame

(* add_timer() hands the work over to the timer, and delayed_work_timer_fn() *)
(* back to a queueing.                                                     *)
LEMMA AddTimerStep ==
  ASSUME IInv, NEW w \in Works, AddTimer(w)
  PROVE  IInv'
<1>1. /\ queueing[w].st = "arm" /\ timer' = timer \cup {w}
      /\ queueing' = [queueing EXCEPT ![w] = Idle]
      /\ UNCHANGED <<worklist, current_work, worker, should_stop, pending, cwq, firing, pc, loc,
                     done, online, populated, role, owed>>
  BY DEF AddTimer, lists, task, cpus
<1>2. queueing[w] # Idle
  BY <1>1, StageType DEF IInv
<1>3. Owner(w) /\ w \in pending
  BY <1>2 DEF IInv, Owner
<1>4. /\ queueing' \in [Works -> {Idle} \cup
                          [st : {"insert", "add", "delay", "arm"}, cpu : Cpus]]
      /\ queueing'[w] = Idle /\ queueing'[w].st = "none"
      /\ \A v \in Works \ {w} : queueing'[v] = queueing[v]
  BY <1>1 DEF IInv, TypeOK, Idle
<1>5. TypeOK'
  BY <1>1, <1>3, <1>4 DEF IInv, TypeOK
<1>6. Owner(w)'
  BY <1>1, <1>2, <1>3, <1>4, HoldersSame DEF Owner
<1> QED BY <1>1, <1>4, <1>5, <1>6, QueueFrame

LEMMA DelayedWorkTimerFnStep ==
  ASSUME IInv, NEW w \in Works, NEW c \in Cpus, DelayedWorkTimerFn(w, c)
  PROVE  IInv'
<1>1. /\ w \in timer /\ c \in online /\ timer' = timer \ {w} /\ firing' = firing \cup {w}
      /\ Stage(w, "insert", c)
      /\ UNCHANGED <<worklist, current_work, worker, should_stop, pending, cwq, pc, loc, done,
                     online, populated, role, owed>>
  BY DEF DelayedWorkTimerFn, lists, task, cpus
<1>2. /\ queueing' \in [Works -> {Idle} \cup
                          [st : {"insert", "add", "delay", "arm"}, cpu : Cpus]]
      /\ queueing'[w].st = "insert" /\ queueing'[w].cpu = c /\ queueing'[w] # Idle
      /\ \A v \in Works \ {w} : queueing'[v] = queueing[v]
  BY <1>1, StageEffect DEF IInv
<1>3. Owner(w) /\ w \in pending
  BY <1>1 DEF IInv, Owner
<1>4. TypeOK'
  BY <1>1, <1>2, <1>3 DEF IInv, TypeOK
<1>5. Owner(w)'
  BY <1>1, <1>2, <1>3, HoldersSame DEF Owner
<1> QED BY <1>1, <1>2, <1>4, <1>5, QueueFrame

(* A task that leaves flush_delayed_work()'s timer for flush_work().       *)
LEMMA FlushDelayedMove ==
  ASSUME NEW t \in Tasks, Locals(t), Barrier(t), Debt(t),
         pc[t] = "flushDelayed", pc'[t] = "flushWork", loc'[t] = loc[t],
         t \in done' => t \in done, owed'[t] = owed[t],
         \A c \in Cpus : /\ In(t, worklist[c])' => In(t, worklist[c])
                         /\ Runs(c, t)' => Runs(c, t)
  PROVE  Self(t)'
<1>1. /\ t \notin done /\ owed[t] = {}
      /\ \A c \in Cpus : ~In(t, worklist[c]) /\ ~Runs(c, t)
  BY DEF Barrier, Debt, Waits
<1>2. Locals(t)' /\ Barrier(t)'
  BY <1>1 DEF Locals, Barrier, Waits
<1>3. Down(t)' /\ CancelWait(t)'
  BY DEF Down, GoingDown, CancelWait
<1>4. Debt(t)' /\ FlushAll(t)' /\ FlushOne(t)'
  BY <1>1 DEF Debt, FlushAll, FlushOne, OwedWork, OwedRun
<1> QED BY <1>2, <1>3, <1>4 DEF Self

(* list_add_tail(): the queueing hands the work over to the list.          *)
LEMMA ListAddTailStep ==
  ASSUME IInv, NEW w \in Works, ListAddTail(w)
  PROVE  IInv'
<1> DEFINE c == queueing[w].cpu
<1>1. /\ queueing[w].st = "add" /\ worklist' = [worklist EXCEPT ![c] = Append(@, w)]
      /\ firing' = firing \ {w} /\ queueing' = [queueing EXCEPT ![w] = Idle]
      /\ pc' = [t \in Tasks |-> IF pc[t] = "flushDelayed" /\ loc[t].work = w
                                THEN "flushWork" ELSE pc[t]]
      /\ UNCHANGED <<current_work, worker, should_stop, pending, cwq, timer, loc, done, online,
                     populated, role, owed>>
  BY DEF ListAddTail, cpus
<1>2. c \in Cpus /\ queueing[w] # Idle
  BY <1>1, StageType DEF IInv
<1>3. Owner(w) /\ ~Listed(w) /\ c \in online /\ cwq[w] = c
  BY <1>1, <1>2 DEF IInv, Owner
<1>4. /\ queueing' \in [Works -> {Idle} \cup
                          [st : {"insert", "add", "delay", "arm"}, cpu : Cpus]]
      /\ queueing'[w] = Idle /\ queueing'[w].st = "none"
      /\ \A v \in Works \ {w} : queueing'[v] = queueing[v]
  BY <1>1 DEF IInv, TypeOK, Idle
<1>5. /\ worklist \in [Cpus -> Seq(Works \cup Tasks)] /\ w \in Works \cup Tasks
      /\ Distinct(worklist[c]) /\ ~In(w, worklist[c])
  BY <1>2, <1>3 DEF IInv, TypeOK, Listed
<1>6. /\ Append(worklist[c], w) \in Seq(Works \cup Tasks)
      /\ Distinct(Append(worklist[c], w))
      /\ \A x : In(x, Append(worklist[c], w)) <=> In(x, worklist[c]) \/ x = w
      /\ \A x, y : Before(worklist[c], x, y) => Before(Append(worklist[c], w), x, y)
  BY <1>2, <1>5, AppendQueue, AppendBefore
<1>7. /\ worklist' \in [Cpus -> Seq(Works \cup Tasks)]
      /\ worklist'[c] = Append(worklist[c], w)
      /\ \A d \in Cpus \ {c} : worklist'[d] = worklist[d]
  BY <1>1, <1>2, <1>5, <1>6
<1>8. ASSUME NEW d \in Cpus
      PROVE  /\ Distinct(worklist'[d])
             /\ \A x : In(x, worklist'[d]) <=> In(x, worklist[d]) \/ (x = w /\ d = c)
             /\ \A x, y : Before(worklist[d], x, y) => Before(worklist'[d], x, y)
  BY <1>6, <1>7 DEF IInv
<1>9. TypeOK'
  BY <1>1, <1>4, <1>7 DEF IInv, TypeOK
<1>10. ASSUME NEW d \in Cpus PROVE CpuState(d)'
  <2>1. c \in populated
    BY <1>2, <1>3 DEF IInv, CpuState
  <2> QED BY <1>1, <1>8, <2>1 DEF IInv, CpuState
<1>11. ASSUME NEW v \in Works, NEW t \in Tasks PROVE Cancelling(t, v)' <=> Cancelling(t, v)
  BY <1>1 DEF Cancelling
<1>12. ASSUME NEW v \in Works, v # w PROVE Owner(v)'
  <2>1. SameOwner(v)
    BY <1>1, <1>4, <1>8, <1>11, <1>12 DEF SameOwner, TakenBy, Executes
  <2> QED BY <1>1, <2>1, OwnerFrame DEF IInv
<1>13. Owner(w)'
  <2>1. Listed(w)' /\ \A d \in Cpus : In(w, worklist'[d]) => d = c
    BY <1>2, <1>3, <1>8 DEF Listed
  <2>2. (Claimed(w)' <=> Claimed(w)) /\ (Cancelled(w)' <=> Cancelled(w))
    BY <1>1, <1>11 DEF Claimed, Cancelled, TakenBy
  <2>3. \A d \in Cpus : (TakenBy(d, w)' <=> TakenBy(d, w)) /\ (Executes(d, w)' <=> Executes(d, w))
    BY <1>1 DEF TakenBy, Executes
  <2> QED BY <1>1, <1>2, <1>3, <1>4, <1>11, <2>1, <2>2, <2>3 DEF Owner
<1>14. ASSUME NEW t \in Tasks PROVE Self(t)'
  <2>1. Self(t) /\ t # w
    BY WorkQueueAssumption DEF IInv
  <2>2. /\ \A d \in Cpus : In(t, worklist'[d]) <=> In(t, worklist[d])
        /\ \A d \in Cpus : Runs(d, t)' <=> Runs(d, t)
    BY <1>1, <1>8, <2>1 DEF Runs
  <2>3. CASE pc[t] = "flushDelayed" /\ loc[t].work = w
    BY <1>1, <2>1, <2>2, <2>3, FlushDelayedMove DEF Self
  <2>4. CASE ~(pc[t] = "flushDelayed" /\ loc[t].work = w)
    <3>1. SameTask(t)
      BY <1>1, <2>2, <2>4 DEF SameTask
    <3>2. Locals(t)' /\ Barrier(t)'
      BY <2>1, <3>1, BarrierFrame DEF Self
    <3>3. Down(t)'
      <4>1. \A u \in Tasks : GoingDown(u)' => GoingDown(u)
        BY <1>1 DEF GoingDown
      <4> QED BY <1>1, <1>3, <1>8, <2>1, <3>1, <4>1, DownFrame DEF Self
    <3>4. CancelWait(t)'
      BY <1>1, <2>1, <3>1, CancelFrame DEF Self, Executes
    <3>5. Debt(t)' /\ FlushAll(t)' /\ FlushOne(t)'
      <4>1. ASSUME NEW v \in Works, OwedWork(t, v)' PROVE v # w /\ OwedWork(t, v)
        BY <1>1, <1>3, <2>1, <4>1 DEF Self, Debt, OwedWork
      <4>2. \A d \in Cpus : OwedRun(t, d)' => worker'[d] \in {"clear", "func"}
        BY <1>1, <2>1 DEF Self, Debt, OwedRun
      <4>3. ASSUME NEW v \in Works, (Listed(v) \/ queueing[v].st = "add")'
            PROVE  Listed(v) \/ queueing[v].st = "add"
        BY <1>1, <1>4, <1>8, <4>3 DEF Listed
      <4> QED BY <1>1, <1>8, <2>1, <3>1, <4>1, <4>2, <4>3, DebtFrame DEF Self
    <3> QED BY <3>2, <3>3, <3>4, <3>5 DEF Self
  <2> QED BY <2>3, <2>4
<1> QED BY <1>8, <1>9, <1>10, <1>12, <1>13, <1>14 DEF IInv

-----------------------------------------------------------------------------
(* A step of a worker that does not execute anything, before or after.     *)
LEMMA QuietWorker ==
  ASSUME IInv, NEW c \in Cpus, TypeOK', worker[c] \notin {"clear", "func"},
         worker'[c] \notin {"clear", "func"},
         \A d \in Cpus \ {c} : worker'[d] = worker[d] /\ current_work'[d] = current_work[d],
         UNCHANGED <<worklist, pending, cwq, timer, firing, queueing, pc, loc, done, owed>>,
         \A d \in Cpus : CpuState(d)', online \subseteq online',
         \A t \in Tasks : GoingDown(t) => online' \subseteq online
  PROVE  IInv'
<1>1. ASSUME NEW d \in Cpus, NEW x
      PROVE  /\ Executes(d, x)' <=> Executes(d, x)
             /\ TakenBy(d, x)' <=> TakenBy(d, x)
             /\ Runs(d, x)' <=> Runs(d, x)
  BY DEF Executes, TakenBy, Runs
<1>2. ASSUME NEW w \in Works PROVE Owner(w)'
  <2>1. SameOwner(w)
    BY <1>1 DEF SameOwner, Cancelling
  <2> QED BY <2>1, OwnerFrame DEF IInv
<1>3. ASSUME NEW t \in Tasks PROVE Self(t)'
  <2>1. Self(t) /\ SameTask(t)
    BY <1>1 DEF IInv, SameTask
  <2>2. Locals(t)' /\ Barrier(t)'
    BY <2>1, BarrierFrame DEF Self
  <2>3. Down(t)'
    <3>1. \A u \in Tasks : GoingDown(u)' => GoingDown(u)
      BY DEF GoingDown
    <3> QED BY <2>1, <3>1, DownFrame DEF Self
  <2>4. CancelWait(t)'
    BY <1>1, <2>1, CancelFrame DEF Self
  <2>5. Debt(t)' /\ FlushAll(t)' /\ FlushOne(t)'
    <3>1. ASSUME NEW d \in Cpus, OwedRun(t, d)'
          PROVE  worker'[d] \in {"clear", "func"} /\ current_work'[d] = current_work[d]
      <4>1. worker[d] \in {"clear", "func"}
        BY <2>1, <3>1 DEF Self, Debt, OwedRun
      <4> QED BY <4>1
    <3>2. \A w \in Works : Listed(w)' <=> Listed(w)
      BY DEF Listed
    <3> QED BY <2>1, <3>1, <3>2, DebtFrame DEF Self
  <2> QED BY <2>2, <2>3, <2>4, <2>5 DEF Self
<1> QED BY <1>2, <1>3 DEF IInv

(* The worker is woken, finds its list empty or has finished a work; its   *)
(* CPU comes up again.                                                     *)
LEMMA WorkerThreadStep ==
  ASSUME IInv, NEW c \in Cpus,
         WorkerThread(c) \/ WorkDone(c) \/ CpuOnline(c) \/ (TakeWork(c) /\ worklist[c] = <<>>)
  PROVE  IInv'
<1>1. PICK to \in {"loop", "dead", "top"} :
        worker[c] \in {"top", "loop", "end", "new"} /\ worker' = [worker EXCEPT ![c] = to]
  BY DEF WorkerThread, WorkDone, CpuOnline, TakeWork, WorkerAt
<1>2. UNCHANGED <<worklist, should_stop, pending, cwq, timer, firing, queueing, pc, loc, done,
                  online, populated, role, owed>>
  BY DEF WorkerThread, WorkDone, CpuOnline, TakeWork, data, task, cpus
<1>3. current_work' = current_work \/ current_work' = [current_work EXCEPT ![c] = NoWork]
  BY DEF WorkerThread, WorkDone, CpuOnline, TakeWork
<1>4. TypeOK'
  BY <1>1, <1>2, <1>3 DEF IInv, TypeOK
<1>5. /\ worker[c] \notin {"clear", "func"} /\ worker'[c] \notin {"clear", "func"}
      /\ \A d \in Cpus \ {c} : worker'[d] = worker[d] /\ current_work'[d] = current_work[d]
  BY <1>1, <1>3 DEF IInv, TypeOK
<1>6. c \in populated
  BY <1>1 DEF IInv, CpuState
<1>7. ASSUME NEW d \in Cpus PROVE CpuState(d)'
  BY <1>2, <1>5, <1>6 DEF IInv, CpuState
<1> QED BY <1>2, <1>4, <1>5, <1>7, QuietWorker

LEMMA CpuUpStep ==
  ASSUME IInv, NEW c \in Cpus, CpuUp(c)
  PROVE  IInv'
<1>1. /\ c \notin populated /\ NoHotplug
      /\ online' = online \cup {c} /\ populated' = populated \cup {c}
      /\ worker' = [worker EXCEPT ![c] = "new"]
      /\ UNCHANGED <<worklist, current_work, should_stop, pending, cwq, timer, firing, queueing,
                     pc, loc, done, role, owed>>
  BY DEF CpuUp, data, task
<1>2. TypeOK'
  BY <1>1 DEF IInv, TypeOK
<1>3. /\ worker[c] \notin {"clear", "func"} /\ worker'[c] \notin {"clear", "func"}
      /\ \A d \in Cpus \ {c} : worker'[d] = worker[d] /\ current_work'[d] = current_work[d]
  BY <1>1 DEF IInv, TypeOK, CpuState
<1>4. ASSUME NEW d \in Cpus PROVE CpuState(d)'
  BY <1>1, <1>3 DEF IInv, CpuState
<1>5. \A t \in Tasks : ~GoingDown(t)
  BY <1>1 DEF NoHotplug, GoingDown
<1> QED BY <1>1, <1>2, <1>3, <1>4, <1>5, QuietWorker

(* work_clear_pending(): the worker gives the work up, and executes it.    *)
LEMMA ClearPendingStep ==
  ASSUME IInv, NEW c \in Cpus, ClearPending(c)
  PROVE  IInv'
<1> DEFINE w == current_work[c]
<1>1. /\ worker[c] = "clear" /\ worker' = [worker EXCEPT ![c] = "func"]
      /\ pending' = pending \ {w}
      /\ UNCHANGED <<worklist, current_work, should_stop, cwq, timer, firing, queueing, pc, loc,
                     done, online, populated, role, owed>>
  BY DEF ClearPending, WorkerAt, task, cpus
<1>2. w \in Works /\ c \in populated
  BY <1>1 DEF IInv, CpuState
<1>3. /\ worker'[c] = "func" /\ \A d \in Cpus \ {c} : worker'[d] = worker[d]
      /\ worker' \in [Cpus -> {"new", "top", "loop", "clear", "func", "end", "dead"}]
  BY <1>1 DEF IInv, TypeOK
<1>4. Owner(w) /\ TakenBy(c, w) /\ Claimed(w)
  BY <1>1, <1>2 DEF IInv, TakenBy, Claimed
<1>5. w \notin timer /\ w \notin firing /\ queueing[w] = Idle
  BY <1>2, <1>4 DEF Owner, Idle
<1>6. TypeOK'
  BY <1>1, <1>3, <1>5 DEF IInv, TypeOK
<1>7. ASSUME NEW d \in Cpus, NEW x
      PROVE  /\ Executes(d, x)' <=> Executes(d, x)
             /\ x # w => (TakenBy(d, x)' <=> TakenBy(d, x)) /\ (Runs(d, x)' <=> Runs(d, x))
  BY <1>1, <1>3 DEF Executes, TakenBy, Runs
<1>8. ASSUME NEW d \in Cpus PROVE CpuState(d)'
  BY <1>1, <1>2, <1>3 DEF IInv, CpuState
<1>9. ASSUME NEW v \in Works, v # w PROVE Owner(v)'
  <2>1. SameOwner(v)
    BY <1>1, <1>7, <1>9 DEF SameOwner, Cancelling
  <2> QED BY <1>1, <2>1, OwnerFrame DEF IInv
<1>10. Owner(w)'
  <2>1. ~Listed(w)' /\ ~Cancelled(w)' /\ \A t \in Tasks : ~Cancelling(t, w)'
    BY <1>1, <1>2, <1>4 DEF Owner, Listed, Cancelled, Cancelling
  <2>2. \A d \in Cpus : ~TakenBy(d, w)'
    BY <1>1, <1>3, <1>4 DEF Owner, TakenBy
  <2>3. ~Claimed(w)' /\ \A d \in Cpus : ~In(w, worklist[d])'
    BY <2>1, <2>2 DEF Claimed, Listed
  <2> QED BY <1>1, <1>2, <1>4, <1>5, <1>7, <2>1, <2>2, <2>3 DEF Owner, Idle
<1>11. ASSUME NEW t \in Tasks PROVE Self(t)'
  <2>1. Self(t) /\ t # w
    BY <1>2, WorkQueueAssumption DEF IInv
  <2>2. SameTask(t)
    BY <1>1, <1>7, <2>1 DEF SameTask
  <2>3. Locals(t)' /\ Barrier(t)'
    BY <2>1, <2>2, BarrierFrame DEF Self
  <2>4. Down(t)'
    <3>1. \A u \in Tasks : GoingDown(u)' => GoingDown(u)
      BY <1>1 DEF GoingDown
    <3> QED BY <1>1, <2>1, <2>2, <3>1, DownFrame DEF Self
  <2>5. CancelWait(t)'
    BY <1>1, <1>7, <2>1, <2>2, CancelFrame DEF Self
  <2>6. Debt(t)' /\ FlushAll(t)' /\ FlushOne(t)'
    <3>1. ASSUME NEW d \in Cpus, OwedRun(t, d)'
          PROVE  worker'[d] \in {"clear", "func"} /\ current_work'[d] = current_work[d]
      <4>1. worker[d] \in {"clear", "func"}
        BY <1>1, <2>1, <3>1 DEF Self, Debt, OwedRun
      <4> QED BY <1>1, <1>3, <4>1
    <3>2. \A v \in Works : Listed(v)' <=> Listed(v)
      BY <1>1 DEF Listed
    <3> QED BY <1>1, <2>1, <2>2, <3>1, <3>2, DebtFrame DEF Self
  <2> QED BY <2>3, <2>4, <2>5, <2>6 DEF Self
<1> QED BY <1>1, <1>6, <1>8, <1>9, <1>10, <1>11 DEF IInv

(* The function of a work or of a barrier returns.                         *)
LEMMA WorkFuncStep ==
  ASSUME IInv, NEW c \in Cpus, WorkFunc(c)
  PROVE  IInv'
<1> DEFINE x == current_work[c]
<1>1. /\ worker[c] = "func" /\ worker' = [worker EXCEPT ![c] = "end"]
      /\ done' = IF x \in Tasks THEN done \cup {x} ELSE done
      /\ owed' = [t \in Tasks |-> owed[t] \ {<<"running", c>>}]
      /\ UNCHANGED <<worklist, current_work, should_stop, pending, cwq, timer, firing, queueing,
                     pc, loc, online, populated, role>>
  BY DEF WorkFunc, WorkerAt, data, task, cpus
<1>2. /\ worker'[c] = "end" /\ \A d \in Cpus \ {c} : worker'[d] = worker[d]
      /\ worker' \in [Cpus -> {"new", "top", "loop", "clear", "func", "end", "dead"}]
      /\ c \in populated
  BY <1>1 DEF IInv, TypeOK, CpuState
<1>3. /\ owed' \in [Tasks -> SUBSET Owed]
      /\ \A t \in Tasks : owed'[t] \subseteq owed[t] /\ ~OwedRun(t, c)'
  BY <1>1 DEF IInv, TypeOK, OwedRun
<1>4. TypeOK'
  BY <1>1, <1>2, <1>3 DEF IInv, TypeOK
<1>5. ASSUME NEW d \in Cpus, NEW y
      PROVE  /\ Executes(d, y)' => Executes(d, y)
             /\ TakenBy(d, y)' <=> TakenBy(d, y)
             /\ Runs(d, y)' <=> Runs(d, y) /\ d # c
             /\ y # x => (Runs(d, y)' <=> Runs(d, y))
  BY <1>1, <1>2 DEF Executes, TakenBy, Runs
<1>6. ASSUME NEW d \in Cpus PROVE CpuState(d)'
  BY <1>1, <1>2 DEF IInv, CpuState
<1>7. ASSUME NEW v \in Works PROVE Owner(v)'
  <2>1. SameOwner(v)
    BY <1>1, <1>5 DEF SameOwner, Cancelling
  <2> QED BY <1>1, <2>1, OwnerFrame DEF IInv
<1>8. \A v \in Works : Listed(v)' <=> Listed(v)
  BY <1>1 DEF Listed
<1>9. ASSUME NEW t \in Tasks, NEW d \in Cpus, OwedRun(t, d)'
      PROVE  d # c /\ OwedRun(t, d) /\ worker'[d] \in {"clear", "func"}
  <2>1. d # c /\ OwedRun(t, d)
    BY <1>3, <1>9 DEF OwedRun
  <2>2. worker[d] \in {"clear", "func"}
    BY <2>1 DEF IInv, Self, Debt
  <2> QED BY <1>2, <2>1, <2>2
<1>10. \A u \in Tasks : GoingDown(u)' <=> GoingDown(u)
  BY <1>1 DEF GoingDown
<1>11. ASSUME NEW t \in Tasks, t # x PROVE Self(t)'
  <2>1. Self(t) /\ SameTask(t)
    BY <1>1, <1>5, <1>11 DEF IInv, SameTask
  <2>2. Locals(t)' /\ Barrier(t)'
    BY <2>1, BarrierFrame DEF Self
  <2>3. Down(t)'
    BY <1>1, <1>10, <2>1, DownFrame DEF Self
  <2>4. CancelWait(t)'
    BY <1>1, <1>5, <2>1, CancelFrame DEF Self
  <2>5. Debt(t)' /\ FlushAll(t)' /\ FlushOne(t)'
    BY <1>1, <1>3, <1>8, <1>9, <2>1, DebtFrame DEF Self
  <2> QED BY <2>2, <2>3, <2>4, <2>5 DEF Self
<1>12. ASSUME NEW t \in Tasks, t = x PROVE Self(t)'
  <2>1. Self(t) /\ Runs(c, t) /\ t \in done' /\ pc'[t] = pc[t] /\ loc'[t] = loc[t]
    BY <1>1, <1>12 DEF IInv, Runs
  <2>2. /\ Waits(t) /\ (pc[t] # "flushWorkWait" => c = loc[t].cpu)
        /\ \A d \in Cpus : ~In(t, worklist[d])' /\ ~Runs(d, t)'
    BY <1>1, <1>5, <2>1 DEF Self, Barrier
  <2>3. Locals(t)' /\ Barrier(t)'
    BY <2>1, <2>2 DEF Self, Locals, Barrier, Waits
  <2>4. Down(t)'
    BY <1>1, <1>10, <2>1, <2>2 DEF Self, Down
  <2>5. CancelWait(t)'
    <3>1. \A d \in Cpus : Executes(d, loc[t].work)' => Executes(d, loc[t].work) /\ d # c
      BY <1>1, <1>2 DEF Executes
    <3> QED BY <2>1, <2>2, <3>1 DEF Self, CancelWait, Executes, Waits
  <2>6. Debt(t)'
    BY <1>3, <1>8, <1>9, <2>1 DEF Self, Debt, OwedWork
  <2>7. FlushAll(t)'
    BY <1>1, <1>3, <1>9, <2>1, <2>2 DEF Self, FlushAll, OwedWork
  <2>8. FlushOne(t)'
    BY <1>1, <1>3, <2>1, <2>2 DEF Self, FlushOne, Waits, OwedWork, OwedRun
  <2> QED BY <2>3, <2>4, <2>5, <2>6, <2>7, <2>8 DEF Self
<1> QED BY <1>1, <1>4, <1>6, <1>7, <1>11, <1>12 DEF IInv

(* The worker takes the first entry x of its list; what that does to the   *)
(* lists and to the workers.                                               *)
LEMMA TakeWorkEffect ==
  ASSUME IInv, NEW c \in Cpus, TakeWork(c), worklist[c] # <<>>
  PROVE  LET x == Head(worklist[c]) IN
         /\ x \in Works \cup Tasks /\ In(x, worklist[c]) /\ worker[c] = "loop"
         /\ worker' = [worker EXCEPT ![c] = IF x \in Works THEN "clear" ELSE "func"]
         /\ current_work' = [current_work EXCEPT ![c] = x]
         /\ worklist' \in [Cpus -> Seq(Works \cup Tasks)]
         /\ owed' = Taken(c, x)
         /\ UNCHANGED <<should_stop, pending, cwq, timer, firing, queueing, pc, loc, done, online,
                        populated, role>>
         /\ \A d \in Cpus :
              /\ Distinct(worklist'[d])
              /\ \A y : In(y, worklist'[d]) <=> In(y, worklist[d]) /\ ~(y = x /\ d = c)
              /\ \A y, z : Before(worklist[d], y, z) /\ ~(y = x /\ d = c) =>
                             Before(worklist'[d], y, z)
         /\ \A y : ~Before(worklist[c], y, x)
<1> DEFINE x == Head(worklist[c])
<1>1. worklist \in [Cpus -> Seq(Works \cup Tasks)] /\ Distinct(worklist[c])
  BY DEF IInv, TypeOK
<1>2. /\ worker[c] = "loop"
      /\ worker' = [worker EXCEPT ![c] = IF x \in Works THEN "clear" ELSE "func"]
      /\ current_work' = [current_work EXCEPT ![c] = x]
      /\ worklist' = [worklist EXCEPT ![c] = Tail(@)]
      /\ owed' = Taken(c, x)
      /\ UNCHANGED <<should_stop, pending, cwq, timer, firing, queueing, pc, loc, done, online,
                     populated, role>>
  BY DEF TakeWork, WorkerAt, data, task, cpus
<1>3. /\ Tail(worklist[c]) \in Seq(Works \cup Tasks) /\ Distinct(Tail(worklist[c]))
      /\ x \in Works \cup Tasks /\ In(x, worklist[c])
      /\ \A y : In(y, Tail(worklist[c])) <=> In(y, worklist[c]) /\ y # x
      /\ \A y, z : Before(worklist[c], y, z) /\ y # x => Before(Tail(worklist[c]), y, z)
      /\ \A y : ~Before(worklist[c], y, x)
  BY <1>1, TailQueue, TailBefore
<1>4. /\ worklist' \in [Cpus -> Seq(Works \cup Tasks)]
      /\ worklist'[c] = Tail(worklist[c])
      /\ \A d \in Cpus \ {c} : worklist'[d] = worklist[d]
  BY <1>1, <1>2, <1>3
<1>5. ASSUME NEW d \in Cpus
      PROVE  /\ Distinct(worklist'[d])
             /\ \A y : In(y, worklist'[d]) <=> In(y, worklist[d]) /\ ~(y = x /\ d = c)
             /\ \A y, z : Before(worklist[d], y, z) /\ ~(y = x /\ d = c) =>
                            Before(worklist'[d], y, z)
  BY <1>3, <1>4 DEF IInv
<1> QED BY <1>2, <1>3, <1>4, <1>5

LEMMA OwedMembers ==
  /\ \A x : <<"queued", x>> \in Owed => x \in Works
  /\ \A c \in Cpus : <<"running", c>> \in Owed
<1>1. ASSUME NEW x, <<"queued", x>> \in Owed PROVE x \in Works
  <2>1. CASE \E w \in Works : <<"queued", x>> = <<"queued", w>>
    BY <2>1
  <2>2. CASE \E c \in Cpus : <<"queued", x>> = <<"running", c>>
    <3>1. "queued" = "running"
      BY <2>2
    <3> QED BY <3>1
  <2> QED BY <1>1, <2>1, <2>2 DEF Owed
<1> QED BY <1>1 DEF Owed

(* The debts of a flush after a worker has taken x.                        *)
LEMMA TakenEffect ==
  ASSUME TypeOK, NEW c \in Cpus, NEW x \in Works \cup Tasks, owed' = Taken(c, x)
  PROVE  /\ owed' \in [Tasks -> SUBSET Owed]
         /\ \A t \in Tasks, w \in Works : OwedWork(t, w)' <=> OwedWork(t, w) /\ w # x
         /\ \A t \in Tasks, d \in Cpus :
              OwedRun(t, d)' <=> OwedRun(t, d) \/ (d = c /\ <<"queued", x>> \in owed[t])
         /\ \A t \in Tasks : <<"queued", x>> \in owed[t] => x \in Works
         /\ \A t \in Tasks : <<"queued", x>> \notin owed[t] => owed'[t] = owed[t]
<1>1. owed \in [Tasks -> SUBSET Owed]
  BY DEF TypeOK
<1>2. ASSUME NEW t \in Tasks, <<"queued", x>> \in owed[t] PROVE x \in Works
  BY <1>1, <1>2, OwedMembers
<1>3. owed' \in [Tasks -> SUBSET Owed]
  BY <1>1, OwedMembers DEF Taken
<1>4. ASSUME NEW t \in Tasks
      PROVE  owed'[t] = IF <<"queued", x>> \in owed[t]
                        THEN (owed[t] \ {<<"queued", x>>}) \cup {<<"running", c>>} ELSE owed[t]
  BY DEF Taken
<1>5. ASSUME NEW t \in Tasks, NEW w \in Works
      PROVE  OwedWork(t, w)' <=> OwedWork(t, w) /\ w # x
  <2>1. <<"queued", w>> # <<"running", c>> /\ (<<"queued", w>> = <<"queued", x>> <=> w = x)
    OBVIOUS
  <2>2. CASE <<"queued", x>> \in owed[t]
    <3>1. owed'[t] = (owed[t] \ {<<"queued", x>>}) \cup {<<"running", c>>}
      BY <1>4, <2>2
    <3> QED BY <2>1, <3>1, Zenon DEF OwedWork
  <2>3. CASE <<"queued", x>> \notin owed[t]
    <3>1. owed'[t] = owed[t]
      BY <1>4, <2>3
    <3> QED BY <2>3, <3>1 DEF OwedWork
  <2> QED BY <2>2, <2>3
<1>6. ASSUME NEW t \in Tasks, NEW d \in Cpus
      PROVE  OwedRun(t, d)' <=> OwedRun(t, d) \/ (d = c /\ <<"queued", x>> \in owed[t])
  <2>1. <<"running", d>> # <<"queued", x>> /\ (<<"running", d>> = <<"running", c>> <=> d = c)
    OBVIOUS
  <2>2. <<"running", d>> \in owed'[t] <=>
          <<"running", d>> \in owed[t] \/ (d = c /\ <<"queued", x>> \in owed[t])
    BY <1>4, <2>1
  <2> QED BY <2>2 DEF OwedRun
<1> QED BY <1>2, <1>3, <1>4, <1>5, <1>6

(* A debt is empty when it has neither works nor executions.               *)
LEMMA NoDebt ==
  ASSUME TypeOK, NEW t \in Tasks, \A w \in Works : ~OwedWork(t, w),
         \A c \in Cpus : ~OwedRun(t, c)
  PROVE  owed[t] = {}
<1>1. owed[t] \subseteq Owed
  BY DEF TypeOK
<1> QED BY <1>1 DEF Owed, OwedWork, OwedRun

(* The worker takes a work: the list hands it over to the worker, and the  *)
(* flushes that wait for it now wait for its execution.                    *)
LEMMA TakeRealWork ==
  ASSUME IInv, NEW c \in Cpus, TakeWork(c), worklist[c] # <<>>, Head(worklist[c]) \in Works
  PROVE  IInv'
<1>0. PICK x : x = Head(worklist[c])
  OBVIOUS
<1>1. /\ x \in Works /\ In(x, worklist[c]) /\ worker[c] = "loop"
      /\ worker' = [worker EXCEPT ![c] = "clear"]
      /\ current_work' = [current_work EXCEPT ![c] = x]
      /\ worklist' \in [Cpus -> Seq(Works \cup Tasks)]
      /\ owed' = Taken(c, x)
      /\ UNCHANGED <<should_stop, pending, cwq, timer, firing, queueing, pc, loc, done, online,
                     populated, role>>
  BY <1>0, TakeWorkEffect
<1>2. \A d \in Cpus :
        /\ Distinct(worklist'[d])
        /\ \A y : In(y, worklist'[d]) <=> In(y, worklist[d]) /\ ~(y = x /\ d = c)
        /\ \A y, z : Before(worklist[d], y, z) /\ ~(y = x /\ d = c) =>
                       Before(worklist'[d], y, z)
  BY <1>0, TakeWorkEffect
<1>3. /\ worker'[c] = "clear" /\ current_work'[c] = x
      /\ \A d \in Cpus \ {c} : worker'[d] = worker[d] /\ current_work'[d] = current_work[d]
      /\ worker' \in [Cpus -> {"new", "top", "loop", "clear", "func", "end", "dead"}]
      /\ current_work' \in [Cpus -> Works \cup Tasks \cup {NoWork}]
  BY <1>1 DEF IInv, TypeOK
<1>4. /\ owed' \in [Tasks -> SUBSET Owed]
      /\ \A t \in Tasks, w \in Works : OwedWork(t, w)' <=> OwedWork(t, w) /\ w # x
      /\ \A t \in Tasks, d \in Cpus :
           OwedRun(t, d)' <=> OwedRun(t, d) \/ (d = c /\ OwedWork(t, x))
      /\ \A t \in Tasks : ~OwedWork(t, x) => owed'[t] = owed[t]
  BY <1>1, TakenEffect DEF IInv, OwedWork
<1>5. TypeOK'
  BY <1>1, <1>3, <1>4 DEF IInv, TypeOK
<1>6. /\ Owner(x) /\ cwq[x] = c /\ Listed(x) /\ ~Claimed(x) /\ ~Cancelled(x)
      /\ queueing[x] = Idle /\ x \notin timer
  BY <1>1 DEF IInv, Owner, Listed
<1>7. \A d \in Cpus : ~In(x, worklist'[d])
  BY <1>1, <1>2, <1>6 DEF Owner
<1>8. ASSUME NEW d \in Cpus, NEW y
      PROVE  /\ y # x => (Executes(d, y)' <=> Executes(d, y)) /\ (TakenBy(d, y)' <=> TakenBy(d, y))
             /\ y \in Tasks => (Runs(d, y)' <=> Runs(d, y))
  BY <1>1, <1>3 DEF Executes, TakenBy, Runs
<1>9. ASSUME NEW d \in Cpus PROVE CpuState(d)'
  BY <1>1, <1>2, <1>3 DEF IInv, CpuState
<1>10. ASSUME NEW v \in Works, v # x PROVE Owner(v)'
  <2>1. SameOwner(v)
    BY <1>1, <1>2, <1>8, <1>10 DEF SameOwner, Cancelling
  <2> QED BY <1>1, <2>1, OwnerFrame DEF IInv
<1>11. Owner(x)'
  <2>1. ~Listed(x)' /\ Claimed(x)'
    BY <1>3, <1>7 DEF Listed, Claimed, TakenBy
  <2>2. ~Cancelled(x)' /\ \A t \in Tasks : ~Cancelling(t, x)'
    BY <1>1, <1>6 DEF Cancelled, Cancelling
  <2>3. \A d \in Cpus : TakenBy(d, x)' => d = c
    BY <1>1, <1>3, <1>6 DEF TakenBy, Claimed
  <2>4. cwq'[x] = c /\ c # NULL
    BY <1>1, <1>6, WorkQueueAssumption DEF Cpus, NULL
  <2> QED BY <1>1, <1>6, <1>7, <2>1, <2>2, <2>3, <2>4 DEF Owner, Idle
<1>12. ASSUME NEW t \in Tasks PROVE Self(t)'
  <2>1. Self(t) /\ t # x
    BY <1>1, WorkQueueAssumption DEF IInv
  <2>2. SameTask(t)
    BY <1>1, <1>2, <1>8, <2>1 DEF SameTask
  <2>3. Locals(t)' /\ Barrier(t)'
    BY <2>1, <2>2, BarrierFrame DEF Self
  <2>4. Down(t)'
    <3>1. \A u \in Tasks : GoingDown(u)' => GoingDown(u)
      BY <1>1 DEF GoingDown
    <3> QED BY <1>1, <1>2, <2>1, <2>2, <3>1, DownFrame DEF Self
  <2>5. CancelWait(t)'
    <3>1. Cancelling(t, loc[t].work) => loc[t].work # x
      BY <1>6 DEF Cancelled
    <3> QED BY <1>1, <1>8, <2>1, <2>2, <3>1, CancelFrame DEF Self
  <2>6. ASSUME NEW d \in Cpus, OwedRun(t, d)
        PROVE  d # c /\ worker'[d] \in {"clear", "func"} /\ current_work'[d] = current_work[d]
    <3>1. worker[d] \in {"clear", "func"}
      BY <2>1, <2>6 DEF Self, Debt
    <3> QED BY <1>1, <1>3, <3>1
  <2>7. CASE ~OwedWork(t, x)
    <3>1. \A w \in Works, d \in Cpus : OwedWork(t, w)' =>
            /\ In(w, worklist[d])' <=> In(w, worklist[d])
            /\ Before(worklist[d], w, t) => Before(worklist[d], w, t)'
      BY <1>2, <1>4
    <3>2. \A d \in Cpus : OwedRun(t, d)' =>
            worker'[d] \in {"clear", "func"} /\ current_work'[d] = current_work[d]
      BY <1>4, <2>6, <2>7
    <3>3. \A w \in Works : Listed(w)' => Listed(w)
      BY <1>2 DEF Listed
    <3>4. Debt(t)' /\ FlushAll(t)' /\ FlushOne(t)'
      BY <1>1, <1>4, <2>1, <2>2, <2>7, <3>1, <3>2, <3>3, DebtFrame DEF Self
    <3> QED BY <2>3, <2>4, <2>5, <3>4 DEF Self
  <2>8. CASE OwedWork(t, x)
    <3>1. Debt(t)'
      <4>1. \A w \in Works : OwedWork(t, w)' => Listed(w)'
        BY <1>2, <1>4, <2>1 DEF Self, Debt, Listed
      <4>2. \A d \in Cpus : OwedRun(t, d)' => worker'[d] \in {"clear", "func"}
        BY <1>3, <1>4, <2>6
      <4>3. pc[t] \in {"flushCpu", "flushWait", "flushLock", "flushWorkWait"}
        BY <2>1, <2>8 DEF Self, Debt, OwedWork
      <4> QED BY <1>1, <4>1, <4>2, <4>3 DEF Debt
    <3>2. FlushAll(t)'
      BY <1>1, <1>2, <1>4, <2>1, <2>2, <2>8 DEF Self, FlushAll, SameTask
    <3>3. FlushOne(t)'
      <4>1. CASE pc[t] = "flushLock"
        <5>1. /\ x = loc[t].work /\ loc[t].cwq \in Cpus /\ In(x, worklist[loc[t].cwq])
              /\ \A v \in Works : ~OwedWork(t, v)'
          BY <1>1, <1>4, <2>1, <2>8, <4>1 DEF Self, FlushOne, Locals
        <5>2. loc[t].cwq = c
          BY <1>6, <5>1 DEF Owner
        <5>3. ~(Listed(x) \/ queueing[x].st = "add")'
          BY <1>1, <1>6, <1>7 DEF Listed, Idle
        <5>4. ASSUME NEW d \in Cpus, OwedRun(t, d)'
              PROVE  d = c /\ current_work'[d] = x
          BY <1>3, <1>4, <2>1, <2>6, <4>1, <5>1, <5>2, <5>4 DEF Self, FlushOne
        <5> QED BY <1>1, <4>1, <5>1, <5>2, <5>3, <5>4 DEF FlushOne
      <4>2. CASE pc[t] = "flushWorkWait"
        <5>1. x = loc[t].work /\ \A v \in Works : ~OwedWork(t, v)'
          BY <1>1, <1>4, <2>1, <2>8, <4>2 DEF Self, FlushOne
        <5>2. loc[t].work \in Works
          BY <1>1, <5>1
        <5>3. owed[t] # {}
          BY <2>8 DEF OwedWork
        <5>4. t \notin done /\ \A d \in Cpus : ~Runs(d, t)
          BY <1>1, <2>1, <4>2, <5>3 DEF Self, FlushOne
        <5>5. ASSUME NEW d \in Cpus, In(t, worklist'[d]), NEW e \in Cpus, OwedRun(t, e)'
              PROVE  e = d
          <6>1. In(t, worklist[d])
            BY <2>2, <5>5 DEF SameTask
          <6>2. Before(worklist[d], x, t) /\ (OwedRun(t, e) => e = d)
            BY <2>1, <2>8, <4>2, <5>1, <6>1 DEF Self, FlushOne
          <6>3. In(x, worklist[d])
            BY <6>2 DEF Before, In
          <6>4. d = c
            BY <1>6, <6>3 DEF Owner
          <6> QED BY <1>4, <5>5, <6>2, <6>4
        <5> QED BY <1>1, <1>8, <4>2, <5>1, <5>2, <5>4, <5>5 DEF FlushOne
      <4> QED BY <1>1, <4>1, <4>2 DEF FlushOne
    <3> QED BY <2>3, <2>4, <2>5, <3>1, <3>2, <3>3 DEF Self
  <2> QED BY <2>7, <2>8
<1> QED BY <1>2, <1>5, <1>9, <1>10, <1>11, <1>12 DEF IInv

(* The worker takes a barrier: everything that was in front of it is gone. *)
LEMMA TakeBarrier ==
  ASSUME IInv, NEW c \in Cpus, TakeWork(c), worklist[c] # <<>>, Head(worklist[c]) \notin Works
  PROVE  IInv'
<1>0. PICK x : x = Head(worklist[c])
  OBVIOUS
<1>1. /\ x \in Tasks /\ x \notin Works /\ In(x, worklist[c]) /\ worker[c] = "loop"
      /\ worker' = [worker EXCEPT ![c] = "func"]
      /\ current_work' = [current_work EXCEPT ![c] = x]
      /\ worklist' \in [Cpus -> Seq(Works \cup Tasks)]
      /\ owed' = Taken(c, x)
      /\ UNCHANGED <<should_stop, pending, cwq, timer, firing, queueing, pc, loc, done, online,
                     populated, role>>
  BY <1>0, TakeWorkEffect
<1>2. /\ \A d \in Cpus :
           /\ Distinct(worklist'[d])
           /\ \A y : In(y, worklist'[d]) <=> In(y, worklist[d]) /\ ~(y = x /\ d = c)
           /\ \A y, z : Before(worklist[d], y, z) /\ ~(y = x /\ d = c) =>
                          Before(worklist'[d], y, z)
      /\ \A y : ~Before(worklist[c], y, x)
  BY <1>0, TakeWorkEffect
<1>3. /\ worker'[c] = "func" /\ current_work'[c] = x
      /\ \A d \in Cpus \ {c} : worker'[d] = worker[d] /\ current_work'[d] = current_work[d]
      /\ worker' \in [Cpus -> {"new", "top", "loop", "clear", "func", "end", "dead"}]
      /\ current_work' \in [Cpus -> Works \cup Tasks \cup {NoWork}]
  BY <1>1 DEF IInv, TypeOK
<1>4. owed' \in [Tasks -> SUBSET Owed] /\ \A t \in Tasks : owed'[t] = owed[t]
  BY <1>1, TakenEffect DEF IInv
<1>5. TypeOK'
  BY <1>1, <1>3, <1>4 DEF IInv, TypeOK
<1>6. ASSUME NEW d \in Cpus, NEW y \in Works
      PROVE  /\ In(y, worklist'[d]) <=> In(y, worklist[d])
             /\ Executes(d, y)' <=> Executes(d, y)
             /\ TakenBy(d, y)' <=> TakenBy(d, y)
  BY <1>1, <1>2, <1>3 DEF Executes, TakenBy
<1>7. ASSUME NEW d \in Cpus, NEW y
      PROVE  Runs(d, y)' <=> Runs(d, y) \/ (d = c /\ y = x)
  BY <1>1, <1>3 DEF Runs
<1>8. ASSUME NEW d \in Cpus PROVE CpuState(d)'
  BY <1>1, <1>2, <1>3 DEF IInv, CpuState
<1>9. ASSUME NEW v \in Works PROVE Owner(v)'
  <2>1. SameOwner(v)
    BY <1>1, <1>6 DEF SameOwner, Cancelling
  <2> QED BY <1>1, <2>1, OwnerFrame DEF IInv
<1>10. \A u \in Tasks : GoingDown(u)' <=> GoingDown(u)
  BY <1>1 DEF GoingDown
<1>11. ASSUME NEW t \in Tasks, NEW d \in Cpus, OwedRun(t, d)
       PROVE  d # c /\ worker'[d] \in {"clear", "func"} /\ current_work'[d] = current_work[d]
  <2>1. worker[d] \in {"clear", "func"}
    BY <1>11 DEF IInv, Self, Debt
  <2> QED BY <1>1, <1>3, <2>1
<1>12. \A v \in Works : Listed(v)' <=> Listed(v)
  BY <1>6 DEF Listed
<1>13. ASSUME NEW t \in Tasks, NEW y
       PROVE  (OwedWork(t, y)' <=> OwedWork(t, y)) /\ (OwedRun(t, y)' <=> OwedRun(t, y))
  BY <1>4 DEF OwedWork, OwedRun
<1>14. ASSUME NEW t \in Tasks, t # x PROVE Self(t)'
  <2>1. Self(t) /\ SameTask(t)
    BY <1>1, <1>2, <1>7, <1>14 DEF IInv, SameTask
  <2>2. Locals(t)' /\ Barrier(t)'
    BY <2>1, BarrierFrame DEF Self
  <2>3. Down(t)'
    BY <1>1, <1>2, <1>10, <2>1, DownFrame DEF Self
  <2>4. CancelWait(t)'
    <3>1. Cancelling(t, loc[t].work) => loc[t].work \in Works
      BY <2>1 DEF Self, Locals, Cancelling
    <3> QED BY <1>1, <1>6, <2>1, <3>1, CancelFrame DEF Self
  <2>5. Debt(t)' /\ FlushAll(t)' /\ FlushOne(t)'
    BY <1>1, <1>2, <1>4, <1>6, <1>11, <1>12, <1>13, <2>1, DebtFrame DEF Self
  <2> QED BY <2>2, <2>3, <2>4, <2>5 DEF Self
<1>15. ASSUME NEW t \in Tasks, t = x PROVE Self(t)'
  <2>1. Self(t) /\ In(t, worklist[c]) /\ pc'[t] = pc[t] /\ loc'[t] = loc[t]
    BY <1>1, <1>15 DEF IInv
  <2>2. /\ Waits(t) /\ t \notin done /\ (pc[t] # "flushWorkWait" => c = loc[t].cpu)
        /\ \A d \in Cpus : ~In(t, worklist'[d]) /\ (Runs(d, t)' => d = c)
    BY <1>2, <1>7, <1>15, <2>1 DEF Self, Barrier
  <2>3. Locals(t)' /\ Barrier(t)'
    BY <1>1, <2>1, <2>2 DEF Self, Locals, Barrier, Waits
  <2>4. Down(t)'
    BY <1>1, <1>2, <1>6, <1>10, <1>15, <2>1, <2>2 DEF Self, Down, Waits
  <2>5. CancelWait(t)'
    <3>1. pc[t] \in {"waitOnWait", "waitOn", "clear"} => loc[t].work \in Works
      BY <2>1 DEF Self, Locals
    <3>2. pc[t] \in {"waitOnWait", "waitOn", "clear"} =>
            \A d \in Cpus : Executes(d, loc[t].work)' => Executes(d, loc[t].work)
      BY <1>1, <1>3, <3>1 DEF Executes
    <3> QED BY <1>1, <2>1, <2>2, <3>2 DEF Self, CancelWait, Executes
  <2>6. Debt(t)'
    BY <1>4, <1>11, <1>12, <1>13, <2>1 DEF Self, Debt
  <2>7. FlushAll(t)'
    BY <1>1, <1>2, <1>6, <1>13, <1>15, <2>1, <2>2 DEF Self, FlushAll
  <2>8. FlushOne(t)'
    <3>1. CASE pc[t] = "flushWorkWait"
      <4>1. /\ \A v \in Works : OwedWork(t, v) => v = loc[t].work
            /\ OwedWork(t, loc[t].work) => Before(worklist[c], loc[t].work, t)
            /\ \A d \in Cpus : OwedRun(t, d) => d = c
        BY <2>1, <3>1 DEF Self, FlushOne
      <4>2. owed[t] = {}
        BY <1>2, <1>11, <1>15, <4>1, NoDebt DEF IInv
      <4> QED BY <1>4, <2>1, <2>2, <3>1, <4>2 DEF FlushOne, OwedWork, OwedRun
    <3>2. CASE pc[t] # "flushWorkWait"
      BY <2>1, <2>2, <3>2 DEF FlushOne, Waits
    <3> QED BY <3>1, <3>2
  <2> QED BY <2>3, <2>4, <2>5, <2>6, <2>7, <2>8 DEF Self
<1> QED BY <1>2, <1>5, <1>8, <1>9, <1>14, <1>15 DEF IInv

-----------------------------------------------------------------------------
(* Steps of a task that touch no list.                                     *)
PcSet ==
  {"idle", "flushCpu", "flushWait", "flushed", "flushDelayed", "flushWork", "flushLock",
   "flushWorkWait", "again", "grab", "grabRead", "grabLock", "waitRead", "waitOn", "waitOnWait",
   "clear", "clearPending", "down", "downWait", "stop", "exit"}
LocSet == [work : Works \cup {NoWork}, cpu : 0 .. NCpus, cwq : 0 .. NCpus, ret : -1 .. 1,
           delayed : BOOLEAN]

LEMMA GotoEffect ==
  ASSUME TypeOK, NEW t \in Tasks, NEW from, NEW to \in PcSet, NEW l \in LocSet,
         Goto(t, from, to, l)
  PROVE  /\ pc[t] = from /\ pc'[t] = to /\ loc'[t] = l
         /\ \A u \in Tasks \ {t} : pc'[u] = pc[u] /\ loc'[u] = loc[u]
         /\ pc' \in [Tasks -> PcSet] /\ loc' \in [Tasks -> LocSet]
<1>1. pc \in [Tasks -> PcSet] /\ loc \in [Tasks -> LocSet]
  BY DEF TypeOK, PcSet, LocSet
<1> QED BY <1>1 DEF Goto

(* The local variables of a task have their types. *)
LEMMA LocType ==
  ASSUME TypeOK, NEW t \in Tasks
  PROVE  /\ loc[t] \in LocSet /\ pc[t] \in PcSet
         /\ loc[t].work \in Works \cup {NoWork} /\ loc[t].cpu \in 0 .. NCpus
         /\ loc[t].cwq \in 0 .. NCpus /\ loc[t].ret \in -1 .. 1 /\ loc[t].delayed \in BOOLEAN
         /\ Nothing \in LocSet
<1>1. loc[t] \in LocSet /\ pc[t] \in PcSet
  BY DEF TypeOK, LocSet, PcSet
<1>2. Nothing \in LocSet
  BY WorkQueueAssumption DEF Nothing, LocSet, NULL
<1> QED BY <1>1, <1>2 DEF LocSet

(* A task that does not wait, or whose barrier has completed, has no       *)
(* barrier on a list.                                                      *)
LEMMA Free ==
  ASSUME NEW t \in Tasks, Barrier(t), ~Waits(t) \/ t \in done
  PROVE  /\ \A c \in Cpus : ~In(t, worklist[c]) /\ ~Runs(c, t)
         /\ ~Waits(t) => t \notin done
  BY DEF Barrier

(* Where a task owes nothing and waits for nothing.                        *)
LEMMA Resting ==
  ASSUME NEW t \in Tasks, Locals(t)', owed'[t] = {}, t \notin done',
         \A c \in Cpus : ~In(t, worklist'[c]) /\ ~Runs(c, t)',
         pc'[t] \in {"idle", "flushed", "flushDelayed", "flushWork", "again", "grab", "grabRead",
                     "grabLock", "waitRead", "clearPending"}
  PROVE  Self(t)'
<1>1. Barrier(t)'
  BY DEF Barrier
<1>2. Down(t)' /\ CancelWait(t)'
  BY DEF Down, GoingDown, CancelWait
<1>3. Debt(t)' /\ FlushAll(t)' /\ FlushOne(t)'
  BY DEF Debt, FlushAll, FlushOne, OwedWork, OwedRun
<1> QED BY <1>1, <1>2, <1>3 DEF Self

LEMMA TaskOnly ==
  ASSUME IInv, NEW t \in Tasks, TypeOK', UNCHANGED <<worklist, worker, current_work>>,
         \A u \in Tasks \ {t} :
           /\ pc'[u] = pc[u] /\ loc'[u] = loc[u] /\ owed'[u] \subseteq owed[u]
           /\ u \in done' <=> u \in done
           /\ GoingDown(u) => online' \subseteq online /\ (GoingDown(t)' => GoingDown(t)),
         \A w \in Works : Listed(w) \/ queueing'[w].st = "add" =>
           /\ queueing'[w].st = "add" => queueing[w].st = "add"
           /\ cwq'[w] = cwq[w],
         \A c \in Cpus : CpuState(c)', \A w \in Works : Owner(w)', Self(t)'
  PROVE  IInv'
<1>1. ASSUME NEW u \in Tasks, u # t PROVE Self(u)'
  <2>1. GoingDown(u) => online' \subseteq online /\ \A v \in Tasks : GoingDown(v)' => GoingDown(v)
    <3>1. ASSUME GoingDown(u), NEW v \in Tasks, GoingDown(v)' PROVE GoingDown(v)
      <4>1. CASE v # t
        BY <3>1, <4>1 DEF GoingDown
      <4>2. CASE v = t
        BY <1>1, <3>1, <4>2
      <4> QED BY <4>1, <4>2
    <3> QED BY <1>1, <3>1
  <2> QED BY <1>1, <2>1, TaskFrame
<1>2. \A c \in Cpus : Distinct(worklist[c])'
  BY DEF IInv
<1> QED BY <1>1, <1>2 DEF IInv

(* A step that, moreover, changes nothing that concerns a work.            *)
LEMMA TaskMove ==
  ASSUME IInv, NEW t \in Tasks, TypeOK',
         UNCHANGED <<worklist, worker, current_work, pending, cwq, timer, firing, queueing, online,
                     populated, role>>,
         \A u \in Tasks \ {t} :
           /\ pc'[u] = pc[u] /\ loc'[u] = loc[u] /\ owed'[u] \subseteq owed[u]
           /\ u \in done' <=> u \in done,
         \A w \in Works : Cancelling(t, w)' <=> Cancelling(t, w),
         GoingDown(t)' => GoingDown(t), Self(t)'
  PROVE  IInv'
<1>1. ASSUME NEW c \in Cpus PROVE CpuState(c)'
  BY DEF IInv, CpuState
<1>2. ASSUME NEW w \in Works PROVE Owner(w)'
  <2>1. ASSUME NEW u \in Tasks PROVE Cancelling(u, w)' <=> Cancelling(u, w)
    <3>1. CASE u # t
      BY <3>1 DEF Cancelling
    <3> QED BY <3>1
  <2>2. SameOwner(w)
    BY <2>1 DEF SameOwner, TakenBy, Executes
  <2> QED BY <2>2, OwnerFrame DEF IInv
<1> QED BY <1>1, <1>2, TaskOnly

LEMMA NextCpuEffect ==
  ASSUME TypeOK, NEW t \in Tasks, NEW from, NEW at \in PcSet, NEW after \in PcSet,
         NextCpu(t, from, at, after)
  PROVE  /\ pc[t] = from /\ loc'[t].work = loc[t].work /\ loc'[t].ret = loc[t].ret
         /\ \/ loc[t].cpu < NCpus /\ pc'[t] = at /\ loc'[t].cpu = loc[t].cpu + 1
            \/ loc[t].cpu = NCpus /\ pc'[t] = after /\ loc'[t].cpu = NULL
         /\ \A u \in Tasks \ {t} : pc'[u] = pc[u] /\ loc'[u] = loc[u]
         /\ pc' \in [Tasks -> PcSet] /\ loc' \in [Tasks -> LocSet]
<1>0. NCpus \in Nat \ {0}
  BY WorkQueueAssumption
<1>1. CASE loc[t].cpu < NCpus
  <2> DEFINE l == [loc[t] EXCEPT !.cpu = @ + 1]
  <2>1. l \in LocSet /\ l.work = loc[t].work /\ l.ret = loc[t].ret /\ l.cpu = loc[t].cpu + 1
    BY <1>0, <1>1, LocType DEF LocSet
  <2>2. Goto(t, from, at, l)
    BY <1>1 DEF NextCpu
  <2> HIDE DEF l
  <2>3. /\ pc[t] = from /\ pc'[t] = at /\ loc'[t] = l
        /\ \A u \in Tasks \ {t} : pc'[u] = pc[u] /\ loc'[u] = loc[u]
        /\ pc' \in [Tasks -> PcSet] /\ loc' \in [Tasks -> LocSet]
    BY <2>1, <2>2, GotoEffect
  <2> QED BY <1>1, <2>1, <2>3
<1>2. CASE ~(loc[t].cpu < NCpus)
  <2> DEFINE l == [loc[t] EXCEPT !.cpu = NULL]
  <2>1. /\ l \in LocSet /\ l.work = loc[t].work /\ l.ret = loc[t].ret /\ l.cpu = NULL
        /\ loc[t].cpu = NCpus
    BY <1>0, <1>2, LocType DEF LocSet, NULL
  <2>2. Goto(t, from, after, l)
    BY <1>2 DEF NextCpu
  <2> HIDE DEF l
  <2>3. /\ pc[t] = from /\ pc'[t] = after /\ loc'[t] = l
        /\ \A u \in Tasks \ {t} : pc'[u] = pc[u] /\ loc'[u] = loc[u]
        /\ pc' \in [Tasks -> PcSet] /\ loc' \in [Tasks -> LocSet]
    BY <2>1, <2>2, GotoEffect
  <2> QED BY <2>1, <2>3
<1> QED BY <1>1, <1>2

(* flush_workqueue() goes on with the next CPU when all it is owed is on   *)
(* later CPUs.                                                             *)
LEMMA FlushNext ==
  ASSUME IInv, NEW t \in Tasks, pc[t] \in {"flushCpu", "flushWait"}, TypeOK',
         UNCHANGED <<worklist, worker, current_work, pending, cwq, timer, firing, queueing, online,
                     populated, role, owed>>,
         NextCpu(t, pc[t], "flushCpu", "flushed"), t \notin done',
         \A u \in Tasks \ {t} : u \in done' <=> u \in done,
         \A c \in Cpus : ~In(t, worklist[c]) /\ ~Runs(c, t),
         \A w \in Works : OwedWork(t, w) => ~In(w, worklist[loc[t].cpu]),
         ~OwedRun(t, loc[t].cpu)
  PROVE  IInv'
<1> DEFINE k == loc[t].cpu
<1>1. /\ k \in Cpus /\ k \in 1 .. NCpus /\ Self(t)
      /\ NCpus \in Nat
  BY WorkQueueAssumption DEF IInv, Self, Locals, Cpus
<1>2. /\ loc'[t].work = loc[t].work /\ loc'[t].ret = loc[t].ret
      /\ \/ k < NCpus /\ pc'[t] = "flushCpu" /\ loc'[t].cpu = k + 1
         \/ k = NCpus /\ pc'[t] = "flushed" /\ loc'[t].cpu = NULL
      /\ \A u \in Tasks \ {t} : pc'[u] = pc[u] /\ loc'[u] = loc[u]
  <2>1. TypeOK /\ "flushCpu" \in PcSet /\ "flushed" \in PcSet
    BY DEF IInv, PcSet
  <2> QED BY <2>1, NextCpuEffect
<1>3. \A w \in Works, c \in Cpus : OwedWork(t, w) /\ In(w, worklist[c]) => c >= k + 1
  BY <1>1 DEF Self, FlushAll, Cpus
<1>4. \A c \in Cpus : OwedRun(t, c) => c >= k + 1
  BY <1>1 DEF Self, FlushAll, Cpus
<1>5. \A c \in Cpus : ~Runs(c, t)'
  BY DEF Runs
<1>6. CASE k = NCpus
  <2>1. \A w \in Works : OwedWork(t, w) => \E c \in Cpus : In(w, worklist[c])
    BY <1>1 DEF Self, Debt, Listed
  <2>2. \A c \in Cpus : ~(c >= k + 1)
    BY <1>1, <1>6 DEF Cpus
  <2>3. owed[t] = {}
    BY <1>3, <1>4, <2>1, <2>2, NoDebt DEF IInv
  <2>4. Locals(t)'
    BY <1>1, <1>2, <1>6 DEF Locals
  <2>5. Self(t)'
    BY <1>1, <1>2, <1>5, <1>6, <2>3, <2>4, Resting
  <2>6. (\A w \in Works : Cancelling(t, w)' <=> Cancelling(t, w)) /\ ~GoingDown(t)'
    BY <1>1, <1>2, <1>6 DEF Cancelling, GoingDown
  <2> QED BY <1>2, <2>5, <2>6, TaskMove
<1>7. CASE k # NCpus
  <2>1. pc'[t] = "flushCpu" /\ loc'[t].cpu = k + 1 /\ k + 1 \in Cpus
    BY <1>1, <1>2, <1>7 DEF Cpus
  <2>2. Locals(t)' /\ Barrier(t)'
    BY <1>5, <2>1 DEF Locals, Barrier
  <2>3. Down(t)' /\ CancelWait(t)' /\ FlushOne(t)'
    BY <2>1 DEF Down, GoingDown, CancelWait, FlushOne
  <2>4. Debt(t)'
    BY <1>1, <2>1 DEF Self, Debt, Listed, OwedWork, OwedRun
  <2>5. FlushAll(t)'
    BY <1>3, <1>4, <2>1 DEF FlushAll, OwedWork, OwedRun
  <2>6. Self(t)'
    BY <2>2, <2>3, <2>4, <2>5 DEF Self
  <2>7. (\A w \in Works : Cancelling(t, w)' <=> Cancelling(t, w)) /\ ~GoingDown(t)'
    BY <2>1 DEF Cancelling, GoingDown
  <2> QED BY <1>2, <2>6, <2>7, TaskMove
<1> QED BY <1>6, <1>7

(* wait_on_work() goes on with the next CPU when the work does not run on  *)
(* this one; after the last one it runs nowhere.                           *)
LEMMA WaitNext ==
  ASSUME IInv, NEW t \in Tasks, pc[t] \in {"waitOn", "waitOnWait"}, TypeOK',
         UNCHANGED <<worklist, worker, current_work, pending, cwq, timer, firing, queueing, online,
                     populated, role, owed>>,
         NextCpu(t, pc[t], "waitOn", AfterWait(loc[t])), t \notin done',
         \A u \in Tasks \ {t} : u \in done' <=> u \in done,
         \A c \in Cpus : ~In(t, worklist[c]) /\ ~Runs(c, t),
         loc[t].ret >= 0 => ~Executes(loc[t].cpu, loc[t].work)
  PROVE  IInv'
<1> DEFINE k == loc[t].cpu
<1>1. /\ k \in Cpus /\ loc[t].work \in Works /\ Self(t) /\ NCpus \in Nat /\ loc[t].ret \in -1 .. 1
  BY WorkQueueAssumption, LocType DEF IInv, Self, Locals
<1>2. /\ AfterWait(loc[t]) \in PcSet
      /\ AfterWait(loc[t]) = IF loc[t].ret < 0 THEN "again" ELSE "clear"
  BY DEF AfterWait, PcSet
<1>3. /\ loc'[t].work = loc[t].work /\ loc'[t].ret = loc[t].ret
      /\ \/ k < NCpus /\ pc'[t] = "waitOn" /\ loc'[t].cpu = k + 1
         \/ k = NCpus /\ pc'[t] = AfterWait(loc[t]) /\ loc'[t].cpu = NULL
      /\ \A u \in Tasks \ {t} : pc'[u] = pc[u] /\ loc'[u] = loc[u]
  <2>1. TypeOK /\ "waitOn" \in PcSet
    BY DEF IInv, PcSet
  <2> QED BY <1>2, <2>1, NextCpuEffect
<1>4. loc[t].ret >= 0 => \A c \in Cpus : c < k + 1 => ~Executes(c, loc[t].work)
  BY <1>1 DEF Self, CancelWait, Cpus
<1>5. /\ \A c \in Cpus : ~Runs(c, t)' /\ (Executes(c, loc[t].work)' <=> Executes(c, loc[t].work))
      /\ owed[t] = {}
  BY <1>1, <1>3 DEF Runs, Executes, Self, Debt
<1>6. pc'[t] \in {"waitOn", "again", "clear"}
  BY <1>2, <1>3
<1>7. Locals(t)' /\ Barrier(t)'
  BY <1>1, <1>2, <1>3, <1>5, <1>6 DEF Locals, Barrier, Cpus
<1>8. Down(t)' /\ Debt(t)' /\ FlushAll(t)' /\ FlushOne(t)'
  BY <1>5, <1>6 DEF Down, GoingDown, Debt, FlushAll, FlushOne, OwedWork, OwedRun
<1>9. CancelWait(t)'
  <2>1. CASE pc'[t] = "waitOn"
    BY <1>2, <1>3, <1>4, <2>1 DEF CancelWait, Executes
  <2>2. CASE pc'[t] = "clear"
    <3>1. loc[t].ret >= 0 /\ k = NCpus
      BY <1>1, <1>2, <1>3, <2>2
    <3>2. \A c \in Cpus : c < k + 1
      BY <1>1, <3>1 DEF Cpus
    <3> QED BY <1>3, <1>4, <2>2, <3>1, <3>2 DEF CancelWait, Executes
  <2>3. CASE pc'[t] = "again"
    BY <2>3 DEF CancelWait
  <2> QED BY <1>6, <2>1, <2>2, <2>3
<1>10. Self(t)'
  BY <1>7, <1>8, <1>9 DEF Self
<1>11. (\A w \in Works : Cancelling(t, w)' <=> Cancelling(t, w)) /\ ~GoingDown(t)'
  BY <1>1, <1>2, <1>3, <1>6 DEF Cancelling, GoingDown
<1> QED BY <1>3, <1>10, <1>11, TaskMove

(* wait_for_completion() of the barrier returns.                           *)
LEMMA BarrierWaitStep ==
  ASSUME IInv, NEW t \in Tasks, BarrierWait(t)
  PROVE  IInv'
<1>1. /\ t \in done /\ done' = done \ {t}
      /\ \/ NextCpu(t, "flushWait", "flushCpu", "flushed")
         \/ NextCpu(t, "waitOnWait", "waitOn", AfterWait(loc[t]))
         \/ Goto(t, "flushWorkWait", "flushed", loc[t])
         \/ Goto(t, "downWait", "stop", loc[t])
      /\ UNCHANGED <<worklist, current_work, worker, should_stop, pending, cwq, timer, firing,
                     queueing, online, populated, role, owed>>
  BY DEF BarrierWait, lists, data, cpus
<1>2. /\ TypeOK /\ Self(t) /\ loc[t] \in LocSet
      /\ \A c \in Cpus : ~In(t, worklist[c]) /\ ~Runs(c, t)
      /\ \A u \in Tasks \ {t} : u \in done' <=> u \in done
      /\ t \notin done'
  BY <1>1, Free, LocType DEF IInv, Self
<1>3. /\ "flushCpu" \in PcSet /\ "flushed" \in PcSet /\ "waitOn" \in PcSet /\ "stop" \in PcSet
      /\ AfterWait(loc[t]) \in PcSet
  BY DEF PcSet, AfterWait
<1>4. /\ pc' \in [Tasks -> PcSet] /\ loc' \in [Tasks -> LocSet]
      /\ \A u \in Tasks \ {t} : pc'[u] = pc[u] /\ loc'[u] = loc[u]
  <2>1. CASE \/ NextCpu(t, "flushWait", "flushCpu", "flushed")
             \/ NextCpu(t, "waitOnWait", "waitOn", AfterWait(loc[t]))
    BY <1>2, <1>3, <2>1, NextCpuEffect
  <2>2. CASE \/ Goto(t, "flushWorkWait", "flushed", loc[t])
             \/ Goto(t, "downWait", "stop", loc[t])
    BY <1>2, <1>3, <2>2, GotoEffect
  <2> QED BY <1>1, <2>1, <2>2
<1>5. TypeOK'
  BY <1>1, <1>2, <1>4 DEF TypeOK, PcSet, LocSet
<1>6. CASE NextCpu(t, "flushWait", "flushCpu", "flushed")
  <2>1. pc[t] = "flushWait"
    BY <1>6 DEF NextCpu, Goto
  <2>2. /\ \A w \in Works : OwedWork(t, w) => ~In(w, worklist[loc[t].cpu])
        /\ ~OwedRun(t, loc[t].cpu)
    <3>1. loc[t].cpu \in Cpus
      BY <1>2, <2>1 DEF Self, Locals
    <3> QED BY <1>1, <1>2, <2>1, <3>1 DEF Self, FlushAll
  <2> QED BY <1>1, <1>2, <1>5, <1>6, <2>1, <2>2, FlushNext
<1>7. CASE NextCpu(t, "waitOnWait", "waitOn", AfterWait(loc[t]))
  <2>1. pc[t] = "waitOnWait"
    BY <1>7 DEF NextCpu, Goto
  <2>2. loc[t].ret >= 0 => ~Executes(loc[t].cpu, loc[t].work)
    BY <1>1, <1>2, <2>1 DEF Self, CancelWait, Locals
  <2> QED BY <1>1, <1>2, <1>5, <1>7, <2>1, <2>2, WaitNext
<1>8. CASE Goto(t, "flushWorkWait", "flushed", loc[t])
  <2>1. pc[t] = "flushWorkWait" /\ pc'[t] = "flushed" /\ loc'[t] = loc[t]
    BY <1>2, <1>3, <1>8, GotoEffect
  <2>2. 1 \in Cpus
    BY WorkQueueAssumption DEF Cpus
  <2>3. owed'[t] = {}
    BY <1>1, <1>2, <2>1, <2>2 DEF Self, FlushOne
  <2>4. Locals(t)' /\ \A c \in Cpus : ~Runs(c, t)'
    BY <1>1, <1>2, <2>1 DEF Locals, Runs
  <2>5. Self(t)'
    BY <1>1, <1>2, <2>1, <2>3, <2>4, Resting
  <2>6. (\A w \in Works : Cancelling(t, w)' <=> Cancelling(t, w)) /\ ~GoingDown(t)'
    BY <2>1 DEF Cancelling, GoingDown
  <2> QED BY <1>1, <1>2, <1>4, <1>5, <2>5, <2>6, TaskMove
<1>9. CASE Goto(t, "downWait", "stop", loc[t])
  <2>1. pc[t] = "downWait" /\ pc'[t] = "stop" /\ loc'[t] = loc[t]
    BY <1>2, <1>3, <1>9, GotoEffect
  <2>2. loc[t].cpu \in Cpus /\ owed[t] = {} /\ \A c \in Cpus : ~Runs(c, t)'
    BY <1>1, <1>2, <2>1 DEF Self, Locals, Debt, Runs
  <2>3. Locals(t)' /\ Barrier(t)'
    BY <1>1, <1>2, <2>1, <2>2 DEF Locals, Barrier
  <2>4. Down(t)'
    <3>1. \A u \in Tasks : GoingDown(u)' => GoingDown(u)
      BY <1>4, <2>1 DEF GoingDown
    <3>2. GoingDown(t)
      BY <2>1 DEF GoingDown
    <3> QED BY <1>1, <1>2, <2>1, <2>2, <3>1, <3>2 DEF Self, Down
  <2>5. CancelWait(t)' /\ Debt(t)' /\ FlushAll(t)' /\ FlushOne(t)'
    BY <1>1, <2>1, <2>2 DEF CancelWait, Debt, FlushAll, FlushOne, OwedWork, OwedRun
  <2>6. Self(t)'
    BY <2>3, <2>4, <2>5 DEF Self
  <2>7. (\A w \in Works : Cancelling(t, w)' <=> Cancelling(t, w)) /\ GoingDown(t)
    BY <2>1 DEF Cancelling, GoingDown
  <2> QED BY <1>1, <1>2, <1>4, <1>5, <2>6, <2>7, TaskMove
<1> QED BY <1>1, <1>6, <1>7, <1>8, <1>9

(* flush_workqueue() and wait_on_work() pass over a CPU.                   *)
LEMMA SkipCpu ==
  ASSUME IInv, NEW t \in Tasks, NEW at \in {"flushCpu", "waitOn"}, NEW after \in PcSet,
         pc[t] = at, NextCpu(t, at, at, after), NoBarrier,
         UNCHANGED <<current_work, worker, should_stop, data, queueing, cpus, owed>>
  PROVE  /\ TypeOK' /\ t \notin done' /\ Self(t) /\ loc[t].cpu \in Cpus
         /\ UNCHANGED <<worklist, worker, current_work, pending, cwq, timer, firing, queueing,
                        online, populated, role, owed, done>>
         /\ \A c \in Cpus : ~In(t, worklist[c]) /\ ~Runs(c, t)
<1>1. UNCHANGED <<worklist, worker, current_work, pending, cwq, timer, firing, queueing,
                  online, populated, role, owed, done, should_stop>>
  BY DEF NoBarrier, data, cpus
<1>2. at \in PcSet /\ TypeOK
  BY DEF PcSet, IInv
<1>3. pc' \in [Tasks -> PcSet] /\ loc' \in [Tasks -> LocSet]
  BY <1>2, NextCpuEffect
<1>4. TypeOK'
  BY <1>1, <1>2, <1>3 DEF TypeOK, PcSet, LocSet
<1>5. Self(t) /\ loc[t].cpu \in Cpus /\ ~Waits(t)
  BY DEF IInv, Self, Locals, Waits
<1> QED BY <1>1, <1>4, <1>5, Free DEF Self

LEMMA FlushCpuSkip ==
  ASSUME IInv, NEW t \in Tasks, FlushCpu(t), ~(loc[t].cpu \in populated /\ Active(loc[t].cpu))
  PROVE  IInv'
<1> DEFINE k == loc[t].cpu
<1>1. /\ pc[t] = "flushCpu" /\ NextCpu(t, "flushCpu", "flushCpu", "flushed") /\ NoBarrier
      /\ UNCHANGED <<current_work, worker, should_stop, data, queueing, cpus, owed>>
  BY DEF FlushCpu, LoopStep
<1>2. /\ TypeOK' /\ t \notin done' /\ Self(t) /\ k \in Cpus
      /\ UNCHANGED <<worklist, worker, current_work, pending, cwq, timer, firing, queueing,
                     online, populated, role, owed, done>>
      /\ \A c \in Cpus : ~In(t, worklist[c]) /\ ~Runs(c, t)
  <2>1. "flushed" \in PcSet
    BY DEF PcSet
  <2> QED BY <1>1, <2>1, SkipCpu
<1>3. CpuState(k) /\ worklist[k] \in Seq(Works \cup Tasks)
  BY <1>2 DEF IInv, TypeOK
<1>4. \A w \in Works : ~In(w, worklist[k])
  <2>1. CASE k \notin populated
    BY <1>3, <2>1 DEF CpuState
  <2>2. CASE worklist[k] = <<>>
    BY <2>2 DEF In, Positions
  <2> QED BY <2>1, <2>2 DEF Active
<1>5. worker[k] \notin {"clear", "func"}
  BY <1>3, WorkQueueAssumption DEF CpuState, Active
<1>6. ~OwedRun(t, k)
  BY <1>2, <1>5 DEF Self, Debt
<1> QED BY <1>1, <1>2, <1>4, <1>6, FlushNext

LEMMA WaitOnSkip ==
  ASSUME IInv, NEW t \in Tasks, WaitOn(t),
         ~(loc[t].cpu \in populated /\ current_work[loc[t].cpu] = loc[t].work)
  PROVE  IInv'
<1> DEFINE k == loc[t].cpu
<1>1. /\ pc[t] = "waitOn" /\ NextCpu(t, "waitOn", "waitOn", AfterWait(loc[t])) /\ NoBarrier
      /\ UNCHANGED <<current_work, worker, should_stop, data, queueing, cpus, owed>>
  BY DEF WaitOn, LoopStep
<1>2. /\ TypeOK' /\ t \notin done' /\ Self(t) /\ k \in Cpus
      /\ UNCHANGED <<worklist, worker, current_work, pending, cwq, timer, firing, queueing,
                     online, populated, role, owed, done>>
      /\ \A c \in Cpus : ~In(t, worklist[c]) /\ ~Runs(c, t)
  <2>1. AfterWait(loc[t]) \in PcSet
    BY DEF PcSet, AfterWait
  <2> QED BY <1>1, <2>1, SkipCpu
<1>3. ~Executes(k, loc[t].work)
  <2>1. CpuState(k)
    BY <1>2 DEF IInv
  <2> QED BY <2>1 DEF CpuState, Executes
<1> QED BY <1>1, <1>2, <1>3, WaitNext

(* A task that is not in wait_for_completion(), and its local variables.   *)
LEMMA Acting ==
  ASSUME IInv, NEW t \in Tasks, ~Waits(t)
  PROVE  /\ TypeOK /\ Self(t) /\ t \notin done /\ loc[t] \in LocSet /\ Nothing \in LocSet
         /\ \A c \in Cpus : ~In(t, worklist[c]) /\ ~Runs(c, t)
         /\ pc[t] \notin {"flushCpu", "flushLock"} => owed[t] = {}
  BY Free, LocType DEF IInv, Self, Debt, Waits

(* flush_workqueue() begins: everything that is queued or executed is      *)
(* owed.                                                                   *)
LEMMA FlushWorkqueueStep ==
  ASSUME IInv, NEW t \in Tasks, FlushWorkqueue(t)
  PROVE  IInv'
<1> DEFINE q == {<<"queued", w>> : w \in {w \in Works : ~ListEmpty(w)}}
           r == {<<"running", c>> : c \in {c \in Cpus : worker[c] \in {"clear", "func"}}}
           l == [Nothing EXCEPT !.cpu = 1]
<1>1. /\ Goto(t, "idle", "flushCpu", l) /\ owed' = [owed EXCEPT ![t] = q \cup r]
      /\ UNCHANGED <<worklist, current_work, worker, should_stop, pending, cwq, timer, firing,
                     queueing, done, online, populated, role>>
  BY DEF FlushWorkqueue, lists, data, cpus
<1>2. pc[t] = "idle"
  BY <1>1 DEF Goto
<1>3. /\ TypeOK /\ t \notin done /\ Nothing \in LocSet
      /\ \A c \in Cpus : ~In(t, worklist[c]) /\ ~Runs(c, t)
  BY <1>2, Acting DEF Waits
<1>4. l \in LocSet /\ l.cpu = 1 /\ 1 \in Cpus
  <2>1. 1 \in 0 .. NCpus /\ 1 \in Cpus
    BY WorkQueueAssumption DEF Cpus
  <2> QED BY <1>3, <2>1 DEF LocSet
<1>5. /\ pc'[t] = "flushCpu" /\ loc'[t].cpu = 1
      /\ \A u \in Tasks \ {t} : pc'[u] = pc[u] /\ loc'[u] = loc[u]
      /\ pc' \in [Tasks -> PcSet] /\ loc' \in [Tasks -> LocSet]
  <2> HIDE DEF l
  <2>1. "flushCpu" \in PcSet
    BY DEF PcSet
  <2> QED BY <1>1, <1>3, <1>4, <2>1, GotoEffect
<1>6. ASSUME NEW w \in Works, <<"queued", w>> \in q \cup r PROVE Listed(w)
  <2>1. <<"queued", w>> \notin r
    <3>1. \A c : <<"queued", w>> # <<"running", c>>
      OBVIOUS
    <3> QED BY <3>1
  <2>2. PICK v \in Works : ~ListEmpty(v) /\ <<"queued", w>> = <<"queued", v>>
    BY <1>6, <2>1
  <2> QED BY <2>2 DEF ListEmpty, Listed
<1>7. ASSUME NEW c \in Cpus, <<"running", c>> \in q \cup r PROVE worker[c] \in {"clear", "func"}
  <2>1. <<"running", c>> \notin q
    <3>1. \A w : <<"running", c>> # <<"queued", w>>
      OBVIOUS
    <3> QED BY <3>1
  <2>2. PICK d \in Cpus : worker[d] \in {"clear", "func"} /\ <<"running", c>> = <<"running", d>>
    BY <1>7, <2>1
  <2> QED BY <2>2
<1>8. q \cup r \subseteq Owed
  <2>1. q \subseteq {<<"queued", w>> : w \in Works}
    OBVIOUS
  <2>2. r \subseteq {<<"running", c>> : c \in Cpus}
    OBVIOUS
  <2> HIDE DEF q, r
  <2> QED BY <2>1, <2>2 DEF Owed
<1> HIDE DEF q, r
<1>9. /\ owed' \in [Tasks -> SUBSET Owed] /\ owed'[t] = q \cup r
      /\ \A u \in Tasks \ {t} : owed'[u] = owed[u]
  BY <1>1, <1>3, <1>8 DEF TypeOK
<1>10. TypeOK'
  BY <1>1, <1>3, <1>5, <1>9 DEF TypeOK, PcSet, LocSet
<1>11. \A c \in Cpus : ~Runs(c, t)'
  BY <1>1, <1>3 DEF Runs
<1>12. Locals(t)' /\ Barrier(t)'
  BY <1>1, <1>3, <1>4, <1>5, <1>11 DEF Locals, Barrier
<1>13. Down(t)' /\ CancelWait(t)' /\ FlushOne(t)'
  BY <1>5 DEF Down, GoingDown, CancelWait, FlushOne
<1>14. Debt(t)'
  BY <1>1, <1>5, <1>6, <1>7, <1>9 DEF Debt, Listed, OwedWork, OwedRun
<1>15. FlushAll(t)'
  BY <1>5 DEF FlushAll, Cpus
<1>16. Self(t)'
  BY <1>12, <1>13, <1>14, <1>15 DEF Self
<1>17. (\A w \in Works : Cancelling(t, w)' <=> Cancelling(t, w)) /\ ~GoingDown(t)'
  BY <1>2, <1>5 DEF Cancelling, GoingDown
<1> QED BY <1>1, <1>5, <1>9, <1>10, <1>16, <1>17, TaskMove

(* A flush returns; nothing is owed any more.                              *)
LEMMA FlushedStep ==
  ASSUME IInv, NEW t \in Tasks, Flushed(t)
  PROVE  IInv'
<1>1. /\ Goto(t, "flushed", "idle", Nothing) /\ owed' = [owed EXCEPT ![t] = {}]
      /\ UNCHANGED <<worklist, current_work, worker, should_stop, pending, cwq, timer, firing,
                     queueing, done, online, populated, role>>
  BY DEF Flushed, lists, data, cpus
<1>2. pc[t] = "flushed"
  BY <1>1 DEF Goto
<1>3. /\ TypeOK /\ t \notin done /\ Nothing \in LocSet
      /\ \A c \in Cpus : ~In(t, worklist[c]) /\ ~Runs(c, t)
  BY <1>2, Acting DEF Waits
<1>4. /\ pc'[t] = "idle"
      /\ \A u \in Tasks \ {t} : pc'[u] = pc[u] /\ loc'[u] = loc[u]
      /\ pc' \in [Tasks -> PcSet] /\ loc' \in [Tasks -> LocSet]
  <2>1. "idle" \in PcSet
    BY DEF PcSet
  <2> QED BY <1>1, <1>3, <2>1, GotoEffect
<1>5. /\ owed' \in [Tasks -> SUBSET Owed] /\ owed'[t] = {}
      /\ \A u \in Tasks \ {t} : owed'[u] = owed[u]
  BY <1>1, <1>3 DEF TypeOK
<1>6. TypeOK'
  BY <1>1, <1>3, <1>4, <1>5 DEF TypeOK, PcSet, LocSet
<1>7. Locals(t)' /\ \A c \in Cpus : ~Runs(c, t)'
  BY <1>1, <1>3, <1>4 DEF Locals, Runs
<1>8. Self(t)'
  BY <1>1, <1>3, <1>4, <1>5, <1>7, Resting
<1>9. (\A w \in Works : Cancelling(t, w)' <=> Cancelling(t, w)) /\ ~GoingDown(t)'
  BY <1>2, <1>4 DEF Cancelling, GoingDown
<1> QED BY <1>1, <1>4, <1>5, <1>6, <1>8, <1>9, TaskMove

(* flush_work() reads work->data.                                          *)
LEMMA FlushWorkStep ==
  ASSUME IInv, NEW t \in Tasks, NEW w \in Works, FlushWork(t, w)
  PROVE  IInv'
<1> DEFINE r == {<<"running", c>> : c \in {c \in Cpus : /\ c = cwq[w] /\ current_work[c] = w
                                                        /\ worker[c] \in {"clear", "func"}}}
           o == IF ~ListEmpty(w) THEN {<<"queued", w>>} ELSE r
           l == [Nothing EXCEPT !.work = w, !.cwq = cwq[w]]
           to == IF cwq[w] = NULL THEN "flushed" ELSE "flushLock"
<1>1. /\ pc[t] \in {"idle", "flushWork"} /\ Goto(t, pc[t], to, l)
      /\ owed' = [owed EXCEPT ![t] = o]
      /\ UNCHANGED <<worklist, current_work, worker, should_stop, pending, cwq, timer, firing,
                     queueing, done, online, populated, role>>
  BY DEF FlushWork, Goto, lists, data, cpus
<1>3. /\ TypeOK /\ t \notin done /\ Nothing \in LocSet
      /\ \A c \in Cpus : ~In(t, worklist[c]) /\ ~Runs(c, t)
  BY <1>1, Acting DEF Waits
<1>4. /\ cwq[w] \in 0 .. NCpus /\ (cwq[w] # NULL => cwq[w] \in Cpus)
      /\ l \in LocSet /\ l.work = w /\ l.cwq = cwq[w] /\ to \in PcSet
  <2>1. cwq[w] \in Cpus \cup {NULL}
    BY <1>3 DEF TypeOK
  <2>2. cwq[w] \in 0 .. NCpus /\ (cwq[w] # NULL => cwq[w] \in Cpus)
    BY <2>1, WorkQueueAssumption DEF Cpus, NULL
  <2>3. to \in PcSet
    BY DEF PcSet
  <2> HIDE DEF to
  <2> QED BY <1>3, <2>2, <2>3 DEF LocSet
<1>5. /\ pc'[t] = to /\ loc'[t].work = w /\ loc'[t].cwq = cwq[w]
      /\ \A u \in Tasks \ {t} : pc'[u] = pc[u] /\ loc'[u] = loc[u]
      /\ pc' \in [Tasks -> PcSet] /\ loc' \in [Tasks -> LocSet]
  <2> HIDE DEF l, to, o
  <2>1. PICK f, g, m : f = pc[t] /\ g = to /\ m = l
    OBVIOUS
  <2>2. Goto(t, f, g, m) /\ g \in PcSet /\ m \in LocSet
    BY <1>1, <1>4, <2>1
  <2>3. /\ pc'[t] = g /\ loc'[t] = m
        /\ \A u \in Tasks \ {t} : pc'[u] = pc[u] /\ loc'[u] = loc[u]
        /\ pc' \in [Tasks -> PcSet] /\ loc' \in [Tasks -> LocSet]
    BY <1>3, <2>2, GotoEffect
  <2> QED BY <1>4, <2>1, <2>3
<1>6. ~ListEmpty(w) <=> Listed(w)
  BY DEF ListEmpty, Listed
<1>7. ASSUME NEW v \in Works, <<"queued", v>> \in o PROVE v = w /\ Listed(w)
  <2>1. CASE Listed(w)
    <3>1. <<"queued", v>> = <<"queued", w>>
      BY <1>6, <1>7, <2>1
    <3> QED BY <2>1, <3>1
  <2>2. CASE ~Listed(w)
    <3>1. PICK c : <<"queued", v>> = <<"running", c>>
      BY <1>6, <1>7, <2>2
    <3>2. "queued" = "running"
      BY <3>1
    <3> QED BY <3>2
  <2> QED BY <2>1, <2>2
<1>8. ASSUME NEW c \in Cpus, <<"running", c>> \in o
      PROVE  ~Listed(w) /\ c = cwq[w] /\ current_work[c] = w /\ worker[c] \in {"clear", "func"}
  <2>1. CASE Listed(w)
    <3>1. <<"running", c>> = <<"queued", w>>
      BY <1>6, <1>8, <2>1
    <3>2. "queued" = "running"
      BY <3>1
    <3> QED BY <3>2
  <2>2. CASE ~Listed(w)
    <3>1. PICK d \in Cpus : /\ d = cwq[w] /\ current_work[d] = w
                            /\ worker[d] \in {"clear", "func"}
                            /\ <<"running", c>> = <<"running", d>>
      BY <1>6, <1>8, <2>2
    <3> QED BY <2>2, <3>1
  <2> QED BY <2>1, <2>2
<1>9. o \subseteq Owed
  <2>1. {<<"queued", w>>} \subseteq {<<"queued", v>> : v \in Works}
    OBVIOUS
  <2>2. r \subseteq {<<"running", c>> : c \in Cpus}
    OBVIOUS
  <2> HIDE DEF r
  <2> QED BY <2>1, <2>2 DEF Owed
<1> HIDE DEF o
<1>10. /\ owed' \in [Tasks -> SUBSET Owed] /\ owed'[t] = o
       /\ \A u \in Tasks \ {t} : owed'[u] = owed[u]
  BY <1>1, <1>3, <1>9 DEF TypeOK
<1>11. TypeOK'
  BY <1>1, <1>3, <1>5, <1>10 DEF TypeOK, PcSet, LocSet
<1>12. \A c \in Cpus : ~Runs(c, t)'
  BY <1>1, <1>3 DEF Runs
<1>13. Locals(t)' /\ Barrier(t)'
  BY <1>1, <1>3, <1>4, <1>5, <1>12 DEF Locals, Barrier
<1>14. Listed(w) => cwq[w] \in Cpus /\ In(w, worklist[cwq[w]])
  BY DEF IInv, Owner, Listed
<1>15. \A c \in Cpus : c # NULL
  BY WorkQueueAssumption DEF Cpus, NULL
<1>16. Self(t)'
  <2>1. CASE cwq[w] = NULL
    <3>1. /\ \A v \in Works : ~OwedWork(t, v)'
          /\ \A c \in Cpus : ~OwedRun(t, c)'
      BY <1>7, <1>8, <1>10, <1>14, <1>15, <2>1 DEF OwedWork, OwedRun
    <3>2. owed'[t] = {}
      BY <1>9, <1>10, <3>1 DEF Owed, OwedWork, OwedRun
    <3>3. pc'[t] = "flushed"
      BY <1>5, <2>1
    <3> QED BY <1>1, <1>3, <1>12, <1>13, <3>2, <3>3, Resting
  <2>2. CASE cwq[w] # NULL
    <3>1. pc'[t] = "flushLock"
      BY <1>5, <2>2
    <3>2. Down(t)' /\ CancelWait(t)' /\ FlushAll(t)'
      BY <3>1 DEF Down, GoingDown, CancelWait, FlushAll
    <3>3. Debt(t)'
      BY <1>1, <1>7, <1>8, <1>10, <3>1 DEF Debt, Listed, OwedWork, OwedRun
    <3>4. FlushOne(t)'
      BY <1>1, <1>5, <1>7, <1>8, <1>10, <1>14, <3>1 DEF FlushOne, OwedWork, OwedRun
    <3> QED BY <1>13, <3>2, <3>3, <3>4 DEF Self
  <2> QED BY <2>1, <2>2
<1>17. (\A v \in Works : Cancelling(t, v)' <=> Cancelling(t, v)) /\ ~GoingDown(t)'
  BY <1>1, <1>5 DEF Cancelling, GoingDown
<1> QED BY <1>1, <1>5, <1>10, <1>11, <1>16, <1>17, TaskMove

(* flush_work() finds the work neither on the list nor running: what it    *)
(* was owed is over.                                                       *)
LEMMA FlushLockSkip ==
  ASSUME IInv, NEW t \in Tasks, pc[t] = "flushLock", NoBarrier,
         Goto(t, "flushLock", "flushed", [loc[t] EXCEPT !.cwq = NULL]),
         IF ListEmpty(loc[t].work) THEN current_work[loc[t].cwq] # loc[t].work
         ELSE cwq[loc[t].work] # loc[t].cwq,
         UNCHANGED <<current_work, worker, should_stop, data, queueing, cpus, owed>>
  PROVE  IInv'
<1> DEFINE w == loc[t].work
           c == loc[t].cwq
           l == [loc[t] EXCEPT !.cwq = NULL]
<1>1. UNCHANGED <<worklist, current_work, worker, should_stop, pending, cwq, timer, firing,
                  queueing, done, online, populated, role, owed>>
  BY DEF NoBarrier, data, cpus
<1>2. /\ TypeOK /\ Self(t) /\ t \notin done /\ loc[t] \in LocSet
      /\ \A d \in Cpus : ~In(t, worklist[d]) /\ ~Runs(d, t)
  BY Acting DEF Waits
<1>3. w \in Works /\ c \in Cpus /\ l \in LocSet
  BY <1>2, WorkQueueAssumption DEF Self, Locals, LocSet, NULL
<1>4. /\ pc'[t] = "flushed"
      /\ \A u \in Tasks \ {t} : pc'[u] = pc[u] /\ loc'[u] = loc[u]
      /\ pc' \in [Tasks -> PcSet] /\ loc' \in [Tasks -> LocSet]
  <2>1. "flushed" \in PcSet /\ Goto(t, "flushLock", "flushed", l)
    BY DEF PcSet
  <2> HIDE DEF l
  <2> QED BY <1>2, <1>3, <2>1, GotoEffect
<1>5. TypeOK'
  BY <1>1, <1>2, <1>4 DEF TypeOK, PcSet, LocSet
<1>6. owed[t] = {}
  <2>1. /\ \A v \in Works : OwedWork(t, v) => v = w
        /\ OwedWork(t, w) => In(w, worklist[c])
        /\ \A d \in Cpus : OwedRun(t, d) => /\ d = c /\ current_work[d] = w
                                            /\ Listed(w) => cwq[w] = d
    BY <1>2 DEF Self, FlushOne
  <2>2. Owner(w) /\ (ListEmpty(w) <=> ~Listed(w))
    BY <1>3 DEF IInv, ListEmpty, Listed
  <2>3. CASE Listed(w)
    <3>1. cwq[w] # c /\ ~In(w, worklist[c])
      BY <1>3, <2>2, <2>3 DEF Owner
    <3> QED BY <1>2, <2>1, <2>3, <3>1, NoDebt
  <2>4. CASE ~Listed(w)
    <3>1. current_work[c] # w /\ ~In(w, worklist[c])
      BY <1>3, <2>2, <2>4 DEF Listed
    <3> QED BY <1>2, <2>1, <3>1, NoDebt
  <2> QED BY <2>3, <2>4
<1>7. Locals(t)' /\ \A d \in Cpus : ~Runs(d, t)'
  BY <1>1, <1>2, <1>4 DEF Locals, Runs
<1>8. Self(t)'
  BY <1>1, <1>2, <1>4, <1>6, <1>7, Resting
<1>9. (\A v \in Works : Cancelling(t, v)' <=> Cancelling(t, v)) /\ ~GoingDown(t)'
  BY <1>4 DEF Cancelling, GoingDown
<1> QED BY <1>1, <1>4, <1>5, <1>8, <1>9, TaskMove

(* What the owner of a work is, when only task t moves.                    *)
LEMMA HoldersOther ==
  ASSUME NEW t \in Tasks, NEW w \in Works, UNCHANGED <<worklist, worker, current_work>>,
         \A u \in Tasks \ {t} : pc'[u] = pc[u] /\ loc'[u] = loc[u]
  PROVE  /\ Listed(w)' <=> Listed(w)
         /\ Claimed(w)' <=> Claimed(w)
         /\ \A c \in Cpus : TakenBy(c, w)' <=> TakenBy(c, w)
         /\ \A c \in Cpus : Executes(c, w)' <=> Executes(c, w)
         /\ \A u \in Tasks \ {t} : Cancelling(u, w)' <=> Cancelling(u, w)
  BY DEF Listed, Claimed, TakenBy, Executes, Cancelling

(* Task t takes over work w or gives it up.                                *)
LEMMA TaskOwner ==
  ASSUME IInv, NEW t \in Tasks, NEW w \in Works, TypeOK',
         UNCHANGED <<worklist, worker, current_work, online, populated, role, owed, done>>,
         \A u \in Tasks \ {t} : pc'[u] = pc[u] /\ loc'[u] = loc[u],
         \A v \in Works \ {w} : /\ queueing'[v] = queueing[v] /\ cwq'[v] = cwq[v]
                                /\ v \in pending' <=> v \in pending
                                /\ v \in timer' <=> v \in timer
                                /\ v \in firing' <=> v \in firing
                                /\ Cancelling(t, v)' <=> Cancelling(t, v),
         Listed(w) \/ queueing'[w].st = "add" =>
           /\ queueing'[w].st = "add" => queueing[w].st = "add"
           /\ cwq'[w] = cwq[w],
         Owner(w)', ~GoingDown(t)', Self(t)'
  PROVE  IInv'
<1>1. ASSUME NEW c \in Cpus PROVE CpuState(c)'
  BY DEF IInv, CpuState
<1>2. ASSUME NEW v \in Works, v # w PROVE Owner(v)'
  <2>1. ASSUME NEW u \in Tasks PROVE Cancelling(u, v)' <=> Cancelling(u, v)
    BY <1>2, HoldersOther
  <2>2. SameOwner(v)
    BY <1>2, <2>1 DEF SameOwner, TakenBy, Executes
  <2> QED BY <2>2, OwnerFrame DEF IInv
<1> QED BY <1>1, <1>2, TaskOnly

(* Where __cancel_work_timer() goes, and its local variables. *)
LEMMA CancelLoc ==
  ASSUME NEW n \in LocSet, NEW w \in Works, NEW r \in {0, 1}
  PROVE  /\ [n EXCEPT !.work = w, !.delayed = TRUE, !.ret = r] \in LocSet
         /\ [n EXCEPT !.work = w, !.delayed = FALSE, !.ret = r] \in LocSet
<1>1. n.cpu \in 0 .. NCpus /\ n.cwq \in 0 .. NCpus
  BY DEF LocSet
<1>2. ASSUME NEW l, l = [n EXCEPT !.work = w, !.delayed = TRUE, !.ret = r] PROVE l \in LocSet
  <2>1. l = [work |-> w, cpu |-> n.cpu, cwq |-> n.cwq, ret |-> r, delayed |-> TRUE]
    BY <1>2 DEF LocSet
  <2> QED BY <1>1, <2>1 DEF LocSet
<1>3. ASSUME NEW l, l = [n EXCEPT !.work = w, !.delayed = FALSE, !.ret = r] PROVE l \in LocSet
  <2>1. l = [work |-> w, cpu |-> n.cpu, cwq |-> n.cwq, ret |-> r, delayed |-> FALSE]
    BY <1>3 DEF LocSet
  <2> QED BY <1>1, <2>1 DEF LocSet
<1> QED BY <1>2, <1>3

LEMMA CancelGoto ==
  ASSUME NEW t \in Tasks, NEW w \in Works, NEW from, NEW to, NEW r \in {0, 1},
         Nothing \in LocSet, Cancel(t, w, TRUE, from, to, r) \/ Cancel(t, w, FALSE, from, to, r)
  PROVE  \E l \in LocSet : l.work = w /\ l.ret = r /\ Goto(t, from, to, l)
<1>1. CASE Cancel(t, w, TRUE, from, to, r)
  <2>1. PICK l : l = [Nothing EXCEPT !.work = w, !.delayed = TRUE, !.ret = r]
    OBVIOUS
  <2>2. l \in LocSet
    BY <2>1, CancelLoc
  <2>3. l.work = w /\ l.ret = r
    BY <2>1 DEF LocSet
  <2>4. Goto(t, from, to, l)
    BY <1>1, <2>1 DEF Cancel
  <2> QED BY <2>2, <2>3, <2>4
<1>2. CASE Cancel(t, w, FALSE, from, to, r)
  <2>1. PICK l : l = [Nothing EXCEPT !.work = w, !.delayed = FALSE, !.ret = r]
    OBVIOUS
  <2>2. l \in LocSet
    BY <2>1, CancelLoc
  <2>3. l.work = w /\ l.ret = r
    BY <2>1 DEF LocSet
  <2>4. Goto(t, from, to, l)
    BY <1>2, <2>1 DEF Cancel
  <2> QED BY <2>2, <2>3, <2>4
<1> QED BY <1>1, <1>2

LEMMA CancelEffect ==
  ASSUME IInv, NEW t \in Tasks, NEW w \in Works,
         NEW from \in {"idle", "again", "grab"}, NEW to \in {"waitRead", "grab", "grabRead"},
         NEW r \in {0, 1}, NEW l \in LocSet, l.work = w, l.ret = r, Goto(t, from, to, l),
         UNCHANGED <<worklist, worker, current_work, owed, done>>
  PROVE  /\ \A u \in Tasks \ {t} : pc'[u] = pc[u] /\ loc'[u] = loc[u]
         /\ pc' \in [Tasks -> PcSet] /\ loc' \in [Tasks -> LocSet]
         /\ Self(t)' /\ ~GoingDown(t)'
         /\ \A v \in Works : ~Cancelling(t, v) /\ (Cancelling(t, v)' <=> v = w /\ to = "waitRead")
<1>3. pc[t] = from
  BY DEF Goto
<1>4. /\ TypeOK /\ t \notin done /\ Nothing \in LocSet /\ owed[t] = {}
      /\ \A c \in Cpus : ~In(t, worklist[c]) /\ ~Runs(c, t)
  BY <1>3, Acting DEF Waits
<1>6. /\ pc'[t] = to /\ loc'[t] = l
      /\ \A u \in Tasks \ {t} : pc'[u] = pc[u] /\ loc'[u] = loc[u]
      /\ pc' \in [Tasks -> PcSet] /\ loc' \in [Tasks -> LocSet]
  <2>1. to \in PcSet
    BY DEF PcSet
  <2> QED BY <1>4, <2>1, GotoEffect
<1>7. Locals(t)' /\ \A c \in Cpus : ~Runs(c, t)'
  BY <1>4, <1>6 DEF Locals, Runs
<1>8. Self(t)'
  BY <1>4, <1>6, <1>7, Resting
<1>9. /\ \A v \in Works : ~Cancelling(t, v) /\ (Cancelling(t, v)' <=> v = w /\ to = "waitRead")
      /\ ~GoingDown(t)'
  BY <1>3, <1>6 DEF Cancelling, GoingDown
<1> QED BY <1>3, <1>6, <1>8, <1>9

(* del_timer() takes the work over from the timer, or goes on.             *)
LEMMA DelTimerStep ==
  ASSUME IInv, NEW t \in Tasks, NEW w \in Works, DelTimer(t, w)
  PROVE  IInv'
<1>1. PICK from \in {"idle", "again"} :
        IF w \in timer THEN Cancel(t, w, TRUE, from, "waitRead", 1)
        ELSE Cancel(t, w, TRUE, from, "grab", 0)
  BY DEF DelTimer
<1>2. /\ timer' = timer \ {w}
      /\ UNCHANGED <<worklist, current_work, worker, should_stop, pending, cwq, firing, queueing,
                     done, online, populated, role, owed>>
  BY DEF DelTimer, lists, cpus
<1>3. PICK to \in {"waitRead", "grab"}, r \in {0, 1} :
        Cancel(t, w, TRUE, from, to, r) /\ (to = "waitRead" <=> w \in timer)
  <2>1. CASE w \in timer
    BY <1>1, <2>1, Zenon
  <2>2. CASE w \notin timer
    BY <1>1, <2>2, Zenon
  <2> QED BY <2>1, <2>2
<1>4. /\ \A u \in Tasks \ {t} : pc'[u] = pc[u] /\ loc'[u] = loc[u]
      /\ pc' \in [Tasks -> PcSet] /\ loc' \in [Tasks -> LocSet]
      /\ Self(t)' /\ ~GoingDown(t)'
      /\ \A v \in Works : ~Cancelling(t, v) /\ (Cancelling(t, v)' <=> v = w /\ w \in timer)
  <2>1. /\ from \in {"idle", "again", "grab"} /\ to \in {"waitRead", "grab", "grabRead"}
        /\ UNCHANGED <<worklist, worker, current_work, owed, done>>
    BY <1>2
  <2>2. PICK l \in LocSet : l.work = w /\ l.ret = r /\ Goto(t, from, to, l)
    <3>1. Nothing \in LocSet
      BY LocType DEF IInv
    <3> QED BY <1>3, <3>1, CancelGoto
  <2>3. to = "waitRead" <=> w \in timer
    BY <1>3
  <2> QED BY <2>1, <2>2, <2>3, CancelEffect
<1>5. TypeOK'
  BY <1>2, <1>4 DEF IInv, TypeOK, PcSet, LocSet
<1>6. Owner(w)'
  <2>1. Owner(w)
    BY DEF IInv
  <2>2. Cancelled(w)' <=> w \in timer \/ Cancelled(w)
    BY <1>2, <1>4, HoldersOther DEF Cancelled
  <2>3. \A u, v \in Tasks : Cancelling(u, w)' /\ Cancelling(v, w)' => u = v
    BY <1>2, <1>4, <2>1, HoldersOther DEF Owner, Cancelled
  <2> QED BY <1>2, <1>4, <2>1, <2>2, <2>3, HoldersOther DEF Owner
<1> QED BY <1>2, <1>4, <1>5, <1>6, TaskOwner

(* try_to_grab_pending() begins from one of three places.                  *)
LEMMA GrabForms ==
  ASSUME NEW t \in Tasks, NEW w \in Works, Grab(t, w)
  PROVE  \E from \in {"idle", "again", "grab"}, to \in {"waitRead", "grabRead"} :
           /\ Cancel(t, w, TRUE, from, to, 0) \/ Cancel(t, w, FALSE, from, to, 0)
           /\ to = "waitRead" <=> w \notin pending
<1>1. PICK at \in {<<"idle", FALSE>>, <<"again", FALSE>>, <<"grab", TRUE>>} :
        IF w \notin pending THEN Cancel(t, w, at[2], at[1], "waitRead", 0)
        ELSE Cancel(t, w, at[2], at[1], "grabRead", 0)
  BY DEF Grab
<1>2. PICK to \in {"waitRead", "grabRead"} :
        Cancel(t, w, at[2], at[1], to, 0) /\ (to = "waitRead" <=> w \notin pending)
  <2>1. CASE w \in pending
    BY <1>1, <2>1, Zenon
  <2>2. CASE w \notin pending
    BY <1>1, <2>2
  <2> QED BY <2>1, <2>2
<1>3. CASE at = <<"idle", FALSE>>
  <2>1. Cancel(t, w, FALSE, "idle", to, 0)
    BY <1>2, <1>3
  <2> QED BY <1>2, <2>1
<1>4. CASE at = <<"again", FALSE>>
  <2>1. Cancel(t, w, FALSE, "again", to, 0)
    BY <1>2, <1>4
  <2> QED BY <1>2, <2>1
<1>5. CASE at = <<"grab", TRUE>>
  <2>1. Cancel(t, w, TRUE, "grab", to, 0)
    BY <1>2, <1>5
  <2> QED BY <1>2, <2>1
<1> QED BY <1>1, <1>3, <1>4, <1>5

(* try_to_grab_pending(): test_and_set_bit() takes over a work nobody owns. *)
LEMMA GrabStep ==
  ASSUME IInv, NEW t \in Tasks, NEW w \in Works, Grab(t, w)
  PROVE  IInv'
<1>1. PICK from \in {"idle", "again", "grab"}, to \in {"waitRead", "grabRead"} :
        /\ Cancel(t, w, TRUE, from, to, 0) \/ Cancel(t, w, FALSE, from, to, 0)
        /\ to = "waitRead" <=> w \notin pending
  BY GrabForms
<1>2. /\ pending' = pending \cup {w}
      /\ UNCHANGED <<worklist, current_work, worker, should_stop, cwq, timer, firing, queueing,
                     done, online, populated, role, owed>>
  BY DEF Grab, lists, cpus
<1>4. /\ \A u \in Tasks \ {t} : pc'[u] = pc[u] /\ loc'[u] = loc[u]
      /\ pc' \in [Tasks -> PcSet] /\ loc' \in [Tasks -> LocSet]
      /\ Self(t)' /\ ~GoingDown(t)'
      /\ \A v \in Works : ~Cancelling(t, v) /\ (Cancelling(t, v)' <=> v = w /\ w \notin pending)
  <2>1. /\ from \in {"idle", "again", "grab"} /\ to \in {"waitRead", "grab", "grabRead"}
        /\ UNCHANGED <<worklist, worker, current_work, owed, done>>
    BY <1>2
  <2>2. PICK l \in LocSet : l.work = w /\ l.ret = 0 /\ Goto(t, from, to, l)
    <3>1. Nothing \in LocSet
      BY LocType DEF IInv
    <3> QED BY <1>1, <3>1, CancelGoto
  <2>3. to = "waitRead" <=> w \notin pending
    BY <1>1
  <2> QED BY <2>1, <2>2, <2>3, CancelEffect
<1>5. TypeOK'
  BY <1>2, <1>4 DEF IInv, TypeOK, PcSet, LocSet
<1>6. Owner(w)'
  <2>1. Owner(w)
    BY DEF IInv
  <2>2. Cancelled(w)' <=> w \notin pending \/ Cancelled(w)
    BY <1>2, <1>4, HoldersOther DEF Cancelled
  <2>3. \A u, v \in Tasks : Cancelling(u, w)' /\ Cancelling(v, w)' => u = v
    BY <1>2, <1>4, <2>1, HoldersOther DEF Owner, Cancelled
  <2> QED BY <1>2, <1>4, <2>1, <2>2, <2>3, HoldersOther DEF Owner
<1> QED BY <1>2, <1>4, <1>5, <1>6, TaskOwner

(* A task in __cancel_work_timer() that has no claim on the work yet goes  *)
(* on within it.                                                           *)
LEMMA CancelMove ==
  ASSUME IInv, NEW t \in Tasks, pc[t] \in {"grabRead", "grabLock"},
         NEW to \in {"waitRead", "grabLock"}, NEW l \in LocSet, l.work = loc[t].work,
         to = "grabLock" => l.cwq \in Cpus, to = "waitRead" => l.ret = -1,
         Goto(t, pc[t], to, l),
         UNCHANGED <<lists, data, queueing, done, cpus, owed>>
  PROVE  IInv'
<1>1. UNCHANGED <<worklist, current_work, worker, should_stop, pending, cwq, timer, firing,
                  queueing, done, online, populated, role, owed>>
  BY DEF lists, data, cpus
<1>2. /\ TypeOK /\ Self(t) /\ t \notin done /\ owed[t] = {}
      /\ \A c \in Cpus : ~In(t, worklist[c]) /\ ~Runs(c, t)
  BY Acting DEF Waits
<1>3. loc[t].work \in Works
  BY <1>2 DEF Self, Locals
<1>4. /\ pc'[t] = to /\ loc'[t] = l
      /\ \A u \in Tasks \ {t} : pc'[u] = pc[u] /\ loc'[u] = loc[u]
      /\ pc' \in [Tasks -> PcSet] /\ loc' \in [Tasks -> LocSet]
  <2>1. to \in PcSet
    BY DEF PcSet
  <2>2. PICK f : f = pc[t]
    OBVIOUS
  <2>3. Goto(t, f, to, l)
    BY <2>2
  <2> QED BY <1>2, <2>1, <2>3, GotoEffect
<1>5. TypeOK'
  BY <1>1, <1>2, <1>4 DEF TypeOK, PcSet, LocSet
<1>6. Locals(t)' /\ \A c \in Cpus : ~Runs(c, t)'
  BY <1>1, <1>2, <1>3, <1>4 DEF Locals, Runs
<1>7. Self(t)'
  BY <1>1, <1>2, <1>4, <1>6, Resting
<1>8. (\A v \in Works : Cancelling(t, v)' <=> Cancelling(t, v)) /\ ~GoingDown(t)'
  BY <1>4 DEF Cancelling, GoingDown
<1> QED BY <1>1, <1>4, <1>5, <1>7, <1>8, TaskMove

LEMMA GrabReadStep ==
  ASSUME IInv, NEW t \in Tasks, GrabRead(t)
  PROVE  IInv'
<1> DEFINE c == cwq[loc[t].work]
<1>1. /\ pc[t] = "grabRead" /\ UNCHANGED <<lists, data, queueing, done, cpus, owed>>
      /\ IF c = NULL THEN Goto(t, "grabRead", "waitRead", [loc[t] EXCEPT !.ret = -1])
         ELSE Goto(t, "grabRead", "grabLock", [loc[t] EXCEPT !.cwq = c])
  BY DEF GrabRead
<1>2. loc[t] \in LocSet /\ loc[t].work \in Works
  BY <1>1, LocType DEF IInv, Self, Locals
<1>3. CASE c = NULL
  <2>1. PICK l : l = [loc[t] EXCEPT !.ret = -1]
    OBVIOUS
  <2>2. l \in LocSet /\ l.work = loc[t].work /\ l.ret = -1
    BY <1>2, <2>1 DEF LocSet
  <2>3. Goto(t, pc[t], "waitRead", l)
    BY <1>1, <1>3, <2>1
  <2> QED BY <1>1, <2>2, <2>3, CancelMove
<1>4. CASE c # NULL
  <2>1. PICK l : l = [loc[t] EXCEPT !.cwq = c]
    OBVIOUS
  <2>2. c \in Cpus /\ c \in 0 .. NCpus
    BY <1>2, <1>4, WorkQueueAssumption DEF IInv, TypeOK, Cpus
  <2>3. l \in LocSet /\ l.work = loc[t].work /\ l.cwq = c
    BY <1>2, <2>1, <2>2 DEF LocSet
  <2>4. Goto(t, pc[t], "grabLock", l)
    BY <1>1, <1>4, <2>1
  <2> QED BY <1>1, <2>2, <2>3, <2>4, CancelMove
<1> QED BY <1>3, <1>4

LEMMA GrabLockMiss ==
  ASSUME IInv, NEW t \in Tasks, GrabLock(t),
         ~(~ListEmpty(loc[t].work) /\ cwq[loc[t].work] = loc[t].cwq)
  PROVE  IInv'
<1>1. /\ pc[t] = "grabLock" /\ UNCHANGED <<lists, data, queueing, done, cpus, owed>>
      /\ Goto(t, "grabLock", "waitRead", [loc[t] EXCEPT !.ret = -1])
  BY DEF GrabLock, lists
<1>2. loc[t] \in LocSet
  BY LocType DEF IInv
<1>3. PICK l : l = [loc[t] EXCEPT !.ret = -1]
  OBVIOUS
<1>4. l \in LocSet /\ l.work = loc[t].work /\ l.ret = -1
  BY <1>2, <1>3 DEF LocSet
<1>5. Goto(t, pc[t], "waitRead", l)
  BY <1>1, <1>3
<1> QED BY <1>1, <1>4, <1>5, CancelMove

(* wait_on_work(): a work that has never been queued runs nowhere.         *)
LEMMA WaitReadStep ==
  ASSUME IInv, NEW t \in Tasks, WaitRead(t)
  PROVE  IInv'
<1> DEFINE w == loc[t].work
<1>1. /\ pc[t] = "waitRead"
      /\ IF cwq[w] = NULL
         THEN Goto(t, "waitRead", AfterWait(loc[t]), [loc[t] EXCEPT !.cwq = NULL])
         ELSE Goto(t, "waitRead", "waitOn", [loc[t] EXCEPT !.cwq = NULL, !.cpu = 1])
      /\ UNCHANGED <<worklist, current_work, worker, should_stop, pending, cwq, timer, firing,
                     queueing, done, online, populated, role, owed>>
  BY DEF WaitRead, lists, data, cpus
<1>2. /\ TypeOK /\ Self(t) /\ t \notin done /\ owed[t] = {} /\ loc[t] \in LocSet
      /\ \A c \in Cpus : ~In(t, worklist[c]) /\ ~Runs(c, t)
  BY <1>1, Acting DEF Waits
<1>3. w \in Works /\ loc[t].ret \in -1 .. 1 /\ 1 \in Cpus /\ NCpus \in Nat
  BY <1>1, <1>2, WorkQueueAssumption DEF Self, Locals, LocSet, Cpus
<1>4. PICK to, l : /\ Goto(t, "waitRead", to, l) /\ l \in LocSet
                   /\ l.work = w /\ l.ret = loc[t].ret
                   /\ \/ /\ cwq[w] = NULL /\ to = IF loc[t].ret < 0 THEN "again" ELSE "clear"
                      \/ to = "waitOn" /\ l.cpu = 1
  <2>1. CASE cwq[w] = NULL
    <3>1. PICK to, l : to = AfterWait(loc[t]) /\ l = [loc[t] EXCEPT !.cwq = NULL]
      OBVIOUS
    <3>2. Goto(t, "waitRead", to, l)
      BY <1>1, <2>1, <3>1
    <3>3. NULL \in 0 .. NCpus
      BY <1>3 DEF NULL
    <3>4. l \in LocSet /\ l.work = w /\ l.ret = loc[t].ret
      BY <1>2, <3>1, <3>3 DEF LocSet
    <3> QED BY <2>1, <3>1, <3>2, <3>4 DEF AfterWait
  <2>2. CASE cwq[w] # NULL
    <3>1. PICK l : l = [loc[t] EXCEPT !.cwq = NULL, !.cpu = 1]
      OBVIOUS
    <3>2. Goto(t, "waitRead", "waitOn", l)
      BY <1>1, <2>2, <3>1
    <3>3. NULL \in 0 .. NCpus /\ 1 \in 0 .. NCpus
      BY <1>3 DEF NULL, Cpus
    <3>4. l \in LocSet /\ l.work = w /\ l.ret = loc[t].ret /\ l.cpu = 1
      BY <1>2, <3>1, <3>3 DEF LocSet
    <3> QED BY <3>2, <3>4
  <2> QED BY <2>1, <2>2
<1>5. /\ pc'[t] = to /\ loc'[t] = l
      /\ \A u \in Tasks \ {t} : pc'[u] = pc[u] /\ loc'[u] = loc[u]
      /\ pc' \in [Tasks -> PcSet] /\ loc' \in [Tasks -> LocSet]
  <2>1. to \in PcSet
    BY <1>4 DEF PcSet
  <2>2. Goto(t, "waitRead", to, l) /\ l \in LocSet
    BY <1>4
  <2> QED BY <1>2, <2>1, <2>2, GotoEffect
<1>6. TypeOK'
  BY <1>1, <1>2, <1>5 DEF TypeOK, PcSet, LocSet
<1>7. to \in {"again", "clear", "waitOn"} /\ \A c \in Cpus : ~Runs(c, t)'
  BY <1>1, <1>2, <1>4 DEF Runs
<1>8. Locals(t)' /\ Barrier(t)'
  BY <1>1, <1>2, <1>3, <1>4, <1>5, <1>7 DEF Locals, Barrier
<1>9. Down(t)' /\ Debt(t)' /\ FlushAll(t)' /\ FlushOne(t)'
  BY <1>1, <1>2, <1>5, <1>7 DEF Down, GoingDown, Debt, FlushAll, FlushOne, OwedWork, OwedRun
<1>10. CancelWait(t)'
  <2>1. CASE to = "waitOn"
    <3>1. \A c \in Cpus : ~(c < 1)
      BY DEF Cpus
    <3> QED BY <1>4, <1>5, <2>1, <3>1 DEF CancelWait
  <2>2. CASE to = "clear"
    <3>1. \A c \in Cpus : ~Executes(c, w)
      BY <1>3, <1>4, <2>2 DEF IInv, Owner
    <3> QED BY <1>1, <1>4, <1>5, <2>2, <3>1 DEF CancelWait, Executes
  <2>3. CASE to = "again"
    BY <1>5, <2>3 DEF CancelWait
  <2> QED BY <1>7, <2>1, <2>2, <2>3
<1>11. Self(t)'
  BY <1>8, <1>9, <1>10 DEF Self
<1>12. (\A v \in Works : Cancelling(t, v)' <=> Cancelling(t, v)) /\ ~GoingDown(t)'
  BY <1>1, <1>3, <1>4, <1>5, <1>7 DEF Cancelling, GoingDown
<1> QED BY <1>1, <1>5, <1>6, <1>11, <1>12, TaskMove

(* A task gives a work up, and returns.                                    *)
LEMMA GiveUp ==
  ASSUME IInv, NEW t \in Tasks, pc[t] \in {"clear", "clearPending"}, NEW w, w = loc[t].work,
         Goto(t, pc[t], "idle", Nothing), pending' = pending \ {w},
         cwq' = cwq \/ (pc[t] = "clear" /\ cwq' = [cwq EXCEPT ![w] = NULL]),
         UNCHANGED <<worklist, current_work, worker, should_stop, timer, firing, queueing, done,
                     online, populated, role, owed>>
  PROVE  IInv'
<1>1. /\ TypeOK /\ Self(t) /\ t \notin done /\ owed[t] = {} /\ Nothing \in LocSet
      /\ \A c \in Cpus : ~In(t, worklist[c]) /\ ~Runs(c, t)
  BY Acting DEF Waits
<1>2. w \in Works /\ Owner(w) /\ Cancelling(t, w) /\ Cancelled(w)
  BY <1>1 DEF IInv, Self, Locals, Cancelling, Cancelled
<1>3. /\ pc'[t] = "idle"
      /\ \A u \in Tasks \ {t} : pc'[u] = pc[u] /\ loc'[u] = loc[u]
      /\ pc' \in [Tasks -> PcSet] /\ loc' \in [Tasks -> LocSet]
  <2>1. "idle" \in PcSet
    BY DEF PcSet
  <2>2. PICK f : f = pc[t]
    OBVIOUS
  <2>3. Goto(t, f, "idle", Nothing)
    BY <2>2
  <2> QED BY <1>1, <2>1, <2>3, GotoEffect
<1>4. /\ cwq' \in [Works -> Cpus \cup {NULL}] /\ (pc[t] # "clear" => cwq'[w] = cwq[w])
      /\ \A v \in Works \ {w} : cwq'[v] = cwq[v]
  BY <1>1, <1>2 DEF TypeOK
<1>5. ~Listed(w) /\ ~Claimed(w) /\ w \notin timer /\ queueing[w] = Idle /\ w \notin firing
  BY <1>2 DEF Owner, Idle
<1>6. TypeOK'
  BY <1>1, <1>3, <1>4, <1>5 DEF TypeOK, PcSet, LocSet
<1>7. Locals(t)' /\ \A c \in Cpus : ~Runs(c, t)'
  BY <1>1, <1>3 DEF Locals, Runs
<1>8. Self(t)'
  BY <1>1, <1>3, <1>7, Resting
<1>9. \A v \in Works : ~Cancelling(t, v)' /\ (Cancelling(t, v) => v = w)
  BY <1>3 DEF Cancelling
<1>10. Owner(w)'
  <2>1. \A u \in Tasks : ~Cancelling(u, w)'
    BY <1>2, <1>3, <1>9, HoldersOther DEF Owner
  <2>2. ~Cancelled(w)' /\ ~Listed(w)' /\ ~Claimed(w)'
    BY <1>2, <1>3, <1>5, <2>1, HoldersOther DEF Cancelled
  <2>3. \A c \in Cpus : ~In(w, worklist'[c]) /\ ~TakenBy(c, w)'
    BY <2>2 DEF Listed, Claimed
  <2>4. \A c \in Cpus : Executes(c, w)' => cwq'[w] # NULL
    <3>1. CASE pc[t] = "clear"
      <4>1. \A c \in Cpus : ~Executes(c, w)
        BY <1>1, <3>1 DEF Self, CancelWait
      <4> QED BY <1>2, <1>3, <4>1, HoldersOther
    <3>2. CASE pc[t] # "clear"
      BY <1>2, <1>3, <1>4, <3>2, HoldersOther DEF Owner
    <3> QED BY <3>1, <3>2
  <2> QED BY <1>5, <2>1, <2>2, <2>3, <2>4 DEF Owner, Idle
<1>11. ~GoingDown(t)'
  BY <1>3 DEF GoingDown
<1>12. queueing[w].st # "add"
  BY <1>5 DEF Idle
<1> QED BY <1>2, <1>3, <1>4, <1>5, <1>6, <1>8, <1>9, <1>10, <1>11, <1>12, TaskOwner

LEMMA ClearStep ==
  ASSUME IInv, NEW t \in Tasks, ClearWqData(t) \/ WorkClearPending(t)
  PROVE  IInv'
<1>1. PICK w : w = loc[t].work
  OBVIOUS
<1>2. CASE ClearWqData(t)
  <2>1. /\ pc[t] = "clear" /\ Goto(t, pc[t], "idle", Nothing) /\ pending' = pending \ {w}
        /\ cwq' = [cwq EXCEPT ![w] = NULL]
        /\ UNCHANGED <<worklist, current_work, worker, should_stop, timer, firing, queueing, done,
                       online, populated, role, owed>>
    BY <1>1, <1>2 DEF ClearWqData, Goto, lists, cpus
  <2> QED BY <1>1, <2>1, GiveUp
<1>3. CASE WorkClearPending(t)
  <2>1. /\ pc[t] = "clearPending" /\ Goto(t, pc[t], "idle", Nothing) /\ pending' = pending \ {w}
        /\ cwq' = cwq
        /\ UNCHANGED <<worklist, current_work, worker, should_stop, timer, firing, queueing, done,
                       online, populated, role, owed>>
    BY <1>1, <1>3 DEF WorkClearPending, Goto, lists, cpus
  <2> QED BY <1>1, <2>1, GiveUp
<1> QED BY <1>2, <1>3

(* cancel_delayed_work() takes the work over from the timer, and           *)
(* flush_delayed_work() hands it to a queueing.                            *)
LEMMA CancelDelayedWorkStep ==
  ASSUME IInv, NEW t \in Tasks, NEW w \in Works, CancelDelayedWork(t, w)
  PROVE  IInv'
<1>1. PICK l : l = [Nothing EXCEPT !.work = w]
  OBVIOUS
<1>2. /\ w \in timer /\ Goto(t, "idle", "clearPending", l) /\ timer' = timer \ {w}
      /\ UNCHANGED <<worklist, current_work, worker, should_stop, pending, cwq, firing, queueing,
                     done, online, populated, role, owed>>
  BY <1>1 DEF CancelDelayedWork, lists, cpus
<1>3. pc[t] = "idle"
  BY <1>2 DEF Goto
<1>4. /\ TypeOK /\ t \notin done /\ owed[t] = {} /\ Nothing \in LocSet
      /\ \A c \in Cpus : ~In(t, worklist[c]) /\ ~Runs(c, t)
  BY <1>3, Acting DEF Waits
<1>5. l \in LocSet /\ l.work = w /\ "clearPending" \in PcSet
  BY <1>1, <1>4 DEF LocSet, PcSet
<1>6. /\ pc'[t] = "clearPending" /\ loc'[t] = l
      /\ \A u \in Tasks \ {t} : pc'[u] = pc[u] /\ loc'[u] = loc[u]
      /\ pc' \in [Tasks -> PcSet] /\ loc' \in [Tasks -> LocSet]
  BY <1>2, <1>4, <1>5, GotoEffect
<1>7. TypeOK'
  BY <1>2, <1>4, <1>6 DEF TypeOK, PcSet, LocSet
<1>8. Locals(t)' /\ \A c \in Cpus : ~Runs(c, t)'
  BY <1>2, <1>4, <1>5, <1>6 DEF Locals, Runs
<1>9. Self(t)'
  BY <1>2, <1>4, <1>6, <1>8, Resting
<1>10. /\ \A v \in Works : ~Cancelling(t, v) /\ (Cancelling(t, v)' <=> v = w)
       /\ ~GoingDown(t)'
  BY <1>3, <1>5, <1>6 DEF Cancelling, GoingDown
<1>11. Owner(w)'
  <2>1. Owner(w)
    BY DEF IInv
  <2>2. Cancelled(w)'
    BY <1>10 DEF Cancelled
  <2>3. \A u, v \in Tasks : Cancelling(u, w)' /\ Cancelling(v, w)' => u = v
    BY <1>2, <1>6, <1>10, <2>1, HoldersOther DEF Owner, Cancelled
  <2> QED BY <1>2, <1>6, <2>1, <2>2, <2>3, HoldersOther DEF Owner
<1> QED BY <1>2, <1>6, <1>7, <1>9, <1>10, <1>11, TaskOwner

LEMMA FlushDelayedWorkStep ==
  ASSUME IInv, NEW t \in Tasks, NEW w \in Works, NEW c \in Cpus, FlushDelayedWork(t, w, c)
  PROVE  IInv'
<1>1. PICK l : l = [Nothing EXCEPT !.work = w]
  OBVIOUS
<1>2. PICK to \in {"flushDelayed", "flushWork"} :
        /\ Goto(t, "idle", to, l) /\ c \in online
        /\ \/ w \in timer /\ timer' = timer \ {w} /\ Stage(w, "insert", c)
           \/ UNCHANGED <<timer, queueing>>
        /\ UNCHANGED <<worklist, current_work, worker, should_stop, pending, cwq, firing, done,
                       online, populated, role, owed>>
  BY <1>1 DEF FlushDelayedWork, lists, cpus
<1>3. pc[t] = "idle"
  BY <1>2 DEF Goto
<1>4. /\ TypeOK /\ t \notin done /\ owed[t] = {} /\ Nothing \in LocSet
      /\ \A d \in Cpus : ~In(t, worklist[d]) /\ ~Runs(d, t)
  BY <1>3, Acting DEF Waits
<1>5. l \in LocSet /\ l.work = w /\ to \in PcSet
  BY <1>1, <1>4 DEF LocSet, PcSet
<1>6. /\ pc'[t] = to /\ loc'[t] = l
      /\ \A u \in Tasks \ {t} : pc'[u] = pc[u] /\ loc'[u] = loc[u]
      /\ pc' \in [Tasks -> PcSet] /\ loc' \in [Tasks -> LocSet]
  <2>1. Goto(t, "idle", to, l)
    BY <1>2
  <2> QED BY <1>4, <1>5, <2>1, GotoEffect
<1>7. Locals(t)' /\ \A d \in Cpus : ~Runs(d, t)'
  BY <1>2, <1>4, <1>5, <1>6 DEF Locals, Runs
<1>8. Self(t)'
  BY <1>2, <1>4, <1>6, <1>7, Resting
<1>9. /\ \A v \in Works : ~Cancelling(t, v) /\ ~Cancelling(t, v)'
      /\ ~GoingDown(t)'
  BY <1>3, <1>5, <1>6 DEF Cancelling, GoingDown
<1>10. CASE w \in timer /\ timer' = timer \ {w} /\ Stage(w, "insert", c)
  <2>1. /\ queueing' \in [Works -> {Idle} \cup
                            [st : {"insert", "add", "delay", "arm"}, cpu : Cpus]]
        /\ queueing'[w].st = "insert" /\ queueing'[w].cpu = c /\ queueing'[w] # Idle
        /\ \A v \in Works \ {w} : queueing'[v] = queueing[v]
    BY <1>4, <1>10, StageEffect
  <2>2. TypeOK'
    BY <1>2, <1>4, <1>6, <1>10, <2>1 DEF TypeOK, PcSet, LocSet
  <2>3. Owner(w) /\ ~Listed(w)
    BY <1>10 DEF IInv, Owner
  <2>4. \A u \in Tasks : Cancelling(u, w)' <=> Cancelling(u, w)
    BY <1>2, <1>6, <1>9, HoldersOther
  <2>5. Cancelled(w)' <=> Cancelled(w)
    BY <2>4 DEF Cancelled
  <2>6. Owner(w)'
    BY <1>2, <1>6, <1>10, <2>1, <2>3, <2>4, <2>5, HoldersOther DEF Owner
  <2> QED BY <1>2, <1>6, <1>8, <1>9, <1>10, <2>1, <2>2, <2>3, <2>6, TaskOwner
<1>11. CASE UNCHANGED <<timer, queueing>>
  <2>1. TypeOK'
    BY <1>2, <1>4, <1>6, <1>11 DEF TypeOK, PcSet, LocSet
  <2> QED BY <1>2, <1>6, <1>8, <1>9, <1>11, <2>1, TaskMove
<1> QED BY <1>2, <1>10, <1>11

-----------------------------------------------------------------------------
(* CPUs go down.                                                           *)
LEMMA CpuDownStep ==
  ASSUME IInv, NEW t \in Tasks, NEW c \in Cpus, CpuDown(t, c)
  PROVE  IInv'
<1>1. PICK l : l = [Nothing EXCEPT !.cpu = c]
  OBVIOUS
<1>2. /\ c \in online /\ NoHotplug /\ online' = online \ {c} /\ Goto(t, "idle", "down", l)
      /\ \A w \in Works : queueing[w].st \in {"insert", "add"} => queueing[w].cpu # c
      /\ UNCHANGED <<worklist, current_work, worker, should_stop, pending, cwq, timer, firing,
                     queueing, done, populated, role, owed>>
  BY <1>1 DEF CpuDown, lists, data
<1>3. pc[t] = "idle"
  BY <1>2 DEF Goto
<1>4. /\ TypeOK /\ t \notin done /\ owed[t] = {} /\ Nothing \in LocSet
      /\ \A d \in Cpus : ~In(t, worklist[d]) /\ ~Runs(d, t)
  BY <1>3, Acting DEF Waits
<1>5. l \in LocSet /\ l.cpu = c /\ "down" \in PcSet
  <2>1. c \in 0 .. NCpus
    BY WorkQueueAssumption DEF Cpus
  <2> QED BY <1>1, <1>4, <2>1 DEF LocSet, PcSet
<1>6. /\ pc'[t] = "down" /\ loc'[t] = l
      /\ \A u \in Tasks \ {t} : pc'[u] = pc[u] /\ loc'[u] = loc[u]
      /\ pc' \in [Tasks -> PcSet] /\ loc' \in [Tasks -> LocSet]
  <2>1. Goto(t, "idle", "down", l)
    BY <1>2
  <2> QED BY <1>4, <1>5, <2>1, GotoEffect
<1>7. TypeOK'
  BY <1>2, <1>4, <1>6 DEF TypeOK, PcSet, LocSet
<1>8. \A u \in Tasks : ~GoingDown(u) /\ (GoingDown(u)' => u = t)
  BY <1>2, <1>6 DEF NoHotplug, GoingDown
<1>9. Self(t)'
  <2>1. \A d \in Cpus : ~Runs(d, t)'
    BY <1>2, <1>4 DEF Runs
  <2>2. Locals(t)' /\ Barrier(t)'
    BY <1>2, <1>4, <1>5, <1>6, <2>1 DEF Locals, Barrier
  <2>3. Down(t)'
    BY <1>2, <1>5, <1>6, <1>8 DEF Down
  <2>4. CancelWait(t)' /\ Debt(t)' /\ FlushAll(t)' /\ FlushOne(t)'
    BY <1>2, <1>4, <1>6 DEF CancelWait, Debt, FlushAll, FlushOne, OwedWork, OwedRun
  <2> QED BY <2>2, <2>3, <2>4 DEF Self
<1>10. ASSUME NEW w \in Works PROVE Owner(w)'
  <2>1. ASSUME NEW u \in Tasks PROVE Cancelling(u, w)' <=> Cancelling(u, w)
    <3>1. ~Cancelling(t, w) /\ ~Cancelling(t, w)'
      BY <1>3, <1>6 DEF Cancelling
    <3> QED BY <1>2, <1>6, <3>1, HoldersOther
  <2>2. SameOwner(w)
    BY <1>2, <2>1 DEF SameOwner, TakenBy, Executes
  <2> QED BY <1>2, <2>2, OwnerFrame DEF IInv
<1>11. ASSUME NEW d \in Cpus PROVE CpuState(d)'
  BY <1>2 DEF IInv, CpuState
<1> QED BY <1>2, <1>6, <1>7, <1>8, <1>9, <1>10, <1>11, TaskOnly

(* cleanup_workqueue_thread(): a step of it that touches no list.          *)
LEMMA DownMove ==
  ASSUME IInv, NEW t \in Tasks, pc[t] \in {"down", "stop"}, NEW to \in {"stop", "exit"},
         Goto(t, pc[t], to, loc[t]), should_stop' \subseteq Cpus,
         UNCHANGED <<worklist, current_work, worker, pending, cwq, timer, firing, queueing, done,
                     online, populated, role, owed>>,
         \A w \in Works : ~In(w, worklist[loc[t].cpu])
  PROVE  IInv'
<1>1. /\ TypeOK /\ Self(t) /\ t \notin done /\ owed[t] = {} /\ loc[t] \in LocSet
      /\ \A c \in Cpus : ~In(t, worklist[c]) /\ ~Runs(c, t)
  BY Acting DEF Waits
<1>2. /\ pc'[t] = to /\ loc'[t] = loc[t]
      /\ \A u \in Tasks \ {t} : pc'[u] = pc[u] /\ loc'[u] = loc[u]
      /\ pc' \in [Tasks -> PcSet] /\ loc' \in [Tasks -> LocSet]
  <2>1. to \in PcSet
    BY DEF PcSet
  <2>2. PICK f : f = pc[t]
    OBVIOUS
  <2>3. Goto(t, f, to, loc[t])
    BY <2>2
  <2> QED BY <1>1, <2>1, <2>3, GotoEffect
<1>3. TypeOK'
  BY <1>1, <1>2 DEF TypeOK, PcSet, LocSet
<1>4. GoingDown(t) /\ \A u \in Tasks : GoingDown(u)' <=> GoingDown(u)
  BY <1>2 DEF GoingDown
<1>5. Self(t)'
  <2>1. \A c \in Cpus : ~Runs(c, t)'
    BY <1>1 DEF Runs
  <2>2. Locals(t)' /\ Barrier(t)'
    BY <1>1, <1>2, <2>1 DEF Self, Locals, Barrier
  <2>3. Down(t)'
    BY <1>1, <1>2, <1>4 DEF Self, Down
  <2>4. CancelWait(t)' /\ Debt(t)' /\ FlushAll(t)' /\ FlushOne(t)'
    BY <1>1, <1>2 DEF CancelWait, Debt, FlushAll, FlushOne, OwedWork, OwedRun
  <2> QED BY <2>2, <2>3, <2>4 DEF Self
<1>6. \A w \in Works : Cancelling(t, w)' <=> Cancelling(t, w)
  BY <1>2 DEF Cancelling
<1> QED BY <1>2, <1>3, <1>4, <1>5, <1>6, TaskMove

LEMMA CleanupFlushSkip ==
  ASSUME IInv, NEW t \in Tasks, CleanupFlush(t), ~Active(loc[t].cpu)
  PROVE  IInv'
<1>1. /\ pc[t] = "down" /\ Goto(t, pc[t], "stop", loc[t])
      /\ UNCHANGED <<worklist, current_work, worker, should_stop, pending, cwq, timer, firing,
                     queueing, done, online, populated, role, owed>>
  BY DEF CleanupFlush, Goto, NoBarrier, data, cpus
<1>2. \A w \in Works : ~In(w, worklist[loc[t].cpu])
  BY DEF Active, In, Positions
<1>3. should_stop' \subseteq Cpus
  BY <1>1 DEF IInv, TypeOK
<1> QED BY <1>1, <1>2, <1>3, DownMove

LEMMA KthreadStopStep ==
  ASSUME IInv, NEW t \in Tasks, KthreadStop(t)
  PROVE  IInv'
<1>1. /\ pc[t] = "stop" /\ Goto(t, pc[t], "exit", loc[t])
      /\ should_stop' = should_stop \cup {loc[t].cpu}
      /\ UNCHANGED <<worklist, current_work, worker, pending, cwq, timer, firing,
                     queueing, done, online, populated, role, owed>>
  BY DEF KthreadStop, Goto, data, cpus
<1>2. Self(t)
  BY DEF IInv
<1>3. loc[t].cpu \in Cpus /\ \A w \in Works : ~In(w, worklist[loc[t].cpu])
  BY <1>1, <1>2 DEF Self, Locals, Down
<1>4. should_stop' \subseteq Cpus
  BY <1>1, <1>3 DEF IInv, TypeOK
<1> QED BY <1>1, <1>3, <1>4, DownMove

(* kthread_stop() returns: the worker has left, and its list holds no      *)
(* work.                                                                   *)
LEMMA WorkerExitedStep ==
  ASSUME IInv, NEW t \in Tasks, WorkerExited(t)
  PROVE  IInv'
<1>1. PICK c : c = loc[t].cpu
  OBVIOUS
<1>2. /\ pc[t] = "exit" /\ worker[c] = "dead" /\ Goto(t, "exit", "idle", Nothing)
      /\ should_stop' = should_stop \ {c} /\ populated' = populated \ {c}
      /\ UNCHANGED <<worklist, current_work, worker, pending, cwq, timer, firing, queueing, done,
                     online, role, owed>>
  BY <1>1 DEF WorkerExited, data
<1>3. /\ TypeOK /\ Self(t) /\ t \notin done /\ owed[t] = {} /\ Nothing \in LocSet
      /\ \A d \in Cpus : ~In(t, worklist[d]) /\ ~Runs(d, t)
  BY <1>2, Acting DEF Waits
<1>4. c \notin online /\ \A w \in Works : ~In(w, worklist[c])
  BY <1>1, <1>2, <1>3 DEF Self, Down, GoingDown
<1>5. /\ pc'[t] = "idle"
      /\ \A u \in Tasks \ {t} : pc'[u] = pc[u] /\ loc'[u] = loc[u]
      /\ pc' \in [Tasks -> PcSet] /\ loc' \in [Tasks -> LocSet]
  <2>1. "idle" \in PcSet
    BY DEF PcSet
  <2> QED BY <1>2, <1>3, <2>1, GotoEffect
<1>6. TypeOK'
  BY <1>2, <1>3, <1>5 DEF TypeOK, PcSet, LocSet
<1>7. Locals(t)' /\ \A d \in Cpus : ~Runs(d, t)'
  BY <1>2, <1>3, <1>5 DEF Locals, Runs
<1>8. Self(t)'
  BY <1>2, <1>3, <1>5, <1>7, Resting
<1>9. ASSUME NEW d \in Cpus PROVE CpuState(d)'
  BY <1>2, <1>4 DEF IInv, CpuState
<1>10. ASSUME NEW w \in Works PROVE Owner(w)'
  <2>1. ASSUME NEW u \in Tasks PROVE Cancelling(u, w)' <=> Cancelling(u, w)
    <3>1. ~Cancelling(t, w) /\ ~Cancelling(t, w)'
      BY <1>2, <1>5 DEF Cancelling
    <3> QED BY <1>2, <1>5, <3>1, HoldersOther
  <2>2. SameOwner(w)
    BY <1>2, <2>1 DEF SameOwner, TakenBy, Executes
  <2> QED BY <1>2, <2>2, OwnerFrame DEF IInv
<1>11. ~GoingDown(t)'
  BY <1>5 DEF GoingDown
<1> QED BY <1>2, <1>5, <1>6, <1>8, <1>9, <1>10, <1>11, TaskOnly

-----------------------------------------------------------------------------
(* insert_wq_barrier(): what it does to the lists, ...                     *)
Inserts(t, f, to, l, c, i) ==
  /\ to \in PcSet /\ l \in LocSet /\ c \in Cpus /\ i \in 1 .. Len(worklist[c]) + 1
  /\ ~Waits(t) /\ Goto(t, f, to, l) /\ InsertBarrier(t, c, i)
  /\ UNCHANGED <<current_work, worker, should_stop, data, queueing, cpus, owed>>

LEMMA InsertEffect ==
  ASSUME IInv, NEW t \in Tasks, NEW f, NEW to, NEW l, NEW c, NEW i, Inserts(t, f, to, l, c, i)
  PROVE  /\ Self(t) /\ TypeOK' /\ pc'[t] = to /\ loc'[t] = l
         /\ \A u \in Tasks \ {t} : /\ pc'[u] = pc[u] /\ loc'[u] = loc[u]
                                   /\ u \in done' <=> u \in done
         /\ UNCHANGED <<current_work, worker, pending, cwq, timer, firing, queueing, online,
                        populated, role, owed>>
         /\ t \notin done' /\ \A d \in Cpus : ~In(t, worklist[d]) /\ ~Runs(d, t)'
         /\ \A d \in Cpus :
              /\ Distinct(worklist'[d])
              /\ \A x : In(x, worklist'[d]) <=> In(x, worklist[d]) \/ (x = t /\ d = c)
              /\ \A x, y : Before(worklist[d], x, y) => Before(worklist'[d], x, y)
         /\ \A k \in 1 .. i - 1 : Before(worklist'[c], worklist[c][k], t)
<1>0. /\ to \in PcSet /\ l \in LocSet /\ c \in Cpus /\ i \in 1 .. Len(worklist[c]) + 1
      /\ ~Waits(t) /\ Goto(t, f, to, l)
  BY DEF Inserts
<1>1. /\ worklist' = [worklist EXCEPT ![c] = InsertAt(@, i, t)] /\ done' = done \ {t}
      /\ UNCHANGED <<current_work, worker, should_stop, pending, cwq, timer, firing, queueing,
                     online, populated, role, owed>>
  BY DEF Inserts, InsertBarrier, data, cpus
<1>2. /\ TypeOK /\ Self(t) /\ t \notin done
      /\ \A d \in Cpus : ~In(t, worklist[d]) /\ ~Runs(d, t)
  BY <1>0, Acting
<1>3. worklist \in [Cpus -> Seq(Works \cup Tasks)] /\ Distinct(worklist[c])
  BY <1>0 DEF IInv, TypeOK
<1>4. /\ InsertAt(worklist[c], i, t) \in Seq(Works \cup Tasks)
      /\ Distinct(InsertAt(worklist[c], i, t))
      /\ \A x : In(x, InsertAt(worklist[c], i, t)) <=> In(x, worklist[c]) \/ x = t
      /\ \A x, y : Before(worklist[c], x, y) => Before(InsertAt(worklist[c], i, t), x, y)
      /\ \A k \in 1 .. i - 1 : Before(InsertAt(worklist[c], i, t), worklist[c][k], t)
  <2>1. worklist[c] \in Seq(Works \cup Tasks) /\ ~In(t, worklist[c]) /\ t \in Works \cup Tasks
    BY <1>0, <1>2, <1>3
  <2> QED BY <1>0, <1>3, <2>1, InsertQueue
<1>5. /\ worklist' \in [Cpus -> Seq(Works \cup Tasks)]
      /\ worklist'[c] = InsertAt(worklist[c], i, t)
      /\ \A d \in Cpus \ {c} : worklist'[d] = worklist[d]
  BY <1>0, <1>1, <1>3, <1>4
<1>6. ASSUME NEW d \in Cpus
      PROVE  /\ Distinct(worklist'[d])
             /\ \A x : In(x, worklist'[d]) <=> In(x, worklist[d]) \/ (x = t /\ d = c)
             /\ \A x, y : Before(worklist[d], x, y) => Before(worklist'[d], x, y)
  BY <1>0, <1>4, <1>5 DEF IInv
<1>7. /\ pc'[t] = to /\ loc'[t] = l
      /\ \A u \in Tasks \ {t} : pc'[u] = pc[u] /\ loc'[u] = loc[u]
      /\ pc' \in [Tasks -> PcSet] /\ loc' \in [Tasks -> LocSet]
  BY <1>0, <1>2, GotoEffect
<1>8. TypeOK'
  BY <1>1, <1>2, <1>5, <1>7 DEF TypeOK, PcSet, LocSet
<1>9. \A d \in Cpus : ~Runs(d, t)'
  BY <1>1, <1>2 DEF Runs
<1>10. \A k \in 1 .. i - 1 : Before(worklist'[c], worklist[c][k], t)
  BY <1>0, <1>4, <1>5
<1> QED BY <1>1, <1>2, <1>6, <1>7, <1>8, <1>9, <1>10

(* ... and that it disturbs nobody but the task that inserts it.           *)
LEMMA InsertFrame ==
  ASSUME IInv, NEW t \in Tasks, NEW c \in Cpus, TypeOK',
         \A u \in Tasks \ {t} : /\ pc'[u] = pc[u] /\ loc'[u] = loc[u]
                                /\ u \in done' <=> u \in done,
         UNCHANGED <<current_work, worker, pending, cwq, timer, firing, queueing, online,
                     populated, role, owed>>,
         \A d \in Cpus :
           /\ Distinct(worklist'[d])
           /\ \A x : In(x, worklist'[d]) <=> In(x, worklist[d]) \/ (x = t /\ d = c)
           /\ \A x, y : Before(worklist[d], x, y) => Before(worklist'[d], x, y),
         \A w \in Works : Cancelling(t, w)' <=> Cancelling(t, w),
         GoingDown(t)' => GoingDown(t), Self(t)'
  PROVE  IInv'
<1>1. \A w \in Works : w # t /\ \A d \in Cpus : In(w, worklist'[d]) <=> In(w, worklist[d])
  BY WorkQueueAssumption
<1>2. ASSUME NEW d \in Cpus PROVE CpuState(d)'
  BY <1>1 DEF IInv, CpuState
<1>3. ASSUME NEW w \in Works PROVE Owner(w)'
  <2>1. ASSUME NEW u \in Tasks PROVE Cancelling(u, w)' <=> Cancelling(u, w)
    <3>1. CASE u # t
      BY <3>1 DEF Cancelling
    <3> QED BY <3>1
  <2>2. SameOwner(w)
    BY <1>1, <2>1 DEF SameOwner, TakenBy, Executes
  <2> QED BY <2>2, OwnerFrame DEF IInv
<1>4. ASSUME NEW u \in Tasks, u # t PROVE Self(u)'
  <2>1. Self(u) /\ SameTask(u)
    BY <1>4 DEF IInv, SameTask, Runs
  <2>2. Locals(u)' /\ Barrier(u)'
    BY <2>1, BarrierFrame DEF Self
  <2>3. Down(u)'
    <3>1. \A v \in Tasks : GoingDown(v)' => GoingDown(v)
      BY DEF GoingDown
    <3> QED BY <1>1, <2>1, <3>1, DownFrame DEF Self
  <2>4. CancelWait(u)'
    BY <1>4, <2>1, CancelFrame DEF Self, Executes
  <2>5. Debt(u)' /\ FlushAll(u)' /\ FlushOne(u)'
    <3>1. \A d \in Cpus : OwedRun(u, d)' => worker'[d] \in {"clear", "func"}
      BY <2>1 DEF Self, Debt, OwedRun
    <3>2. \A w \in Works : Listed(w)' <=> Listed(w)
      BY <1>1 DEF Listed
    <3> QED BY <1>1, <2>1, <3>1, <3>2, DebtFrame DEF Self
  <2> QED BY <2>2, <2>3, <2>4, <2>5 DEF Self
<1> QED BY <1>2, <1>3, <1>4 DEF IInv

(* A barrier at the end of a list is behind everything on it.              *)
LEMMA EndOfList ==
  ASSUME NEW s, NEW p, NEW y, Len(s) \in Nat,
         \A k \in 1 .. (Len(s) + 1) - 1 : Before(p, s[k], y)
  PROVE  \A x : In(x, s) => Before(p, x, y)
  BY DEF In, Positions

LEMMA FlushCpuInsert ==
  ASSUME IInv, NEW t \in Tasks, FlushCpu(t), loc[t].cpu \in populated /\ Active(loc[t].cpu)
  PROVE  IInv'
<1>1. PICK c, i : c = loc[t].cpu /\ i = Len(worklist[c]) + 1
  OBVIOUS
<1>2. /\ pc[t] = "flushCpu" /\ Goto(t, "flushCpu", "flushWait", loc[t]) /\ InsertBarrier(t, c, i)
      /\ UNCHANGED <<current_work, worker, should_stop, data, queueing, cpus, owed>>
  BY <1>1 DEF FlushCpu, LoopStep
<1>3. /\ c \in Cpus /\ loc[t] \in LocSet /\ "flushWait" \in PcSet /\ ~Waits(t)
      /\ Len(worklist[c]) \in Nat /\ i \in 1 .. Len(worklist[c]) + 1
  <2>1. c \in Cpus /\ TypeOK /\ loc[t] \in LocSet /\ "flushWait" \in PcSet /\ ~Waits(t)
    BY <1>1, <1>2, LocType DEF IInv, Self, Locals, PcSet, Waits
  <2>2. Len(worklist[c]) \in Nat
    BY <2>1 DEF TypeOK
  <2> QED BY <1>1, <2>1, <2>2
<1>4. /\ Self(t) /\ TypeOK' /\ pc'[t] = "flushWait" /\ loc'[t] = loc[t]
      /\ \A u \in Tasks \ {t} : /\ pc'[u] = pc[u] /\ loc'[u] = loc[u]
                                /\ u \in done' <=> u \in done
      /\ UNCHANGED <<current_work, worker, pending, cwq, timer, firing, queueing, online,
                     populated, role, owed>>
      /\ t \notin done' /\ \A d \in Cpus : ~In(t, worklist[d]) /\ ~Runs(d, t)'
      /\ \A d \in Cpus :
           /\ Distinct(worklist'[d])
           /\ \A x : In(x, worklist'[d]) <=> In(x, worklist[d]) \/ (x = t /\ d = c)
           /\ \A x, y : Before(worklist[d], x, y) => Before(worklist'[d], x, y)
      /\ \A k \in 1 .. i - 1 : Before(worklist'[c], worklist[c][k], t)
  <2>1. Inserts(t, "flushCpu", "flushWait", loc[t], c, i)
    BY <1>2, <1>3 DEF Inserts
  <2> QED BY <2>1, InsertEffect
<1>5. \A x : In(x, worklist[c]) => Before(worklist'[c], x, t)
  BY <1>1, <1>3, <1>4, EndOfList
<1>6. \A w \in Works : w # t /\ \A d \in Cpus : In(w, worklist'[d]) <=> In(w, worklist[d])
  BY <1>4, WorkQueueAssumption
<1>7. Locals(t)' /\ Barrier(t)'
  BY <1>1, <1>3, <1>4 DEF Locals, Barrier, Waits
<1>8. Down(t)' /\ CancelWait(t)' /\ FlushOne(t)'
  BY <1>4 DEF Down, GoingDown, CancelWait, FlushOne
<1>9. Debt(t)'
  BY <1>2, <1>4, <1>6 DEF Self, Debt, Listed, OwedWork, OwedRun
<1>10. FlushAll(t)'
  BY <1>1, <1>2, <1>4, <1>5, <1>6 DEF Self, FlushAll, OwedWork, OwedRun
<1>11. Self(t)'
  BY <1>7, <1>8, <1>9, <1>10 DEF Self
<1>12. (\A w \in Works : Cancelling(t, w)' <=> Cancelling(t, w)) /\ ~GoingDown(t)'
  BY <1>2, <1>4 DEF Cancelling, GoingDown
<1> QED BY <1>3, <1>4, <1>11, <1>12, InsertFrame

LEMMA CleanupFlushInsert ==
  ASSUME IInv, NEW t \in Tasks, CleanupFlush(t), Active(loc[t].cpu)
  PROVE  IInv'
<1>1. PICK c, i : c = loc[t].cpu /\ i = Len(worklist[c]) + 1
  OBVIOUS
<1>2. /\ pc[t] = "down" /\ Goto(t, "down", "downWait", loc[t]) /\ InsertBarrier(t, c, i)
      /\ UNCHANGED <<current_work, worker, should_stop, data, queueing, cpus, owed>>
  BY <1>1 DEF CleanupFlush
<1>3. /\ c \in Cpus /\ loc[t] \in LocSet /\ "downWait" \in PcSet /\ ~Waits(t)
      /\ Len(worklist[c]) \in Nat /\ i \in 1 .. Len(worklist[c]) + 1
  <2>1. c \in Cpus /\ TypeOK /\ loc[t] \in LocSet /\ "downWait" \in PcSet /\ ~Waits(t)
    BY <1>1, <1>2, LocType DEF IInv, Self, Locals, PcSet, Waits
  <2>2. Len(worklist[c]) \in Nat
    BY <2>1 DEF TypeOK
  <2> QED BY <1>1, <2>1, <2>2
<1>4. /\ Self(t) /\ TypeOK' /\ pc'[t] = "downWait" /\ loc'[t] = loc[t]
      /\ \A u \in Tasks \ {t} : /\ pc'[u] = pc[u] /\ loc'[u] = loc[u]
                                /\ u \in done' <=> u \in done
      /\ UNCHANGED <<current_work, worker, pending, cwq, timer, firing, queueing, online,
                     populated, role, owed>>
      /\ t \notin done' /\ \A d \in Cpus : ~In(t, worklist[d]) /\ ~Runs(d, t)'
      /\ \A d \in Cpus :
           /\ Distinct(worklist'[d])
           /\ \A x : In(x, worklist'[d]) <=> In(x, worklist[d]) \/ (x = t /\ d = c)
           /\ \A x, y : Before(worklist[d], x, y) => Before(worklist'[d], x, y)
      /\ \A k \in 1 .. i - 1 : Before(worklist'[c], worklist[c][k], t)
  <2>1. Inserts(t, "down", "downWait", loc[t], c, i)
    BY <1>2, <1>3 DEF Inserts
  <2> QED BY <2>1, InsertEffect
<1>5. \A x : In(x, worklist[c]) => Before(worklist'[c], x, t)
  BY <1>1, <1>3, <1>4, EndOfList
<1>6. \A w \in Works : w # t /\ \A d \in Cpus : In(w, worklist'[d]) <=> In(w, worklist[d])
  BY <1>4, WorkQueueAssumption
<1>7. Locals(t)' /\ Barrier(t)'
  BY <1>1, <1>3, <1>4 DEF Locals, Barrier, Waits
<1>8. owed[t] = {}
  BY <1>2, <1>4 DEF Self, Debt
<1>9. CancelWait(t)' /\ Debt(t)' /\ FlushAll(t)' /\ FlushOne(t)'
  BY <1>4, <1>8 DEF CancelWait, Debt, FlushAll, FlushOne, OwedWork, OwedRun
<1>10. GoingDown(t) /\ \A u \in Tasks : GoingDown(u)' => GoingDown(u)
  BY <1>2, <1>4 DEF GoingDown
<1>11. Down(t)'
  BY <1>1, <1>3, <1>4, <1>5, <1>6, <1>10 DEF Self, Down
<1>12. Self(t)'
  BY <1>7, <1>9, <1>11 DEF Self
<1>13. \A w \in Works : Cancelling(t, w)' <=> Cancelling(t, w)
  BY <1>2, <1>4 DEF Cancelling
<1> QED BY <1>3, <1>4, <1>10, <1>12, <1>13, InsertFrame

(* The barrier of wait_on_cpu_work() goes in front of the list.            *)
LEMMA WaitOnInsert ==
  ASSUME IInv, NEW t \in Tasks, WaitOn(t),
         loc[t].cpu \in populated /\ current_work[loc[t].cpu] = loc[t].work
  PROVE  IInv'
<1>1. PICK c, i : c = loc[t].cpu /\ i = 1
  OBVIOUS
<1>2. /\ pc[t] = "waitOn" /\ Goto(t, "waitOn", "waitOnWait", loc[t]) /\ InsertBarrier(t, c, i)
      /\ UNCHANGED <<current_work, worker, should_stop, data, queueing, cpus, owed>>
  BY <1>1 DEF WaitOn, LoopStep
<1>3. /\ c \in Cpus /\ loc[t] \in LocSet /\ "waitOnWait" \in PcSet /\ ~Waits(t)
      /\ Len(worklist[c]) \in Nat /\ i \in 1 .. Len(worklist[c]) + 1
  <2>1. c \in Cpus /\ TypeOK /\ loc[t] \in LocSet /\ "waitOnWait" \in PcSet /\ ~Waits(t)
    BY <1>1, <1>2, LocType DEF IInv, Self, Locals, PcSet, Waits
  <2>2. Len(worklist[c]) \in Nat
    BY <2>1 DEF TypeOK
  <2> QED BY <1>1, <2>1, <2>2
<1>4. /\ Self(t) /\ TypeOK' /\ pc'[t] = "waitOnWait" /\ loc'[t] = loc[t]
      /\ \A u \in Tasks \ {t} : /\ pc'[u] = pc[u] /\ loc'[u] = loc[u]
                                /\ u \in done' <=> u \in done
      /\ UNCHANGED <<current_work, worker, pending, cwq, timer, firing, queueing, online,
                     populated, role, owed>>
      /\ t \notin done' /\ \A d \in Cpus : ~In(t, worklist[d]) /\ ~Runs(d, t)'
      /\ \A d \in Cpus :
           /\ Distinct(worklist'[d])
           /\ \A x : In(x, worklist'[d]) <=> In(x, worklist[d]) \/ (x = t /\ d = c)
           /\ \A x, y : Before(worklist[d], x, y) => Before(worklist'[d], x, y)
  <2>1. Inserts(t, "waitOn", "waitOnWait", loc[t], c, i)
    BY <1>2, <1>3 DEF Inserts
  <2> QED BY <2>1, InsertEffect
<1>5. owed[t] = {} /\ loc[t].work \in Works
  BY <1>2, <1>4 DEF Self, Debt, Locals
<1>6. Locals(t)' /\ Barrier(t)'
  BY <1>1, <1>3, <1>4, <1>5 DEF Locals, Barrier, Waits
<1>7. Down(t)' /\ Debt(t)' /\ FlushAll(t)' /\ FlushOne(t)'
  BY <1>4, <1>5 DEF Down, GoingDown, Debt, FlushAll, FlushOne, OwedWork, OwedRun
<1>8. CancelWait(t)'
  BY <1>2, <1>4 DEF Self, CancelWait, Executes
<1>9. Self(t)'
  BY <1>6, <1>7, <1>8 DEF Self
<1>10. (\A w \in Works : Cancelling(t, w)' <=> Cancelling(t, w)) /\ ~GoingDown(t)'
  BY <1>2, <1>4 DEF Cancelling, GoingDown
<1> QED BY <1>3, <1>4, <1>9, <1>10, InsertFrame

(* flush_work() puts its barrier right behind the work, or in front of the *)
(* list of the CPU that executes it.                                       *)
LEMMA FlushLockInsert ==
  ASSUME IInv, NEW t \in Tasks, pc[t] = "flushLock", NEW w, w = loc[t].work, NEW l, l.work = w,
         NEW c, c = loc[t].cwq, NEW i, Inserts(t, "flushLock", "flushWorkWait", l, c, i),
         (i > 1 /\ worklist[c][i - 1] = w) \/ ListEmpty(w)
  PROVE  IInv'
<1>2. c \in Cpus /\ w \in Works
  BY DEF IInv, Self, Locals
<1>4. /\ Self(t) /\ TypeOK' /\ pc'[t] = "flushWorkWait" /\ loc'[t] = l
      /\ \A u \in Tasks \ {t} : /\ pc'[u] = pc[u] /\ loc'[u] = loc[u]
                                /\ u \in done' <=> u \in done
      /\ UNCHANGED <<current_work, worker, pending, cwq, timer, firing, queueing, online,
                     populated, role, owed>>
      /\ t \notin done' /\ \A d \in Cpus : ~In(t, worklist[d]) /\ ~Runs(d, t)'
      /\ \A d \in Cpus :
           /\ Distinct(worklist'[d])
           /\ \A x : In(x, worklist'[d]) <=> In(x, worklist[d]) \/ (x = t /\ d = c)
           /\ \A x, y : Before(worklist[d], x, y) => Before(worklist'[d], x, y)
      /\ \A k \in 1 .. i - 1 : Before(worklist'[c], worklist[c][k], t)
  BY InsertEffect
<1>5. \A v \in Works : v # t /\ \A d \in Cpus : In(v, worklist'[d]) <=> In(v, worklist[d])
  BY <1>4, WorkQueueAssumption
<1>6. In(w, worklist[c]) => Before(worklist'[c], w, t)
  <2>1. CASE i > 1 /\ worklist[c][i - 1] = w
    <3>1. i \in Int
      BY DEF Inserts
    <3>2. i - 1 \in 1 .. i - 1
      BY <2>1, <3>1
    <3> QED BY <1>4, <2>1, <3>2
  <2>2. CASE ListEmpty(w)
    BY <1>2, <2>2 DEF ListEmpty
  <2> QED BY <2>1, <2>2
<1>7. Locals(t)' /\ Barrier(t)'
  BY <1>2, <1>4 DEF Locals, Barrier, Waits
<1>8. Down(t)' /\ CancelWait(t)' /\ FlushAll(t)'
  BY <1>4 DEF Down, GoingDown, CancelWait, FlushAll
<1>9. Debt(t)'
  BY <1>4, <1>5 DEF Self, Debt, Listed, OwedWork, OwedRun
<1>10. FlushOne(t)'
  <2>1. /\ \A v \in Works : OwedWork(t, v) => v = w
        /\ OwedWork(t, w) => In(w, worklist[c])
        /\ \A d \in Cpus : OwedRun(t, d) => d = c
    BY <1>4 DEF Self, FlushOne
  <2> QED BY <1>4, <1>6, <2>1 DEF FlushOne, OwedWork, OwedRun
<1>11. Self(t)'
  BY <1>7, <1>8, <1>9, <1>10 DEF Self
<1>12. (\A v \in Works : Cancelling(t, v)' <=> Cancelling(t, v)) /\ ~GoingDown(t)'
  BY <1>4 DEF Cancelling, GoingDown
<1> QED BY <1>2, <1>4, <1>11, <1>12, InsertFrame

LEMMA FlushLockStep ==
  ASSUME IInv, NEW t \in Tasks, FlushLock(t)
  PROVE  IInv'
<1>1. PICK w, c : w = loc[t].work /\ c = loc[t].cwq
  OBVIOUS
<1>2. /\ pc[t] = "flushLock"
      /\ UNCHANGED <<current_work, worker, should_stop, data, queueing, cpus, owed>>
  BY DEF FlushLock
<1>3. worklist[c] \in Seq(Works \cup Tasks) /\ Len(worklist[c]) \in Nat
  BY <1>1, <1>2 DEF IInv, TypeOK, Self, Locals
<1>0. PICK l : l = [loc[t] EXCEPT !.cwq = NULL]
  OBVIOUS
<1>7. c \in Cpus /\ "flushWorkWait" \in PcSet /\ ~Waits(t) /\ l \in LocSet /\ l.work = w
  <2>1. loc[t] \in LocSet /\ NULL \in 0 .. NCpus
    BY LocType, WorkQueueAssumption DEF IInv, NULL
  <2>2. l \in LocSet /\ l.work = w
    BY <1>0, <1>1, <2>1 DEF LocSet
  <2> QED BY <1>1, <1>2, <2>2 DEF IInv, Self, Locals, PcSet, Waits
<1>4. CASE /\ \E i \in Positions(worklist[c]) : worklist[c][i] = w /\ InsertBarrier(t, c, i + 1)
           /\ Goto(t, "flushLock", "flushWorkWait", [loc[t] EXCEPT !.cwq = NULL])
  <2>1. PICK i \in 1 .. Len(worklist[c]) : worklist[c][i] = w /\ InsertBarrier(t, c, i + 1)
    BY <1>4 DEF Positions
  <2>2. PICK j : j = i + 1
    OBVIOUS
  <2>3. j \in 1 .. Len(worklist[c]) + 1 /\ j > 1 /\ j - 1 = i /\ InsertBarrier(t, c, j)
    BY <1>3, <2>1, <2>2
  <2>4. Goto(t, "flushLock", "flushWorkWait", l)
    BY <1>0, <1>4
  <2>5. Inserts(t, "flushLock", "flushWorkWait", l, c, j)
    BY <1>2, <1>3, <1>7, <2>3, <2>4 DEF Inserts
  <2> QED BY <1>1, <1>2, <1>7, <2>1, <2>3, <2>5, FlushLockInsert
<1>5. CASE /\ ListEmpty(w) /\ InsertBarrier(t, c, 1)
           /\ Goto(t, "flushLock", "flushWorkWait", [loc[t] EXCEPT !.cwq = NULL])
  <2>1. 1 \in 1 .. Len(worklist[c]) + 1 /\ ~(1 > 1)
    BY <1>3
  <2>2. Goto(t, "flushLock", "flushWorkWait", l) /\ ListEmpty(w) /\ InsertBarrier(t, c, 1)
    BY <1>0, <1>5
  <2>3. Inserts(t, "flushLock", "flushWorkWait", l, c, 1)
    BY <1>2, <1>3, <1>7, <2>1, <2>2 DEF Inserts
  <2> QED BY <1>1, <1>2, <1>7, <2>2, <2>3, FlushLockInsert
<1>6. CASE /\ IF ListEmpty(w) THEN current_work[c] # w ELSE cwq[w] # c
           /\ NoBarrier
           /\ Goto(t, "flushLock", "flushed", [loc[t] EXCEPT !.cwq = NULL])
  BY <1>1, <1>2, <1>6, FlushLockSkip
<1> QED BY <1>1, <1>4, <1>5, <1>6 DEF FlushLock

(* try_to_grab_pending() takes the work over from the list: no flush waits *)
(* for it any more.                                                        *)
LEMMA GrabLockHit ==
  ASSUME IInv, NEW t \in Tasks, GrabLock(t),
         ~ListEmpty(loc[t].work) /\ cwq[loc[t].work] = loc[t].cwq
  PROVE  IInv'
<1>1. PICK w, c, l : w = loc[t].work /\ c = loc[t].cwq /\ l = [loc[t] EXCEPT !.ret = 1]
  OBVIOUS
<1>2. /\ pc[t] = "grabLock" /\ Goto(t, "grabLock", "waitRead", l)
      /\ \E i \in Positions(worklist[c]) :
           worklist[c][i] = w /\ worklist' = [worklist EXCEPT ![c] = Without(@, i)]
      /\ owed' = [u \in Tasks |-> owed[u] \ {<<"queued", w>>}]
      /\ UNCHANGED <<current_work, worker, should_stop, pending, cwq, timer, firing, queueing, done,
                     online, populated, role>>
  BY <1>1 DEF GrabLock, data, cpus
<1>3. /\ TypeOK /\ Self(t) /\ t \notin done /\ owed[t] = {} /\ loc[t] \in LocSet
      /\ \A d \in Cpus : ~In(t, worklist[d]) /\ ~Runs(d, t)
  BY <1>2, Acting DEF Waits
<1>4. w \in Works /\ c \in Cpus /\ l \in LocSet /\ l.work = w /\ l.ret = 1
  BY <1>1, <1>2, <1>3 DEF Self, Locals, LocSet
<1>5. /\ pc'[t] = "waitRead" /\ loc'[t] = l
      /\ \A u \in Tasks \ {t} : pc'[u] = pc[u] /\ loc'[u] = loc[u]
      /\ pc' \in [Tasks -> PcSet] /\ loc' \in [Tasks -> LocSet]
  <2>1. TypeOK /\ l \in LocSet /\ "waitRead" \in PcSet
    BY <1>3, <1>4 DEF PcSet
  <2>2. pc \in [Tasks -> PcSet] /\ loc \in [Tasks -> LocSet]
    BY <2>1 DEF TypeOK, PcSet, LocSet
  <2>3. pc' = [pc EXCEPT ![t] = "waitRead"] /\ loc' = [loc EXCEPT ![t] = l]
    BY <1>2 DEF Goto
  <2> QED BY <2>1, <2>2, <2>3
<1>6. PICK i \in Positions(worklist[c]) :
        worklist[c][i] = w /\ worklist' = [worklist EXCEPT ![c] = Without(@, i)]
  BY <1>2
<1>7. worklist \in [Cpus -> Seq(Works \cup Tasks)] /\ Distinct(worklist[c])
  BY <1>4 DEF IInv, TypeOK
<1>8. /\ Without(worklist[c], i) \in Seq(Works \cup Tasks)
      /\ Distinct(Without(worklist[c], i))
      /\ \A x : In(x, Without(worklist[c], i)) <=> In(x, worklist[c]) /\ x # w
      /\ \A x, y : Before(worklist[c], x, y) /\ x # w /\ y # w => Before(Without(worklist[c], i), x, y)
  <2>1. worklist[c] \in Seq(Works \cup Tasks)
    BY <1>4, <1>7
  <2>2. /\ Without(worklist[c], i) \in Seq(Works \cup Tasks)
        /\ Distinct(Without(worklist[c], i))
        /\ \A x : In(x, Without(worklist[c], i)) <=> In(x, worklist[c]) /\ x # w
    BY <1>6, <1>7, <2>1, DelQueue
  <2> QED BY <1>6, <1>7, <2>1, <2>2, DelBefore
<1>9. /\ worklist' \in [Cpus -> Seq(Works \cup Tasks)]
      /\ worklist'[c] = Without(worklist[c], i)
      /\ \A d \in Cpus \ {c} : worklist'[d] = worklist[d]
  BY <1>4, <1>6, <1>7, <1>8
<1>10. Owner(w) /\ Listed(w) /\ \A d \in Cpus : In(w, worklist[d]) => d = c
  <2>1. In(w, worklist[c])
    BY <1>6 DEF In
  <2> QED BY <1>1, <1>4, <2>1 DEF IInv, Owner, Listed
<1>11. ASSUME NEW d \in Cpus
       PROVE  /\ Distinct(worklist'[d])
              /\ \A x : In(x, worklist'[d]) <=> In(x, worklist[d]) /\ x # w
              /\ \A x, y : Before(worklist[d], x, y) /\ x # w /\ y # w => Before(worklist'[d], x, y)
  <2>1. CASE d = c
    BY <1>8, <1>9, <2>1
  <2>2. CASE d # c
    BY <1>9, <1>10, <2>2 DEF IInv
  <2> QED BY <2>1, <2>2
<1>12. /\ owed' \in [Tasks -> SUBSET Owed]
       /\ \A u \in Tasks : owed'[u] \subseteq owed[u] /\ ~OwedWork(u, w)'
  BY <1>2, <1>3 DEF TypeOK, OwedWork
<1>13. TypeOK'
  BY <1>2, <1>3, <1>5, <1>9, <1>12 DEF TypeOK, PcSet, LocSet
<1>14. ASSUME NEW d \in Cpus, NEW x
       PROVE  /\ Executes(d, x)' <=> Executes(d, x)
              /\ TakenBy(d, x)' <=> TakenBy(d, x)
              /\ Runs(d, x)' <=> Runs(d, x)
  BY <1>2 DEF Executes, TakenBy, Runs
<1>15. ASSUME NEW u \in Tasks, NEW v \in Works
       PROVE  Cancelling(u, v)' <=> Cancelling(u, v) \/ (u = t /\ v = w)
  <2>1. CASE u = t
    <3>1. ~Cancelling(t, v)
      BY <1>2 DEF Cancelling
    <3>2. pc'[t] = "waitRead" /\ loc'[t].work = w /\ loc'[t].ret = 1
      BY <1>4, <1>5
    <3> QED BY <2>1, <3>1, <3>2 DEF Cancelling
  <2>2. CASE u # t
    BY <1>5, <2>2 DEF Cancelling
  <2> QED BY <2>1, <2>2
<1>16. ASSUME NEW d \in Cpus PROVE CpuState(d)'
  BY <1>2, <1>11 DEF IInv, CpuState
<1>17. ASSUME NEW v \in Works, v # w PROVE Owner(v)'
  <2>1. SameOwner(v)
    BY <1>2, <1>11, <1>14, <1>15, <1>17 DEF SameOwner
  <2> QED BY <1>2, <2>1, OwnerFrame DEF IInv
<1>18. Owner(w)'
  <2>1. ~Listed(w)' /\ \A d \in Cpus : ~In(w, worklist'[d])
    BY <1>11 DEF Listed
  <2>2. ~Claimed(w)' /\ \A d \in Cpus : ~TakenBy(d, w)'
    BY <1>10, <1>14 DEF Owner, Claimed
  <2>3. Cancelled(w)' /\ \A u \in Tasks : Cancelling(u, w)' => u = t
    BY <1>4, <1>10, <1>15 DEF Owner, Cancelled
  <2> QED BY <1>2, <1>4, <1>10, <1>14, <2>1, <2>2, <2>3 DEF Owner
<1>19. Self(t)'
  <2>1. owed'[t] = {} /\ \A d \in Cpus : ~In(t, worklist'[d]) /\ ~Runs(d, t)'
    BY <1>3, <1>11, <1>12, <1>14
  <2>2. Locals(t)'
    BY <1>4, <1>5 DEF Locals
  <2> QED BY <1>2, <1>3, <1>5, <2>1, <2>2, Resting
<1>20. ASSUME NEW u \in Tasks, u # t PROVE Self(u)'
  <2>1. Self(u) /\ u # w
    BY <1>4, WorkQueueAssumption DEF IInv
  <2>2. SameTask(u)
    BY <1>2, <1>5, <1>11, <1>14, <1>20, <2>1 DEF SameTask
  <2>3. Locals(u)' /\ Barrier(u)'
    BY <2>1, <2>2, BarrierFrame DEF Self
  <2>4. Down(u)'
    <3>1. \A v \in Tasks : GoingDown(v)' => GoingDown(v)
      BY <1>5 DEF GoingDown
    <3> QED BY <1>2, <1>11, <2>1, <2>2, <3>1, DownFrame DEF Self
  <2>5. CancelWait(u)'
    <3>1. loc'[u] = loc[u]
      BY <1>5, <1>20
    <3> QED BY <1>14, <2>1, <2>2, <3>1, CancelFrame DEF Self
  <2>6. Debt(u)' /\ FlushAll(u)' /\ FlushOne(u)'
    <3>1. \A v \in Works, d \in Cpus : OwedWork(u, v)' =>
            /\ In(v, worklist[d])' <=> In(v, worklist[d])
            /\ Before(worklist[d], v, u) => Before(worklist[d], v, u)'
      BY <1>11, <1>12, <2>1
    <3>2. \A d \in Cpus : OwedRun(u, d)' =>
            worker'[d] \in {"clear", "func"} /\ current_work'[d] = current_work[d]
      BY <1>2, <1>12, <2>1 DEF Self, Debt, OwedRun
    <3>3. \A v \in Works : Listed(v)' => Listed(v)
      BY <1>11 DEF Listed
    <3> QED BY <1>2, <1>12, <2>1, <2>2, <3>1, <3>2, <3>3, DebtFrame DEF Self
  <2> QED BY <2>3, <2>4, <2>5, <2>6 DEF Self
<1> QED BY <1>11, <1>13, <1>16, <1>17, <1>18, <1>19, <1>20 DEF IInv

-----------------------------------------------------------------------------
LEMMA InitIInv == Init => IInv
<1> SUFFICES ASSUME Init PROVE IInv
  OBVIOUS
<1> USE DEF Init
<1>1. \A c \in Cpus : \A x : ~In(x, worklist[c])
  BY DEF In, Positions
<1>2. TypeOK
  <2>1. Nothing \in LocSet
    BY WorkQueueAssumption DEF Nothing, LocSet, NULL
  <2>2. loc \in [Tasks -> LocSet]
    BY <2>1
  <2> QED BY <2>2, WorkQueueAssumption DEF TypeOK, LocSet
<1>3. ASSUME NEW c \in Cpus PROVE Distinct(worklist[c]) /\ CpuState(c)
  BY <1>1 DEF Distinct, CpuState, Positions
<1>4. ASSUME NEW w \in Works PROVE Owner(w)
  <2>1. ~Listed(w) /\ ~Claimed(w) /\ ~Cancelled(w)
    BY <1>1 DEF Listed, Claimed, Cancelled, TakenBy, Cancelling
  <2> QED BY <1>1, <2>1 DEF Owner, TakenBy, Executes, Cancelling, Idle
<1>5. ASSUME NEW t \in Tasks PROVE Self(t)
  <2>1. Locals(t) /\ Barrier(t)
    BY <1>1 DEF Locals, Barrier, Waits, Runs
  <2>2. Down(t) /\ CancelWait(t)
    BY DEF Down, GoingDown, CancelWait
  <2>3. Debt(t) /\ FlushAll(t) /\ FlushOne(t)
    BY DEF Debt, FlushAll, FlushOne, OwedWork, OwedRun
  <2> QED BY <2>1, <2>2, <2>3 DEF Self
<1> QED BY <1>2, <1>3, <1>4, <1>5 DEF IInv

LEMMA TaskInductive ==
  ASSUME IInv, NEW t \in Tasks, Call(t) \/ TaskStep(t)
  PROVE  IInv'
<1>1. ASSUME NEW w \in Works, DelTimer(t, w) \/ Grab(t, w) \/ CancelDelayedWork(t, w)
      PROVE  IInv'
  BY <1>1, DelTimerStep, GrabStep, CancelDelayedWorkStep
<1>2. ASSUME NEW w \in Works, FlushWork(t, w) \/ \E c \in Cpus : FlushDelayedWork(t, w, c)
      PROVE  IInv'
  BY <1>2, FlushWorkStep, FlushDelayedWorkStep
<1>3. CASE FlushWorkqueue(t) \/ BarrierWait(t) \/ Flushed(t)
  BY <1>3, FlushWorkqueueStep, BarrierWaitStep, FlushedStep
<1>4. CASE \E c \in Cpus : CpuDown(t, c)
  BY <1>4, CpuDownStep
<1>5. CASE FlushCpu(t)
  BY <1>5, FlushCpuInsert, FlushCpuSkip
<1>6. CASE FlushLock(t) \/ GrabRead(t) \/ WaitRead(t)
  BY <1>6, FlushLockStep, GrabReadStep, WaitReadStep
<1>7. CASE GrabLock(t)
  BY <1>7, GrabLockHit, GrabLockMiss
<1>8. CASE WaitOn(t)
  BY <1>8, WaitOnInsert, WaitOnSkip
<1>9. CASE ClearWqData(t) \/ WorkClearPending(t)
  BY <1>9, ClearStep
<1>10. CASE CleanupFlush(t)
  BY <1>10, CleanupFlushInsert, CleanupFlushSkip
<1>11. CASE KthreadStop(t) \/ WorkerExited(t)
  BY <1>11, KthreadStopStep, WorkerExitedStep
<1>12. CASE Call(t)
  BY <1>1, <1>2, <1>3, <1>4, <1>12 DEF Call
<1>13. CASE TaskStep(t)
  BY <1>1, <1>2, <1>3, <1>5, <1>6, <1>7, <1>8, <1>9, <1>10, <1>11, <1>13 DEF TaskStep
<1> QED BY <1>12, <1>13

LEMMA IInvInductive == IInv /\ [Next]_vars => IInv'
<1> SUFFICES ASSUME IInv, [Next]_vars PROVE IInv'
  OBVIOUS
<1>1. ASSUME NEW w \in Works, Queueing(w) PROVE IInv'
  BY <1>1, SetWqDataStep, ListAddTailStep, SetWqDataForTimerStep, AddTimerStep DEF Queueing
<1>2. ASSUME NEW w \in Works, NEW c \in Cpus,
             QueueWorkOn(w, c) \/ QueueDelayedWorkOn(w, c) \/ DelayedWorkTimerFn(w, c)
      PROVE  IInv'
  BY <1>2, QueueWorkOnStep, DelayedWorkTimerFnStep
<1>3. ASSUME NEW c \in Cpus, Worker(c) \/ CpuUp(c) \/ CpuOnline(c) PROVE IInv'
  <2>1. CASE TakeWork(c)
    BY <2>1, WorkerThreadStep, TakeRealWork, TakeBarrier
  <2> QED BY <1>3, <2>1, WorkerThreadStep, CpuUpStep, ClearPendingStep, WorkFuncStep DEF Worker
<1>4. ASSUME NEW t \in Tasks, Call(t) \/ TaskStep(t) PROVE IInv'
  BY <1>4, TaskInductive
<1>5. CASE UNCHANGED vars
  <2>1. UNCHANGED <<worklist, current_work, worker, should_stop, pending, cwq, timer, firing,
                    queueing, pc, loc, done, online, populated, role, owed>>
    BY <1>5 DEF vars, lists, data, task, cpus
  <2>2. TypeOK' /\ \A c \in Cpus : Distinct(worklist'[c]) /\ CpuState(c)'
    BY <2>1 DEF IInv, TypeOK, CpuState
  <2>3. ASSUME NEW w \in Works PROVE Owner(w)'
    <3>1. SameOwner(w)
      BY <2>1 DEF SameOwner, TakenBy, Executes, Cancelling
    <3> QED BY <2>1, <3>1, OwnerFrame DEF IInv
  <2>4. ASSUME NEW t \in Tasks PROVE Self(t)'
    <3>1. Locals(t)' /\ Barrier(t)' /\ Down(t)' /\ CancelWait(t)'
      BY <2>1 DEF IInv, Self, Locals, Barrier, Waits, Runs, Down, GoingDown, CancelWait, Executes
    <3>2. Debt(t)' /\ FlushAll(t)' /\ FlushOne(t)'
      BY <2>1 DEF IInv, Self, Debt, FlushAll, FlushOne, OwedWork, OwedRun, Listed, Runs
    <3> QED BY <3>1, <3>2 DEF Self
  <2> QED BY <2>2, <2>3, <2>4 DEF IInv
<1> QED BY <1>1, <1>2, <1>3, <1>4, <1>5 DEF Next

-----------------------------------------------------------------------------
(* The theorems. *)

(* The entries of a work on the lists. *)
Entries(w) ==
  UNION {{<<c, i>> : i \in {i \in Positions(worklist[c]) : worklist[c][i] = w}} : c \in Cpus}

LEMMA EntryOf ==
  ASSUME NEW w, NEW e
  PROVE  e \in Entries(w) <=>
           \E c \in Cpus : \E i \in Positions(worklist[c]) : worklist[c][i] = w /\ e = <<c, i>>
BY DEF Entries

(* Each of the owners is there at most once. *)
LEMMA OwnersOnce ==
  ASSUME IInv, NEW w \in Works
  PROVE  /\ Cardinality(Entries(w)) = IF Listed(w) THEN 1 ELSE 0
         /\ Cardinality({c \in Cpus : TakenBy(c, w)}) = IF Claimed(w) THEN 1 ELSE 0
         /\ Cardinality({t \in Tasks : Cancelling(t, w)}) = IF Cancelled(w) THEN 1 ELSE 0
<1>0. Owner(w)
  BY DEF IInv
<1>1. Cardinality(Entries(w)) = IF Listed(w) THEN 1 ELSE 0
  <2>1. CASE Listed(w)
    <3>1. PICK c \in Cpus : In(w, worklist[c])
      BY <2>1 DEF Listed
    <3>2. PICK i \in Positions(worklist[c]) : worklist[c][i] = w
      BY <3>1 DEF In
    <3>3. ASSUME NEW d \in Cpus, NEW j \in Positions(worklist[d]), worklist[d][j] = w
          PROVE  d = c /\ j = i
      <4>1. In(w, worklist[d])
        BY <3>3 DEF In
      <4>2. d = c
        BY <1>0, <3>1, <4>1 DEF Owner
      <4> QED BY <3>2, <3>3, <4>2 DEF IInv, Distinct
    <3>4. Entries(w) = {<<c, i>>}
      <4>1. \A e : e \in Entries(w) <=> e = <<c, i>>
        BY <3>2, <3>3, EntryOf
      <4> QED BY <4>1
    <3> QED BY <2>1, <3>4, FS_Singleton
  <2>2. CASE ~Listed(w)
    <3>1. Entries(w) = {}
      <4>1. \A e : e \notin Entries(w)
        BY <2>2, EntryOf DEF Listed, In
      <4> QED BY <4>1
    <3> QED BY <2>2, <3>1, FS_EmptySet
  <2> QED BY <2>1, <2>2
<1>2. Cardinality({c \in Cpus : TakenBy(c, w)}) = IF Claimed(w) THEN 1 ELSE 0
  <2>1. CASE Claimed(w)
    <3>1. PICK c \in Cpus : TakenBy(c, w)
      BY <2>1 DEF Claimed
    <3>2. {d \in Cpus : TakenBy(d, w)} = {c}
      BY <1>0, <3>1 DEF Owner
    <3> QED BY <2>1, <3>2, FS_Singleton
  <2>2. CASE ~Claimed(w)
    <3>1. {c \in Cpus : TakenBy(c, w)} = {}
      BY <2>2 DEF Claimed
    <3> QED BY <2>2, <3>1, FS_EmptySet
  <2> QED BY <2>1, <2>2
<1>3. Cardinality({t \in Tasks : Cancelling(t, w)}) = IF Cancelled(w) THEN 1 ELSE 0
  <2>1. CASE Cancelled(w)
    <3>1. PICK t \in Tasks : Cancelling(t, w)
      BY <2>1 DEF Cancelled
    <3>2. {u \in Tasks : Cancelling(u, w)} = {t}
      BY <1>0, <3>1 DEF Owner
    <3> QED BY <2>1, <3>2, FS_Singleton
  <2>2. CASE ~Cancelled(w)
    <3>1. {t \in Tasks : Cancelling(t, w)} = {}
      BY <2>2 DEF Cancelled
    <3> QED BY <2>2, <3>1, FS_EmptySet
  <2> QED BY <2>1, <2>2
<1> QED BY <1>1, <1>2, <1>3

LEMMA IInvPendingOwned == IInv => PendingOwned
<1> SUFFICES ASSUME IInv PROVE PendingOwned
  OBVIOUS
<1>1. ASSUME NEW w \in Works
      PROVE  LET taken == {c \in Cpus : worker[c] = "clear" /\ current_work[c] = w}
             IN  /\ Cardinality(Entries(w)) + Cardinality(taken)
                    + Cardinality({t \in Tasks : Cancelling(t, w)})
                    + (IF w \in timer THEN 1 ELSE 0) + (IF queueing[w] # Idle THEN 1 ELSE 0)
                    = (IF w \in pending THEN 1 ELSE 0)
                 /\ \A e \in Entries(w) : cwq[w] = e[1]
                 /\ \A c \in taken : cwq[w] = c
  <2>0. Owner(w)
    BY DEF IInv
  <2>1. {c \in Cpus : worker[c] = "clear" /\ current_work[c] = w} = {c \in Cpus : TakenBy(c, w)}
    BY DEF TakenBy
  <2>2. /\ Cardinality(Entries(w)) = IF Listed(w) THEN 1 ELSE 0
        /\ Cardinality({c \in Cpus : TakenBy(c, w)}) = IF Claimed(w) THEN 1 ELSE 0
        /\ Cardinality({t \in Tasks : Cancelling(t, w)}) = IF Cancelled(w) THEN 1 ELSE 0
    BY OwnersOnce
  <2>3. Cardinality(Entries(w)) + Cardinality({c \in Cpus : TakenBy(c, w)})
          + Cardinality({t \in Tasks : Cancelling(t, w)})
          + (IF w \in timer THEN 1 ELSE 0) + (IF queueing[w] # Idle THEN 1 ELSE 0)
        = (IF w \in pending THEN 1 ELSE 0)
    BY <2>0, <2>2 DEF Owner
  <2>4. \A e \in Entries(w) : cwq[w] = e[1]
    <3>1. ASSUME NEW c \in Cpus, NEW i \in Positions(worklist[c]), worklist[c][i] = w
          PROVE  cwq[w] = c
      BY <2>0, <3>1 DEF Owner, In
    <3> QED BY <3>1, EntryOf
  <2>5. \A c \in {c \in Cpus : TakenBy(c, w)} : cwq[w] = c
    BY <2>0 DEF Owner
  <2> QED BY <2>1, <2>3, <2>4, <2>5
<1> QED BY <1>1 DEF PendingOwned, Entries, IInv

LEMMA IInvCancelSound == IInv => CancelSound
<1> SUFFICES ASSUME IInv, NEW t \in Tasks, pc[t] = "clear"
             PROVE  LET w == loc[t].work IN
                    /\ ListEmpty(w) /\ w \notin timer /\ queueing[w] = Idle
                    /\ \A c \in Cpus : Running(c) => current_work[c] # w
  BY DEF CancelSound
<1>1. PICK w : w = loc[t].work
  OBVIOUS
<1>2. w \in Works /\ Cancelling(t, w) /\ \A c \in Cpus : ~Executes(c, w)
  BY <1>1 DEF IInv, Self, Locals, CancelWait, Cancelling
<1>3. ~Listed(w) /\ w \notin timer /\ queueing[w] = Idle
  BY <1>2 DEF IInv, Owner, Cancelled
<1> QED BY <1>1, <1>2, <1>3 DEF ListEmpty, Listed, Running, Executes

(* The pending bit of a work always has exactly one owner, so that a work  *)
(* is never queued twice and can be queued again; a synchronous cancel     *)
(* lets go of a work that nothing will run; and a flush returns only when  *)
(* all that it has to wait for is over: whatever queues, timers, workers,  *)
(* flushes, cancels and CPUs that go down and come up do at the same time. *)
THEOREM WorkQueueSafe == Spec => [](PendingOwned /\ CancelSound /\ FlushSound)
<1>1. IInv => FlushSound
  BY DEF IInv, Self, Debt, FlushSound
<1> QED BY <1>1, InitIInv, IInvInductive, IInvPendingOwned, IInvCancelSound, PTL DEF Spec

-----------------------------------------------------------------------------
(* The refinement of WorkItem: what a step does to the abstract state.     *)
IsArmed(w) == queueing[w] # Idle \/ w \in timer \/ Listed(w)
Exec(c) == IF Running(c) THEN current_work[c] ELSE NoWork
CallOf(t) == CancelCall(pc[t], loc[t])
SameExec == \A c \in Cpus : Exec(c)' = Exec(c)
SameArmed(S) == \A w \in S : IsArmed(w)' <=> IsArmed(w)
SameCalls(S) == \A t \in S : CallOf(t)' = CallOf(t)

LEMMA Mapped ==
  /\ Armed \subseteq Works /\ \A w \in Works : w \in Armed <=> IsArmed(w)
  /\ Executing = [c \in Cpus |-> Exec(c)] /\ Cancels = [t \in Tasks |-> CallOf(t)]
<1>1. \A w : ListEmpty(w) <=> ~Listed(w)
  BY DEF ListEmpty, Listed
<1> QED BY <1>1 DEF IsArmed, Exec, Armed, Executing, Cancels, CallOf

LEMMA MappedPrime ==
  /\ Armed' \subseteq Works /\ \A w \in Works : w \in Armed' <=> IsArmed(w)'
  /\ Executing' = [c \in Cpus |-> Exec(c)'] /\ Cancels' = [t \in Tasks |-> CallOf(t)']
<1>1. \A w : ListEmpty(w)' <=> ~Listed(w)'
  BY DEF ListEmpty, Listed
<1> QED BY <1>1 DEF IsArmed, Exec, Armed, Executing, Cancels, CallOf

(* What changes nothing of one component. *)
LEMMA ArmedSame == ASSUME SameArmed(Works) PROVE Armed' = Armed
BY Mapped, MappedPrime DEF SameArmed

LEMMA ArmedLess ==
  ASSUME NEW w \in Works, IsArmed(w), ~IsArmed(w)', SameArmed(Works \ {w})
  PROVE  w \in Armed /\ Armed' = Armed \ {w}
BY Mapped, MappedPrime DEF SameArmed

LEMMA ExecSame == ASSUME SameExec PROVE Executing' = Executing
BY Mapped, MappedPrime DEF SameExec

LEMMA CallsSame == ASSUME SameCalls(Tasks) PROVE Cancels' = Cancels
BY Mapped, MappedPrime DEF SameCalls

LEMMA CallsMove ==
  ASSUME NEW t \in Tasks, SameCalls(Tasks \ {t}), NEW x, CallOf(t)' = x
  PROVE  Cancels' = [Cancels EXCEPT ![t] = x] /\ Cancels[t] = CallOf(t)
<1>1. Cancels = [u \in Tasks |-> CallOf(u)] /\ Cancels' = [u \in Tasks |-> CallOf(u)']
  BY Mapped, MappedPrime
<1>2. \A u \in Tasks : CallOf(u)' = IF u = t THEN x ELSE CallOf(u)
  BY DEF SameCalls
<1> HIDE DEF CallOf
<1>3. Cancels' = [u \in Tasks |-> IF u = t THEN x ELSE CallOf(u)]
  BY <1>1, <1>2
<1> QED BY <1>1, <1>3

LEMMA AbstractStutter ==
  ASSUME SameArmed(Works), SameExec, SameCalls(Tasks)
  PROVE  UNCHANGED Abstract!vars
BY ArmedSame, ExecSame, CallsSame DEF Abstract!vars

LEMMA AbstractQueue ==
  ASSUME NEW w \in Works, ~IsArmed(w), IsArmed(w)', SameArmed(Works \ {w}), SameExec,
         SameCalls(Tasks)
  PROVE  Abstract!Queue(w)
<1>1. w \notin Armed /\ Armed' = Armed \cup {w}
  BY Mapped, MappedPrime DEF SameArmed
<1> QED BY <1>1, ExecSame, CallsSame DEF Abstract!Queue

LEMMA AbstractBegin ==
  ASSUME NEW w \in Works, NEW c \in Cpus, IsArmed(w), ~IsArmed(w)', SameArmed(Works \ {w}),
         Exec(c) = NoWork, Exec(c)' = w, \A d \in Cpus \ {c} : Exec(d)' = Exec(d),
         SameCalls(Tasks)
  PROVE  Abstract!Begin(w, c)
<1>1. [d \in Cpus |-> Exec(d)'] = [[d \in Cpus |-> Exec(d)] EXCEPT ![c] = w]
  OBVIOUS
<1>2. Executing' = [Executing EXCEPT ![c] = w] /\ Executing[c] = NoWork
  BY <1>1, Mapped, MappedPrime
<1> QED BY <1>2, ArmedLess, CallsSame DEF Abstract!Begin

LEMMA AbstractEnd ==
  ASSUME NEW c \in Cpus, SameArmed(Works), Exec(c) # NoWork, Exec(c)' = NoWork,
         \A d \in Cpus \ {c} : Exec(d)' = Exec(d), SameCalls(Tasks)
  PROVE  Abstract!End(c)
<1>1. [d \in Cpus |-> Exec(d)'] = [[d \in Cpus |-> Exec(d)] EXCEPT ![c] = NoWork]
  <2>1. \A d \in Cpus : Exec(d)' = IF d = c THEN NoWork ELSE Exec(d)
    OBVIOUS
  <2>2. [d \in Cpus |-> Exec(d)'] = [d \in Cpus |-> IF d = c THEN NoWork ELSE Exec(d)]
    BY <2>1
  <2> QED BY <2>2
<1>2. Executing' = [Executing EXCEPT ![c] = NoWork] /\ Executing[c] # NoWork
  BY <1>1, Mapped, MappedPrime
<1> QED BY <1>2, ArmedSame, CallsSame DEF Abstract!End

(* A cancel begins, without the work or with it, takes it later, and       *)
(* returns.                                                                *)
Asked(w) == [work |-> w, sync |-> TRUE, got |-> FALSE]
Took(w) == [work |-> w, sync |-> TRUE, got |-> TRUE]
TookTimer(w) == [work |-> w, sync |-> FALSE, got |-> TRUE]

LEMMA AbstractAsk ==
  ASSUME NEW t \in Tasks, NEW w \in Works, CallOf(t) = Abstract!NoCall, CallOf(t)' = Asked(w),
         SameCalls(Tasks \ {t}), SameArmed(Works), SameExec
  PROVE  Abstract!Cancel(t, w, TRUE, FALSE)
<1>1. Cancels' = [Cancels EXCEPT ![t] = Asked(w)] /\ Cancels[t] = Abstract!NoCall
  BY CallsMove
<1> QED BY <1>1, ArmedSame, ExecSame DEF Abstract!Cancel, Asked

LEMMA AbstractCancel ==
  ASSUME NEW t \in Tasks, NEW w \in Works, CallOf(t) = Abstract!NoCall,
         CallOf(t)' \in {Took(w), TookTimer(w)}, SameCalls(Tasks \ {t}),
         IsArmed(w), ~IsArmed(w)', SameArmed(Works \ {w}), SameExec
  PROVE  Abstract!Cancel(t, w, TRUE, TRUE) \/ Abstract!Cancel(t, w, FALSE, TRUE)
<1>1. Cancels' = [Cancels EXCEPT ![t] = CallOf(t)'] /\ Cancels[t] = Abstract!NoCall
  BY CallsMove
<1>2. w \in Armed /\ Armed' = Armed \ {w} /\ Executing' = Executing
  BY ArmedLess, ExecSame
<1>3. CASE CallOf(t)' = Took(w)
  BY <1>1, <1>2, <1>3 DEF Abstract!Cancel, Took
<1>4. CASE CallOf(t)' = TookTimer(w)
  BY <1>1, <1>2, <1>4 DEF Abstract!Cancel, TookTimer
<1> QED BY <1>3, <1>4

LEMMA AbstractTake ==
  ASSUME NEW t \in Tasks, NEW w \in Works, CallOf(t) = Asked(w), CallOf(t)' = Took(w),
         SameCalls(Tasks \ {t}), IsArmed(w), ~IsArmed(w)', SameArmed(Works \ {w}), SameExec
  PROVE  Abstract!Take(t)
<1>1. Cancels' = [Cancels EXCEPT ![t] = Took(w)] /\ Cancels[t] = Asked(w)
  BY CallsMove
<1>2. Cancels' = [Cancels EXCEPT ![t].got = TRUE]
  <2>1. Took(w) = [Asked(w) EXCEPT !.got = TRUE]
    <3>1. ASSUME NEW a, NEW b, NEW c, NEW d
          PROVE  [[work |-> a, sync |-> b, got |-> c] EXCEPT !.got = d]
                   = [work |-> a, sync |-> b, got |-> d]
      OBVIOUS
    <3>2. \A c, d : [[work |-> w, sync |-> TRUE, got |-> c] EXCEPT !.got = d]
                      = [work |-> w, sync |-> TRUE, got |-> d]
      BY <3>1, Zenon
    <3>3. [[work |-> w, sync |-> TRUE, got |-> FALSE] EXCEPT !.got = TRUE]
            = [work |-> w, sync |-> TRUE, got |-> TRUE]
      BY <3>2, Zenon
    <3> QED BY <3>3 DEF Took, Asked
  <2>2. PICK f : f = Cancels
    OBVIOUS
  <2>3. [f EXCEPT ![t].got = TRUE] = [f EXCEPT ![t] = [f[t] EXCEPT !.got = TRUE]]
    OBVIOUS
  <2> QED BY <1>1, <2>1, <2>2, <2>3
<1>3. Cancels[t].work = w /\ ~Cancels[t].got
  BY <1>1 DEF Asked
<1> QED BY <1>2, <1>3, ArmedLess, ExecSame DEF Abstract!Take

LEMMA AbstractReturn ==
  ASSUME NEW t \in Tasks, NEW w \in Works, CallOf(t)' = Abstract!NoCall,
         CallOf(t) = TookTimer(w) \/ (/\ CallOf(t) \in {Took(w), Asked(w)}
                                      /\ \A c \in Cpus : Exec(c) # w),
         SameCalls(Tasks \ {t}), ~IsArmed(w), SameArmed(Works), SameExec
  PROVE  Abstract!Return(t)
<1>1. Cancels' = [Cancels EXCEPT ![t] = Abstract!NoCall] /\ Cancels[t] = CallOf(t)
  BY CallsMove
<1>2. Cancels[t].work = w /\ (Cancels[t].sync => \A c \in Cpus : Exec(c) # w)
  BY <1>1 DEF Took, Asked, TookTimer
<1>3. w \notin Armed /\ \A c \in Cpus : Executing[c] = Exec(c)
  BY Mapped
<1> QED BY <1>1, <1>2, <1>3, ArmedSame, ExecSame DEF Abstract!Return

(* The abstract call of a task, from the place where it is.                *)
LEMMA CallValue ==
  ASSUME NEW p, NEW l
  PROVE  /\ p \notin CancelPlaces => CancelCall(p, l) = Abstract!NoCall
         /\ p \in {"again", "grab", "grabRead", "grabLock"} => CancelCall(p, l) = Asked(l.work)
         /\ p \in {"waitRead", "waitOn", "waitOnWait", "clear"} =>
              /\ l.ret = 1 => CancelCall(p, l) = Took(l.work)
              /\ l.ret # 1 => CancelCall(p, l) = Asked(l.work)
         /\ p = "clearPending" => CancelCall(p, l) = TookTimer(l.work)
BY DEF CancelCall, CancelPlaces, Asked, Took, TookTimer, Abstract!NoCall

LEMMA SameTasks ==
  ASSUME UNCHANGED <<pc, loc>>
  PROVE  SameCalls(Tasks)
BY DEF SameCalls, CallOf

LEMMA TaskCalls ==
  ASSUME NEW t \in Tasks, \A u \in Tasks \ {t} : pc'[u] = pc[u] /\ loc'[u] = loc[u]
  PROVE  /\ SameCalls(Tasks \ {t})
         /\ CallOf(t)' = CallOf(t) => SameCalls(Tasks)
<1>1. SameCalls(Tasks \ {t})
  BY DEF SameCalls, CallOf
<1> QED BY <1>1 DEF SameCalls

-----------------------------------------------------------------------------
(* The steps of queueing. *)
LEMMA SameWorkers ==
  ASSUME UNCHANGED <<current_work, worker>>
  PROVE  SameExec
BY DEF SameExec, Exec, Running

LEMMA QueueRefines ==
  ASSUME IInv, NEW w \in Works, NEW c \in Cpus, QueueWorkOn(w, c) \/ QueueDelayedWorkOn(w, c)
  PROVE  Abstract!Queue(w)
<1>1. /\ w \notin pending /\ UNCHANGED <<worklist, current_work, worker, timer, pc, loc>>
      /\ Stage(w, "insert", c) \/ Stage(w, "delay", c)
  BY DEF QueueWorkOn, QueueDelayedWorkOn, lists, task
<1>2. queueing'[w] # Idle /\ \A v \in Works \ {w} : queueing'[v] = queueing[v]
  BY <1>1, StageEffect DEF IInv
<1>3. ~IsArmed(w)
  BY <1>1 DEF IInv, Owner, IsArmed
<1>4. IsArmed(w)' /\ SameArmed(Works \ {w})
  BY <1>1, <1>2 DEF IsArmed, SameArmed, Listed
<1> QED BY <1>1, <1>3, <1>4, SameWorkers, SameTasks, AbstractQueue

LEMMA QueueingStutters ==
  ASSUME IInv, NEW w \in Works, Queueing(w)
  PROVE  UNCHANGED Abstract!vars
<1>1. SameExec
  BY SameWorkers DEF Queueing, SetWqData, ListAddTail, SetWqDataForTimer, AddTimer, lists
<1>0. SetWqData(w) \/ SetWqDataForTimer(w) \/ AddTimer(w) => SameCalls(Tasks)
  BY SameTasks DEF SetWqData, SetWqDataForTimer, AddTimer, task
<1>2. PICK c : c = queueing[w].cpu
  OBVIOUS
<1>3. queueing[w] # Idle /\ c \in Cpus
  BY <1>2, StageType DEF IInv, Queueing, SetWqData, ListAddTail, SetWqDataForTimer, AddTimer
<1>4. CASE SetWqData(w) \/ SetWqDataForTimer(w)
  <2>1. /\ UNCHANGED <<worklist, timer>>
        /\ Stage(w, "add", c) \/ Stage(w, "arm", c)
    BY <1>2, <1>4 DEF SetWqData, SetWqDataForTimer, lists
  <2>2. queueing'[w] # Idle /\ \A v \in Works \ {w} : queueing'[v] = queueing[v]
    BY <1>3, <2>1, StageEffect DEF IInv
  <2>3. SameArmed(Works)
    BY <1>3, <2>1, <2>2 DEF SameArmed, IsArmed, Listed
  <2> QED BY <1>0, <1>1, <1>4, <2>3, AbstractStutter
<1>5. CASE AddTimer(w)
  <2>1. UNCHANGED worklist /\ timer' = timer \cup {w}
        /\ \A v \in Works \ {w} : queueing'[v] = queueing[v]
    BY <1>5 DEF AddTimer, lists, IInv, TypeOK
  <2>2. SameArmed(Works)
    BY <1>3, <2>1 DEF SameArmed, IsArmed, Listed
  <2> QED BY <1>0, <1>1, <1>5, <2>2, AbstractStutter
<1>6. CASE ListAddTail(w)
  <2>1. /\ worklist' = [worklist EXCEPT ![c] = Append(@, w)] /\ UNCHANGED timer
        /\ \A v \in Works \ {w} : queueing'[v] = queueing[v]
    BY <1>2, <1>6 DEF ListAddTail, IInv, TypeOK
  <2>2. /\ worklist \in [Cpus -> Seq(Works \cup Tasks)] /\ Distinct(worklist[c])
        /\ ~In(w, worklist[c])
    BY <1>3 DEF IInv, TypeOK, Owner, Listed
  <2>3. \A x : In(x, Append(worklist[c], w)) <=> In(x, worklist[c]) \/ x = w
    BY <1>3, <2>2, AppendQueue
  <2>4. \A d \in Cpus : worklist'[d] = IF d = c THEN Append(worklist[c], w) ELSE worklist[d]
    BY <2>1, <2>2
  <2>5. \A v \in Works : Listed(v)' <=> Listed(v) \/ v = w
    BY <1>3, <2>3, <2>4 DEF Listed
  <2>6. SameArmed(Works)
    BY <1>3, <2>1, <2>5 DEF SameArmed, IsArmed
  <2>7. \A u \in Tasks : /\ loc'[u] = loc[u]
                         /\ \/ pc'[u] = pc[u]
                            \/ pc[u] \notin CancelPlaces /\ pc'[u] \notin CancelPlaces
    BY <1>6 DEF ListAddTail, CancelPlaces
  <2>8. SameCalls(Tasks)
    BY <2>7, CallValue DEF SameCalls, CallOf
  <2> QED BY <1>1, <2>6, <2>8, AbstractStutter
<1> QED BY <1>4, <1>5, <1>6 DEF Queueing

LEMMA TimerStutters ==
  ASSUME IInv, NEW w \in Works, NEW c \in Cpus, w \in timer, timer' = timer \ {w},
         Stage(w, "insert", c), UNCHANGED <<worklist, current_work, worker>>, SameCalls(Tasks)
  PROVE  UNCHANGED Abstract!vars
<1>1. queueing'[w] # Idle /\ \A v \in Works \ {w} : queueing'[v] = queueing[v]
  BY StageEffect DEF IInv
<1>2. SameArmed(Works)
  BY <1>1 DEF SameArmed, IsArmed, Listed
<1> QED BY <1>2, SameWorkers, AbstractStutter

(* The steps of a worker. *)
LEMMA TakeWorkRefines ==
  ASSUME IInv, NEW c \in Cpus, TakeWork(c)
  PROVE  (\E w \in Works : Abstract!Begin(w, c)) \/ UNCHANGED Abstract!vars
<1>0. SameCalls(Tasks)
  BY SameTasks DEF TakeWork, task
<1>1. CASE worklist[c] = <<>>
  <2>1. UNCHANGED <<worklist, current_work, timer, queueing>>
    BY <1>1 DEF TakeWork, data
  <2>2. \A d \in Cpus : worker'[d] = IF d = c THEN "top" ELSE worker[d]
    BY <1>1 DEF TakeWork, WorkerAt, IInv, TypeOK
  <2>3. worker[c] = "loop"
    BY DEF TakeWork
  <2>4. SameArmed(Works) /\ SameExec
    BY <2>1, <2>2, <2>3 DEF SameArmed, IsArmed, Listed, SameExec, Exec, Running
  <2> QED BY <1>0, <2>4, AbstractStutter
<1>2. CASE worklist[c] # <<>>
  <2>0. PICK x : x = Head(worklist[c])
    OBVIOUS
  <2>1. /\ x \in Works \cup Tasks /\ In(x, worklist[c]) /\ worker[c] = "loop"
        /\ worker' = [worker EXCEPT ![c] = IF x \in Works THEN "clear" ELSE "func"]
        /\ current_work' = [current_work EXCEPT ![c] = x]
        /\ UNCHANGED <<timer, queueing>>
    BY <1>2, <2>0, TakeWorkEffect
  <2>2. \A d \in Cpus : \A y : In(y, worklist'[d]) <=> In(y, worklist[d]) /\ ~(y = x /\ d = c)
    BY <1>2, <2>0, TakeWorkEffect
  <2>3. /\ worker'[c] = IF x \in Works THEN "clear" ELSE "func"
        /\ current_work'[c] = x
        /\ \A d \in Cpus \ {c} : worker'[d] = worker[d] /\ current_work'[d] = current_work[d]
    BY <2>1 DEF IInv, TypeOK
  <2>4. /\ Exec(c) = NoWork /\ \A d \in Cpus \ {c} : Exec(d)' = Exec(d)
        /\ Exec(c)' = IF x \in Works THEN x ELSE NoWork
    BY <2>1, <2>3 DEF Exec, Running
  <2>5. \A v \in Works : v # x => (Listed(v)' <=> Listed(v))
    BY <2>2 DEF Listed
  <2>6. CASE x \in Works
    <3>1. IsArmed(x)
      BY <2>1 DEF IsArmed, Listed
    <3>2. /\ queueing[x] = Idle /\ x \notin timer
          /\ \A d \in Cpus : In(x, worklist[d]) => d = c
      BY <2>1, <2>6 DEF IInv, Owner, Listed
    <3>3. ~IsArmed(x)'
      BY <2>1, <2>2, <3>2 DEF IsArmed, Listed
    <3>4. SameArmed(Works \ {x})
      BY <2>1, <2>5 DEF SameArmed, IsArmed
    <3>5. Exec(c)' = x
      BY <2>4, <2>6
    <3> QED BY <1>0, <2>4, <2>6, <3>1, <3>3, <3>4, <3>5, AbstractBegin
  <2>7. CASE x \notin Works
    <3>1. SameArmed(Works) /\ SameExec
      BY <2>1, <2>4, <2>5, <2>7 DEF SameArmed, IsArmed, SameExec
    <3> QED BY <1>0, <3>1, AbstractStutter
  <2> QED BY <2>6, <2>7
<1> QED BY <1>1, <1>2

LEMMA WorkerRefines ==
  ASSUME IInv, NEW c \in Cpus, Worker(c) \/ CpuUp(c) \/ CpuOnline(c)
  PROVE  \/ \E w \in Works : Abstract!Begin(w, c)
         \/ Abstract!End(c) \/ UNCHANGED Abstract!vars
<1>1. CASE TakeWork(c)
  BY <1>1, TakeWorkRefines
<1>0. ~TakeWork(c) => SameCalls(Tasks)
  BY SameTasks DEF Worker, WorkerThread, WorkDone, CpuUp, CpuOnline, ClearPending, WorkFunc, task
<1>2. worker \in [Cpus -> {"new", "top", "loop", "clear", "func", "end", "dead"}]
  BY DEF IInv, TypeOK
<1>3. current_work \in [Cpus -> Works \cup Tasks \cup {NoWork}]
  BY DEF IInv, TypeOK
<1>4. UNCHANGED <<worklist, timer, queueing>> => SameArmed(Works)
  BY DEF SameArmed, IsArmed, Listed
<1>5. CASE WorkerThread(c) \/ WorkDone(c) \/ CpuUp(c) \/ CpuOnline(c)
  <2>1. /\ worker[c] \notin {"clear", "func"} /\ worker'[c] \notin {"clear", "func"}
        /\ \A d \in Cpus \ {c} : worker'[d] = worker[d] /\ current_work'[d] = current_work[d]
    <3>1. CASE WorkerThread(c) \/ CpuOnline(c)
      BY <1>2, <3>1 DEF WorkerThread, CpuOnline, WorkerAt
    <3>2. CASE WorkDone(c)
      BY <1>2, <1>3, <3>2 DEF WorkDone, WorkerAt
    <3>3. CASE CpuUp(c)
      <4>1. worker[c] = "dead"
        BY <3>3 DEF IInv, CpuState, CpuUp
      <4> QED BY <1>2, <3>3, <4>1 DEF CpuUp
    <3> QED BY <1>5, <3>1, <3>2, <3>3
  <2>2. SameExec
    BY <2>1 DEF SameExec, Exec, Running
  <2>3. UNCHANGED <<worklist, timer, queueing>>
    BY <1>5 DEF WorkerThread, WorkDone, CpuUp, CpuOnline, data
  <2> QED BY <1>0, <1>1, <1>4, <2>2, <2>3, AbstractStutter
<1>6. CASE ClearPending(c)
  <2>1. /\ UNCHANGED <<worklist, timer, queueing, current_work>>
        /\ worker[c] = "clear" /\ worker' = [worker EXCEPT ![c] = "func"]
    BY <1>6 DEF ClearPending, WorkerAt
  <2>2. SameExec
    BY <1>2, <2>1 DEF SameExec, Exec, Running
  <2> QED BY <1>0, <1>1, <1>4, <2>1, <2>2, AbstractStutter
<1>7. CASE WorkFunc(c)
  <2>1. /\ UNCHANGED <<worklist, timer, queueing, current_work>>
        /\ worker[c] = "func" /\ worker' = [worker EXCEPT ![c] = "end"]
    BY <1>7 DEF WorkFunc, WorkerAt, data
  <2>2. Exec(c)' = NoWork /\ \A d \in Cpus \ {c} : Exec(d)' = Exec(d)
    BY <1>2, <2>1 DEF Exec, Running
  <2>3. CASE Exec(c) = NoWork
    BY <1>0, <1>1, <1>4, <2>1, <2>2, <2>3, AbstractStutter DEF SameExec
  <2>4. CASE Exec(c) # NoWork
    BY <1>0, <1>1, <1>4, <2>1, <2>2, <2>4, AbstractEnd
  <2> QED BY <2>3, <2>4
<1> QED BY <1>1, <1>5, <1>6, <1>7 DEF Worker

(* The steps of a task.  It never changes a worker, and its barriers are   *)
(* not works.                                                              *)
LEMMA BarrierStutters ==
  ASSUME IInv, NEW t \in Tasks, NEW c \in Cpus, NEW i \in 1 .. Len(worklist[c]) + 1,
         InsertBarrier(t, c, i), ~Waits(t), UNCHANGED <<current_work, worker, timer, queueing>>,
         SameCalls(Tasks)
  PROVE  UNCHANGED Abstract!vars
<1>1. worklist \in [Cpus -> Seq(Works \cup Tasks)] /\ Distinct(worklist[c])
  BY DEF IInv, TypeOK
<1>2. ~In(t, worklist[c])
  BY DEF IInv, Self, Barrier
<1>3. \A x : In(x, InsertAt(worklist[c], i, t)) <=> In(x, worklist[c]) \/ x = t
  <2>1. worklist[c] \in Seq(Works \cup Tasks) /\ t \in Works \cup Tasks
    BY <1>1
  <2> QED BY <1>1, <1>2, <2>1, InsertQueue
<1>4. \A d \in Cpus : worklist'[d] = IF d = c THEN InsertAt(worklist[c], i, t) ELSE worklist[d]
  BY <1>1 DEF InsertBarrier
<1>5. \A v \in Works : v # t
  BY WorkQueueAssumption
<1>6. \A v \in Works : Listed(v)' <=> Listed(v)
  BY <1>3, <1>4, <1>5 DEF Listed
<1>7. SameArmed(Works)
  BY <1>6 DEF SameArmed, IsArmed
<1> QED BY <1>7, SameWorkers, AbstractStutter

LEMMA QuietStutters ==
  ASSUME UNCHANGED <<worklist, current_work, worker, timer, queueing>>, SameCalls(Tasks)
  PROVE  UNCHANGED Abstract!vars
<1>1. SameArmed(Works)
  BY DEF SameArmed, IsArmed, Listed
<1> QED BY <1>1, SameWorkers, AbstractStutter

(* Where the steps of a task other than the first, the last and the one    *)
(* that gets the work leave its call alone.                                *)
LEMMA GotoCalls ==
  ASSUME TypeOK, NEW t \in Tasks, NEW from, NEW to, NEW l, Goto(t, from, to, l)
  PROVE  /\ SameCalls(Tasks \ {t})
         /\ CallOf(t) = CancelCall(from, loc[t]) /\ CallOf(t)' = CancelCall(to, l)
         /\ CancelCall(from, loc[t]) = CancelCall(to, l) => SameCalls(Tasks)
<1>1. pc \in [Tasks -> PcSet] /\ loc \in [Tasks -> LocSet]
  BY DEF TypeOK, PcSet, LocSet
<1>2. /\ pc[t] = from /\ pc'[t] = to /\ loc'[t] = l
      /\ \A u \in Tasks \ {t} : pc'[u] = pc[u] /\ loc'[u] = loc[u]
  BY <1>1 DEF Goto
<1> QED BY <1>2, TaskCalls DEF CallOf

(* A cancel that gets the work.                                            *)
LEMMA GotoTook ==
  ASSUME TypeOK, NEW t \in Tasks, NEW w \in Works, NEW from, NEW l,
         Goto(t, from, "waitRead", l), l.work = w, l.ret = 1
  PROVE  SameCalls(Tasks \ {t}) /\ CallOf(t)' = Took(w)
<1>1. SameCalls(Tasks \ {t}) /\ CallOf(t)' = CancelCall("waitRead", l)
  BY GotoCalls
<1>2. CancelCall("waitRead", l) = Took(w)
  BY CallValue
<1> QED BY <1>1, <1>2

LEMMA OutsideCalls ==
  ASSUME TypeOK, NEW t \in Tasks, NEW from, NEW to, NEW l, Goto(t, from, to, l),
         from \notin CancelPlaces, to \notin CancelPlaces
  PROVE  SameCalls(Tasks)
<1>1. CancelCall(from, loc[t]) = CancelCall(to, l) => SameCalls(Tasks)
  BY GotoCalls
<1>2. CancelCall(from, loc[t]) = Abstract!NoCall /\ CancelCall(to, l) = Abstract!NoCall
  BY CallValue
<1> QED BY <1>1, <1>2

(* A task that goes on waiting for the work that it cancels.               *)
Waiting(p) == p \in {"waitRead", "waitOn", "waitOnWait"}

LEMMA WaitingCalls ==
  ASSUME TypeOK, NEW t \in Tasks, Waiting(pc[t]), loc'[t].work = loc[t].work,
         loc'[t].ret = loc[t].ret, Waiting(pc'[t]) \/ pc'[t] = AfterWait(loc[t]),
         \A u \in Tasks \ {t} : pc'[u] = pc[u] /\ loc'[u] = loc[u]
  PROVE  SameCalls(Tasks)
<1>1. CallOf(t) = IF loc[t].ret = 1 THEN Took(loc[t].work) ELSE Asked(loc[t].work)
  BY CallValue DEF CallOf, Waiting
<1>2. \/ pc'[t] \in {"waitRead", "waitOn", "waitOnWait", "clear"}
      \/ pc'[t] = "again" /\ loc[t].ret # 1
  BY LocType DEF Waiting, AfterWait
<1>3. CallOf(t)' = IF loc[t].ret = 1 THEN Took(loc[t].work) ELSE Asked(loc[t].work)
  <2>1. CallOf(t)' = CancelCall(pc'[t], loc'[t])
    BY DEF CallOf
  <2> QED BY <1>2, <2>1, CallValue
<1> QED BY <1>1, <1>3, TaskCalls

LEMMA BarrierStepCalls ==
  ASSUME IInv, NEW t \in Tasks,
         FlushCpu(t) \/ WaitOn(t) \/ FlushLock(t) \/ CleanupFlush(t)
  PROVE  SameCalls(Tasks)
<1>0. TypeOK
  BY DEF IInv
<1>1. CASE FlushCpu(t)
  <2>1. \E to \in {"flushWait", "flushCpu", "flushed"} : \E l : Goto(t, "flushCpu", to, l)
    BY <1>1 DEF FlushCpu, LoopStep, NextCpu
  <2> QED BY <1>0, <2>1, OutsideCalls DEF CancelPlaces
<1>2. CASE FlushLock(t) \/ CleanupFlush(t)
  <2>1. \E from \in {"flushLock", "down"}, to \in {"flushWorkWait", "flushed", "downWait", "stop"} :
          \E l : Goto(t, from, to, l)
    BY <1>2 DEF FlushLock, CleanupFlush
  <2> QED BY <1>0, <2>1, OutsideCalls DEF CancelPlaces
<1>3. CASE WaitOn(t)
  <2>1. pc[t] = "waitOn" /\ AfterWait(loc[t]) \in PcSet /\ {"waitOn", "waitOnWait"} \subseteq PcSet
    BY <1>3 DEF WaitOn, LoopStep, AfterWait, PcSet
  <2>2. \/ NextCpu(t, "waitOn", "waitOn", AfterWait(loc[t]))
        \/ Goto(t, "waitOn", "waitOnWait", loc[t])
    BY <1>3 DEF WaitOn, LoopStep
  <2>3. CASE NextCpu(t, "waitOn", "waitOn", AfterWait(loc[t]))
    <3>1. /\ loc'[t].work = loc[t].work /\ loc'[t].ret = loc[t].ret
          /\ pc'[t] = "waitOn" \/ pc'[t] = AfterWait(loc[t])
          /\ \A u \in Tasks \ {t} : pc'[u] = pc[u] /\ loc'[u] = loc[u]
      BY <1>0, <2>1, <2>3, NextCpuEffect
    <3> QED BY <1>0, <2>1, <3>1, WaitingCalls DEF Waiting
  <2>4. CASE Goto(t, "waitOn", "waitOnWait", loc[t])
    <3>1. CancelCall("waitOn", loc[t]) = CancelCall("waitOnWait", loc[t]) => SameCalls(Tasks)
      BY <1>0, <2>4, GotoCalls
    <3>2. CancelCall("waitOn", loc[t]) = CancelCall("waitOnWait", loc[t])
      BY CallValue
    <3> QED BY <3>1, <3>2
  <2> QED BY <2>2, <2>3, <2>4
<1> QED BY <1>1, <1>2, <1>3

LEMMA BarrierWaitCalls ==
  ASSUME IInv, NEW t \in Tasks, BarrierWait(t)
  PROVE  SameCalls(Tasks)
<1>0. TypeOK
  BY DEF IInv
<1>1. CASE NextCpu(t, "waitOnWait", "waitOn", AfterWait(loc[t]))
  <2>1. AfterWait(loc[t]) \in PcSet /\ "waitOn" \in PcSet
    BY DEF AfterWait, PcSet
  <2>2. /\ pc[t] = "waitOnWait" /\ loc'[t].work = loc[t].work /\ loc'[t].ret = loc[t].ret
        /\ pc'[t] = "waitOn" \/ pc'[t] = AfterWait(loc[t])
        /\ \A u \in Tasks \ {t} : pc'[u] = pc[u] /\ loc'[u] = loc[u]
    BY <1>0, <1>1, <2>1, NextCpuEffect
  <2> QED BY <1>0, <2>2, WaitingCalls DEF Waiting
<1>2. CASE ~NextCpu(t, "waitOnWait", "waitOn", AfterWait(loc[t]))
  <2>1. \E from \in {"flushWait", "flushWorkWait", "downWait"},
           to \in {"flushCpu", "flushed", "stop"} :
          \E l : Goto(t, from, to, l)
    BY <1>2 DEF BarrierWait, NextCpu
  <2> QED BY <1>0, <2>1, OutsideCalls DEF CancelPlaces
<1> QED BY <1>1, <1>2

LEMMA BarrierStepStutters ==
  ASSUME IInv, NEW t \in Tasks,
         FlushCpu(t) \/ WaitOn(t) \/ FlushLock(t) \/ CleanupFlush(t)
  PROVE  UNCHANGED Abstract!vars
<1>1. pc[t] \in {"flushCpu", "waitOn", "flushLock", "down"} /\ ~Waits(t) /\ Self(t)
  BY DEF FlushCpu, WaitOn, FlushLock, CleanupFlush, LoopStep, Waits, IInv
<1>2. UNCHANGED <<current_work, worker, timer, queueing>>
  BY DEF FlushCpu, WaitOn, FlushLock, CleanupFlush, LoopStep, data
<1>0. SameCalls(Tasks)
  BY BarrierStepCalls
<1>3. \A d \in Cpus : Len(worklist[d]) \in Nat
  BY DEF IInv, TypeOK
<1>4. CASE FlushCpu(t) \/ WaitOn(t) \/ CleanupFlush(t)
  <2>1. PICK c : c = loc[t].cpu
    OBVIOUS
  <2>2. c \in Cpus /\ 1 \in 1 .. Len(worklist[c]) + 1
        /\ Len(worklist[c]) + 1 \in 1 .. Len(worklist[c]) + 1
    <3>1. c \in Cpus
      BY <1>1, <1>4, <2>1 DEF Self, Locals, FlushCpu, WaitOn, CleanupFlush, LoopStep
    <3> QED BY <1>3, <3>1
  <2>3. \/ InsertBarrier(t, c, 1) \/ InsertBarrier(t, c, Len(worklist[c]) + 1)
        \/ UNCHANGED worklist
    BY <1>4, <2>1 DEF FlushCpu, WaitOn, CleanupFlush, LoopStep, NoBarrier
  <2>4. CASE UNCHANGED worklist
    BY <1>0, <1>2, <2>4, QuietStutters
  <2>5. CASE InsertBarrier(t, c, 1)
    BY <1>0, <1>1, <1>2, <2>2, <2>5, BarrierStutters
  <2>6. CASE InsertBarrier(t, c, Len(worklist[c]) + 1)
    BY <1>0, <1>1, <1>2, <2>2, <2>6, BarrierStutters
  <2> QED BY <2>3, <2>4, <2>5, <2>6
<1>5. CASE FlushLock(t)
  <2>1. PICK c : c = loc[t].cwq
    OBVIOUS
  <2>2. c \in Cpus
    BY <1>1, <1>5, <2>1 DEF Self, Locals, FlushLock
  <2>3. \/ \E i \in Positions(worklist[c]) : InsertBarrier(t, c, i + 1)
        \/ InsertBarrier(t, c, 1) \/ UNCHANGED worklist
    BY <1>5, <2>1 DEF FlushLock, NoBarrier
  <2>4. CASE UNCHANGED worklist
    BY <1>0, <1>2, <2>4, QuietStutters
  <2>5. CASE InsertBarrier(t, c, 1)
    <3>1. 1 \in 1 .. Len(worklist[c]) + 1
      BY <1>3, <2>2
    <3> QED BY <1>0, <1>1, <1>2, <2>2, <2>5, <3>1, BarrierStutters
  <2>6. CASE \E i \in Positions(worklist[c]) : InsertBarrier(t, c, i + 1)
    <3>1. PICK i \in 1 .. Len(worklist[c]) : InsertBarrier(t, c, i + 1)
      BY <2>6 DEF Positions
    <3>2. i + 1 \in 1 .. Len(worklist[c]) + 1
      BY <1>3, <2>2, <3>1
    <3> QED BY <1>0, <1>1, <1>2, <2>2, <3>1, <3>2, BarrierStutters
  <2> QED BY <2>3, <2>4, <2>5, <2>6
<1> QED BY <1>4, <1>5

(* A cancel begins and takes the work from its timer, or finds no timer.   *)
LEMMA TimerTaken ==
  ASSUME IInv, NEW w \in Works, w \in timer, timer' = timer \ {w},
         UNCHANGED <<worklist, current_work, worker, queueing>>
  PROVE  IsArmed(w) /\ ~IsArmed(w)' /\ SameArmed(Works \ {w}) /\ SameExec
<1>1. ~Listed(w) /\ queueing[w] = Idle
  BY DEF IInv, Owner
<1> QED BY <1>1, SameWorkers DEF IsArmed, SameArmed, Listed

(* A task calls a cancel. *)
AbstractCall(t, w) ==
  \/ Abstract!Cancel(t, w, TRUE, FALSE) \/ Abstract!Cancel(t, w, TRUE, TRUE)
  \/ Abstract!Cancel(t, w, FALSE, TRUE)

LEMMA DelTimerRefines ==
  ASSUME IInv, NEW t \in Tasks, NEW w \in Works, DelTimer(t, w)
  PROVE  AbstractCall(t, w) \/ Abstract!Take(t) \/ UNCHANGED Abstract!vars
<1>0. TypeOK /\ Nothing \in LocSet
  <2>1. NCpus \in Nat
    BY WorkQueueAssumption
  <2> QED BY <2>1 DEF IInv, Nothing, LocSet, NULL
<1>1. timer' = timer \ {w} /\ UNCHANGED <<worklist, current_work, worker, queueing>>
  BY DEF DelTimer, lists
<1>2. PICK from \in {"idle", "again"} :
        IF w \in timer THEN Cancel(t, w, TRUE, from, "waitRead", 1)
        ELSE Cancel(t, w, TRUE, from, "grab", 0)
  BY DEF DelTimer
<1>3. from = "again" => loc[t].work = w
  BY <1>2 DEF Cancel
<1>4. /\ from = "idle" => CallOf(t) = Abstract!NoCall
      /\ from = "again" => CallOf(t) = Asked(w)
  <2>1. pc[t] = from
    BY <1>2 DEF Cancel, Goto
  <2> QED BY <1>3, <2>1, CallValue DEF CallOf, CancelPlaces
<1>5. CASE w \in timer
  <2>1. PICK l \in LocSet : l.work = w /\ l.ret = 1 /\ Goto(t, from, "waitRead", l)
    BY <1>0, <1>2, <1>5, CancelGoto
  <2>2. SameCalls(Tasks \ {t}) /\ CallOf(t)' = Took(w)
    <3>1. Goto(t, from, "waitRead", l) /\ l.work = w /\ l.ret = 1
      BY <2>1
    <3> QED BY <1>0, <3>1, GotoTook
  <2>3. IsArmed(w) /\ ~IsArmed(w)' /\ SameArmed(Works \ {w}) /\ SameExec
    BY <1>1, <1>5, TimerTaken
  <2> QED BY <1>4, <2>2, <2>3, AbstractCancel, AbstractTake DEF AbstractCall
<1>6. CASE w \notin timer
  <2>1. PICK l \in LocSet : l.work = w /\ l.ret = 0 /\ Goto(t, from, "grab", l)
    BY <1>0, <1>2, <1>6, CancelGoto
  <2>2. SameCalls(Tasks \ {t}) /\ CallOf(t)' = Asked(w)
    <3>1. SameCalls(Tasks \ {t}) /\ CallOf(t)' = CancelCall("grab", l)
      BY <1>0, <2>1, GotoCalls
    <3>2. CancelCall("grab", l) = Asked(w)
      BY <2>1, CallValue
    <3> QED BY <3>1, <3>2
  <2>3. timer' = timer
    BY <1>1, <1>6
  <2>4. SameArmed(Works) /\ SameExec
    BY <1>1, <2>3, SameWorkers DEF SameArmed, IsArmed, Listed
  <2>5. CASE from = "idle"
    BY <1>4, <2>2, <2>4, <2>5, AbstractAsk DEF AbstractCall
  <2>6. CASE from = "again"
    <3>1. SameCalls(Tasks)
      BY <1>4, <2>2, <2>6 DEF SameCalls
    <3> QED BY <1>1, <2>3, <3>1, QuietStutters
  <2> QED BY <2>5, <2>6
<1> QED BY <1>5, <1>6

LEMMA GrabRefines ==
  ASSUME IInv, NEW t \in Tasks, NEW w \in Works, Grab(t, w)
  PROVE  AbstractCall(t, w) \/ UNCHANGED Abstract!vars
<1>0. TypeOK /\ Nothing \in LocSet
  <2>1. NCpus \in Nat
    BY WorkQueueAssumption
  <2> QED BY <2>1 DEF IInv, Nothing, LocSet, NULL
<1>1. UNCHANGED <<worklist, current_work, worker, timer, queueing>>
  BY DEF Grab, lists
<1>2. PICK from \in {"idle", "again", "grab"}, to \in {"waitRead", "grabRead"} :
        Cancel(t, w, TRUE, from, to, 0) \/ Cancel(t, w, FALSE, from, to, 0)
  BY GrabForms
<1>7. pc[t] = "grab" => loc[t].work = w
  BY DEF Grab
<1>3. PICK l \in LocSet : l.work = w /\ l.ret = 0 /\ Goto(t, from, to, l)
  BY <1>0, <1>2, CancelGoto
<1>4. SameCalls(Tasks \ {t}) /\ CallOf(t) = CancelCall(from, loc[t]) /\ CallOf(t)' = Asked(w)
  <2>1. /\ SameCalls(Tasks \ {t})
        /\ CallOf(t) = CancelCall(from, loc[t]) /\ CallOf(t)' = CancelCall(to, l)
    BY <1>0, <1>3, GotoCalls
  <2>2. CancelCall(to, l) = Asked(w)
    BY <1>3, CallValue
  <2> QED BY <2>1, <2>2
<1>5. CASE from = "idle"
  <2>1. CallOf(t) = Abstract!NoCall
    BY <1>4, <1>5, CallValue DEF CancelPlaces
  <2>2. SameArmed(Works) /\ SameExec
    BY <1>1, SameWorkers DEF SameArmed, IsArmed, Listed
  <2> QED BY <1>4, <2>1, <2>2, AbstractAsk DEF AbstractCall
<1>6. CASE from \in {"again", "grab"}
  <2>1. loc[t].work = w
    BY <1>2, <1>6, <1>7 DEF Cancel, Goto
  <2>2. CallOf(t) = Asked(w)
    BY <1>4, <1>6, <2>1, CallValue
  <2>3. SameCalls(Tasks)
    BY <1>4, <2>2 DEF SameCalls
  <2> QED BY <1>1, <2>3, QuietStutters
<1> QED BY <1>5, <1>6

LEMMA CancelDelayedWorkRefines ==
  ASSUME IInv, NEW t \in Tasks, NEW w \in Works, CancelDelayedWork(t, w)
  PROVE  AbstractCall(t, w)
<1>0. TypeOK
  BY DEF IInv
<1>1. PICK l : l = [Nothing EXCEPT !.work = w]
  OBVIOUS
<1>2. l.work = w
  BY <1>1 DEF Nothing
<1>3. /\ w \in timer /\ timer' = timer \ {w} /\ Goto(t, "idle", "clearPending", l)
      /\ UNCHANGED <<worklist, current_work, worker, queueing>>
  BY <1>1 DEF CancelDelayedWork, lists
<1>4. SameCalls(Tasks \ {t}) /\ CallOf(t) = Abstract!NoCall /\ CallOf(t)' = TookTimer(w)
  <2>0. PICK from, to : from = "idle" /\ to = "clearPending"
    OBVIOUS
  <2>1. /\ SameCalls(Tasks \ {t})
        /\ CallOf(t) = CancelCall(from, loc[t]) /\ CallOf(t)' = CancelCall(to, l)
    <3>1. Goto(t, from, to, l)
      BY <1>3, <2>0
    <3> QED BY <1>0, <3>1, GotoCalls
  <2>2. /\ CancelCall(from, loc[t]) = Abstract!NoCall
        /\ CancelCall(to, l) = TookTimer(w)
    BY <1>2, <2>0, CallValue DEF CancelPlaces
  <2> QED BY <2>1, <2>2
<1> QED BY <1>3, <1>4, TimerTaken, AbstractCancel DEF AbstractCall

LEMMA GrabLockRefines ==
  ASSUME IInv, NEW t \in Tasks, GrabLock(t)
  PROVE  Abstract!Take(t) \/ UNCHANGED Abstract!vars
<1>0. TypeOK
  BY DEF IInv
<1>1. PICK w, c : w = loc[t].work /\ c = loc[t].cwq
  OBVIOUS
<1>2. UNCHANGED <<current_work, worker, timer, queueing>>
  BY DEF GrabLock, data
<1>3. w \in Works /\ c \in Cpus
  BY <1>1 DEF IInv, Self, Locals, GrabLock
<1>4. CASE /\ Goto(t, "grabLock", "waitRead", [loc[t] EXCEPT !.ret = -1])
           /\ UNCHANGED worklist
  <2>1. PICK l : l = [loc[t] EXCEPT !.ret = -1]
    OBVIOUS
  <2>2. l.work = loc[t].work /\ l.ret # 1
    BY <1>0, <2>1, LocType DEF LocSet
  <2>3. Goto(t, "grabLock", "waitRead", l)
    BY <1>4, <2>1
  <2>4. SameCalls(Tasks)
    <3>1. CancelCall("grabLock", loc[t]) = CancelCall("waitRead", l) => SameCalls(Tasks)
      BY <1>0, <2>3, GotoCalls
    <3>2. CancelCall("grabLock", loc[t]) = CancelCall("waitRead", l)
      BY <2>2, CallValue
    <3> QED BY <3>1, <3>2
  <2> QED BY <1>2, <1>4, <2>4, QuietStutters
<1>5. CASE /\ Goto(t, "grabLock", "waitRead", [loc[t] EXCEPT !.ret = 1])
           /\ \E i \in Positions(worklist[c]) :
                worklist[c][i] = w /\ worklist' = [worklist EXCEPT ![c] = Without(@, i)]
  <2>1. PICK i \in Positions(worklist[c]) :
          worklist[c][i] = w /\ worklist' = [worklist EXCEPT ![c] = Without(@, i)]
    BY <1>5
  <2>2. worklist \in [Cpus -> Seq(Works \cup Tasks)] /\ Distinct(worklist[c])
    BY <1>3 DEF IInv, TypeOK
  <2>3. \A x : In(x, Without(worklist[c], i)) <=> In(x, worklist[c]) /\ x # w
    <3>1. worklist[c] \in Seq(Works \cup Tasks)
      BY <1>3, <2>2
    <3> QED BY <2>1, <2>2, <3>1, DelQueue
  <2>4. \A d \in Cpus : worklist'[d] = IF d = c THEN Without(worklist[c], i) ELSE worklist[d]
    BY <1>3, <2>1, <2>2
  <2>5. In(w, worklist[c])
    BY <2>1 DEF In
  <2>6. /\ queueing[w] = Idle /\ w \notin timer
        /\ \A d \in Cpus : In(w, worklist[d]) => d = c
    BY <1>3, <2>5 DEF IInv, Owner, Listed
  <2>7. Listed(w) /\ ~Listed(w)' /\ \A v \in Works \ {w} : Listed(v)' <=> Listed(v)
    BY <1>3, <2>3, <2>4, <2>5, <2>6 DEF Listed
  <2>8. IsArmed(w) /\ ~IsArmed(w)' /\ SameArmed(Works \ {w})
    BY <1>2, <2>6, <2>7 DEF IsArmed, SameArmed
  <2>9. SameCalls(Tasks \ {t}) /\ CallOf(t) = Asked(w) /\ CallOf(t)' = Took(w)
    <3>1. PICK l : l = [loc[t] EXCEPT !.ret = 1]
      OBVIOUS
    <3>2. l.work = w /\ l.ret = 1
      BY <1>0, <1>1, <3>1, LocType DEF LocSet
    <3>3. Goto(t, "grabLock", "waitRead", l)
      BY <1>5, <3>1
    <3>4. /\ SameCalls(Tasks \ {t})
          /\ CallOf(t) = CancelCall("grabLock", loc[t]) /\ CallOf(t)' = CancelCall("waitRead", l)
      BY <1>0, <3>3, GotoCalls
    <3>5. CancelCall("grabLock", loc[t]) = Asked(w) /\ CancelCall("waitRead", l) = Took(w)
      BY <1>1, <3>2, CallValue
    <3> QED BY <3>4, <3>5
  <2> QED BY <1>2, <1>3, <2>8, <2>9, SameWorkers, AbstractTake
<1> QED BY <1>1, <1>4, <1>5 DEF GrabLock

LEMMA ReturnRefines ==
  ASSUME IInv, NEW t \in Tasks, ClearWqData(t) \/ WorkClearPending(t)
  PROVE  Abstract!Return(t)
<1>0. TypeOK
  BY DEF IInv
<1>1. PICK w : w = loc[t].work
  OBVIOUS
<1>2. UNCHANGED <<worklist, current_work, worker, timer, queueing>>
  BY DEF ClearWqData, WorkClearPending, lists
<1>3. PICK from \in {"clear", "clearPending"} : Goto(t, from, "idle", Nothing)
  BY DEF ClearWqData, WorkClearPending
<1>4. pc[t] = from
  BY <1>3 DEF Goto
<1>5. w \in Works /\ Cancelling(t, w) /\ (from = "clear" => \A c \in Cpus : ~Executes(c, w))
  BY <1>1, <1>4 DEF IInv, Self, Locals, CancelWait, Cancelling
<1>6. ~IsArmed(w)
  BY <1>5 DEF IInv, Owner, Cancelled, IsArmed
<1>7. from = "clear" => \A c \in Cpus : Exec(c) # w
  <2>1. w # NoWork
    BY <1>5, WorkQueueAssumption
  <2> QED BY <1>5, <2>1 DEF Exec, Running, Executes
<1>8. /\ SameCalls(Tasks \ {t}) /\ CallOf(t)' = Abstract!NoCall
      /\ from = "clear" => CallOf(t) \in {Took(w), Asked(w)}
      /\ from = "clearPending" => CallOf(t) = TookTimer(w)
  BY <1>0, <1>1, <1>3, GotoCalls, CallValue DEF CancelPlaces
<1>9. SameArmed(Works) /\ SameExec
  BY <1>2, SameWorkers DEF SameArmed, IsArmed, Listed
<1> QED BY <1>5, <1>6, <1>7, <1>8, <1>9, AbstractReturn

LEMMA OutsideRefines ==
  ASSUME IInv, NEW t \in Tasks,
         \/ FlushWorkqueue(t) \/ Flushed(t) \/ KthreadStop(t) \/ WorkerExited(t)
         \/ \E c \in Cpus : CpuDown(t, c)
         \/ \E w \in Works : FlushWork(t, w) \/ \E c \in Cpus : FlushDelayedWork(t, w, c)
  PROVE  UNCHANGED Abstract!vars
<1>0. TypeOK
  BY DEF IInv
<1>2. SameCalls(Tasks)
  <2>1. ASSUME NEW from, NEW to, NEW l, Goto(t, from, to, l),
               from \in {"idle", "flushWork", "flushed", "stop", "exit"},
               to \in {"flushCpu", "idle", "exit", "down", "flushed", "flushLock",
                       "flushDelayed", "flushWork"}
        PROVE  SameCalls(Tasks)
    <3>1. from \notin CancelPlaces /\ to \notin CancelPlaces
      BY <2>1 DEF CancelPlaces
    <3> QED BY <1>0, <2>1, <3>1, OutsideCalls
  <2>2. CASE \/ FlushWorkqueue(t) \/ Flushed(t) \/ KthreadStop(t) \/ WorkerExited(t)
             \/ \E c \in Cpus : CpuDown(t, c)
    BY <2>1, <2>2 DEF FlushWorkqueue, Flushed, KthreadStop, WorkerExited, CpuDown
  <2>3. ASSUME NEW w \in Works, FlushWork(t, w) PROVE SameCalls(Tasks)
    BY <2>1, <2>3 DEF FlushWork
  <2>4. ASSUME NEW w \in Works, NEW c \in Cpus, FlushDelayedWork(t, w, c)
        PROVE  SameCalls(Tasks)
    BY <2>1, <2>4 DEF FlushDelayedWork
  <2> QED BY <2>2, <2>3, <2>4
<1>3. CASE UNCHANGED <<worklist, current_work, worker, timer, queueing>>
  BY <1>2, <1>3, QuietStutters
<1>4. ASSUME NEW w \in Works, NEW c \in Cpus, FlushDelayedWork(t, w, c)
      PROVE  UNCHANGED Abstract!vars
  <2>1. UNCHANGED <<worklist, current_work, worker>>
    BY <1>4 DEF FlushDelayedWork, lists
  <2>2. CASE w \in timer
    <3>1. timer' = timer \ {w} /\ Stage(w, "insert", c)
      BY <1>4, <2>2 DEF FlushDelayedWork
    <3> QED BY <1>2, <2>1, <2>2, <3>1, TimerStutters
  <2>3. CASE w \notin timer
    <3>1. UNCHANGED <<timer, queueing>>
      BY <1>4, <2>3 DEF FlushDelayedWork
    <3> QED BY <1>3, <2>1, <3>1
  <2> QED BY <2>2, <2>3
<1> QED BY <1>3, <1>4 DEF FlushWorkqueue, Flushed, KthreadStop, WorkerExited, CpuDown, FlushWork,
                          lists, data

LEMMA ReadRefines ==
  ASSUME IInv, NEW t \in Tasks, GrabRead(t) \/ WaitRead(t)
  PROVE  UNCHANGED Abstract!vars
<1>0. TypeOK /\ loc[t] \in LocSet
  BY LocType DEF IInv
<1>1. UNCHANGED <<worklist, current_work, worker, timer, queueing>>
  BY DEF GrabRead, WaitRead, lists, data
<1>2. CASE GrabRead(t)
  <2>1. PICK to, l :
          /\ to \in {"waitRead", "grabLock"}
          /\ l \in {[loc[t] EXCEPT !.ret = -1], [loc[t] EXCEPT !.cwq = cwq[loc[t].work]]}
          /\ to = "waitRead" => l = [loc[t] EXCEPT !.ret = -1]
          /\ Goto(t, "grabRead", to, l)
    BY <1>2 DEF GrabRead
  <2>2. l.work = loc[t].work /\ (to = "waitRead" => l.ret # 1)
    BY <1>0, <2>1 DEF LocSet
  <2>3. SameCalls(Tasks)
    <3>1. CancelCall("grabRead", loc[t]) = CancelCall(to, l) => SameCalls(Tasks)
      BY <1>0, <2>1, GotoCalls
    <3>2. CancelCall("grabRead", loc[t]) = CancelCall(to, l)
      BY <2>1, <2>2, CallValue
    <3> QED BY <3>1, <3>2
  <2> QED BY <1>1, <2>3, QuietStutters
<1>3. CASE WaitRead(t)
  <2>1. PICK to, l :
          /\ l \in {[loc[t] EXCEPT !.cwq = NULL], [loc[t] EXCEPT !.cwq = NULL, !.cpu = 1]}
          /\ to = "waitOn" \/ to = AfterWait(loc[t])
          /\ Goto(t, "waitRead", to, l)
    BY <1>3 DEF WaitRead
  <2>2. l.work = loc[t].work /\ l.ret = loc[t].ret
    BY <1>0, <2>1 DEF LocSet
  <2>3. /\ pc[t] = "waitRead" /\ pc'[t] = to /\ loc'[t] = l
        /\ \A u \in Tasks \ {t} : pc'[u] = pc[u] /\ loc'[u] = loc[u]
    BY <1>0, <2>1 DEF Goto, TypeOK
  <2>4. SameCalls(Tasks)
    BY <1>0, <2>1, <2>2, <2>3, WaitingCalls DEF Waiting
  <2> QED BY <1>1, <2>4, QuietStutters
<1> QED BY <1>2, <1>3

LEMMA TaskRefines ==
  ASSUME IInv, NEW t \in Tasks, Call(t) \/ TaskStep(t)
  PROVE  \/ \E w \in Works : AbstractCall(t, w)
         \/ Abstract!Take(t) \/ Abstract!Return(t) \/ UNCHANGED Abstract!vars
<1>1. ASSUME NEW w \in Works, DelTimer(t, w) \/ CancelDelayedWork(t, w) \/ Grab(t, w)
      PROVE  AbstractCall(t, w) \/ Abstract!Take(t) \/ UNCHANGED Abstract!vars
  BY <1>1, DelTimerRefines, CancelDelayedWorkRefines, GrabRefines
<1>2. CASE \/ FlushWorkqueue(t) \/ Flushed(t) \/ KthreadStop(t) \/ WorkerExited(t)
           \/ \E c \in Cpus : CpuDown(t, c)
           \/ \E w \in Works : FlushWork(t, w) \/ \E c \in Cpus : FlushDelayedWork(t, w, c)
  BY <1>2, OutsideRefines
<1>3. CASE BarrierWait(t)
  <2>1. UNCHANGED <<worklist, current_work, worker, timer, queueing>>
    BY <1>3 DEF BarrierWait, lists, data
  <2> QED BY <1>3, <2>1, BarrierWaitCalls, QuietStutters
<1>4. CASE ClearWqData(t) \/ WorkClearPending(t)
  BY <1>4, ReturnRefines
<1>5. CASE FlushCpu(t) \/ WaitOn(t) \/ FlushLock(t) \/ CleanupFlush(t)
  BY <1>5, BarrierStepStutters
<1>6. CASE GrabLock(t) \/ GrabRead(t) \/ WaitRead(t)
  BY <1>6, GrabLockRefines, ReadRefines
<1>7. CASE Call(t)
  BY <1>1, <1>2, <1>7 DEF Call
<1>8. CASE TaskStep(t)
  BY <1>1, <1>2, <1>3, <1>4, <1>5, <1>6, <1>8 DEF TaskStep
<1> QED BY <1>7, <1>8

LEMMA StepRefines == IInv /\ [Next]_vars => [Abstract!Next]_Abstract!vars
<1> SUFFICES ASSUME IInv, [Next]_vars PROVE Abstract!Next \/ UNCHANGED Abstract!vars
  OBVIOUS
<1>1. ASSUME NEW w \in Works, NEW c \in Cpus, QueueWorkOn(w, c) \/ QueueDelayedWorkOn(w, c)
      PROVE  Abstract!Next
  <2>1. Abstract!Queue(w)
    BY <1>1, QueueRefines
  <2> QED BY <2>1 DEF Abstract!Next
<1>2. ASSUME NEW w \in Works, NEW c \in Cpus, DelayedWorkTimerFn(w, c)
      PROVE  UNCHANGED Abstract!vars
  <2>1. SameCalls(Tasks)
    BY <1>2, SameTasks DEF DelayedWorkTimerFn, task
  <2> QED BY <1>2, <2>1, TimerStutters DEF DelayedWorkTimerFn, lists
<1>3. ASSUME NEW w \in Works, Queueing(w) PROVE UNCHANGED Abstract!vars
  BY <1>3, QueueingStutters
<1>4. ASSUME NEW c \in Cpus, Worker(c) \/ CpuUp(c) \/ CpuOnline(c)
      PROVE  Abstract!Next \/ UNCHANGED Abstract!vars
  <2>1. \/ \E w \in Works : Abstract!Begin(w, c)
        \/ Abstract!End(c) \/ UNCHANGED Abstract!vars
    BY <1>4, WorkerRefines
  <2> QED BY <2>1 DEF Abstract!Next
<1>5. ASSUME NEW t \in Tasks, Call(t) \/ TaskStep(t)
      PROVE  Abstract!Next \/ UNCHANGED Abstract!vars
  <2>1. \/ \E w \in Works : AbstractCall(t, w)
        \/ Abstract!Take(t) \/ Abstract!Return(t) \/ UNCHANGED Abstract!vars
    BY <1>5, TaskRefines
  <2>2. ASSUME NEW w \in Works, AbstractCall(t, w) PROVE Abstract!Next
    <3>1. \E sync, got \in BOOLEAN : Abstract!Cancel(t, w, sync, got)
      BY <2>2 DEF AbstractCall
    <3> QED BY <3>1 DEF Abstract!Next
  <2> QED BY <2>1, <2>2 DEF Abstract!Next
<1>6. CASE UNCHANGED vars
  <2>1. UNCHANGED <<worklist, current_work, worker, timer, queueing>> /\ SameCalls(Tasks)
    BY <1>6, SameTasks DEF vars, lists, data, task
  <2> QED BY <2>1, QuietStutters
<1> QED BY <1>1, <1>2, <1>3, <1>4, <1>5, <1>6 DEF Next

(* A queueing of a work is neither lost nor doubled: run_workqueue() calls *)
(* the work's function once for it, unless a cancel takes the work, and    *)
(* that cancel reports it; flushes, timers that fire or are deleted by     *)
(* flush_delayed_work(), and CPUs that come and go take no work away.  No  *)
(* cancel takes a work twice, and a synchronous one returns when the work  *)
(* is neither queued nor executed.  (That every queued work is executed or *)
(* cancelled in the end is WorkServed, which TLC checks.)                  *)
THEOREM WorkQueueRefines == Spec => ImplementsWorkItem
<1>1. Init => Abstract!Init
  <2> SUFFICES ASSUME Init PROVE Abstract!Init
    OBVIOUS
  <2>1. \A c \in Cpus : ~Running(c)
    BY DEF Init, Running
  <2>2. \A w \in Works : queueing[w] = Idle /\ w \notin timer /\ ListEmpty(w)
    BY DEF Init, ListEmpty, In, Positions
  <2>3. \A t \in Tasks : pc[t] \notin CancelPlaces
    BY DEF Init, CancelPlaces
  <2>4. Cancels = [t \in Tasks |-> Abstract!NoCall]
    BY <2>3, CallValue DEF Cancels
  <2> QED BY <2>1, <2>2, <2>4 DEF Abstract!Init, Armed, Executing
<1> QED
  BY <1>1, InitIInv, IInvInductive, StepRefines, PTL
  DEF Spec, ImplementsWorkItem, Abstract!Spec

=============================================================================
