\* Three tasks: a holder, a waiter and one that steals the lock or leaves.  Two
\* of them lock interruptibly and killably too, and get signals.
CONSTANTS
  t1 = t1
  t2 = t2
  t3 = t3
  NULL = NULL
  Tasks <- ThreeTasks
  Interruptible <- TwoTasks
SPECIFICATION FairSpec
INVARIANTS MutualExclusion CountBounded NoLostWakeup
PROPERTIES Progress
