\* Three tasks: a holder and two waiters of either kind.
CONSTANTS
  t1 = t1
  t2 = t2
  t3 = t3
  Tasks <- ThreeTasks
SPECIFICATION FairSpec
INVARIANTS WriterAtHead NoLostWakeup
PROPERTIES NoOvertaking ImplementsRwLock LockServed
