\* Three tasks, one unit, and a second one that an up() from elsewhere may
\* bring: two waiters behind a holder, or one behind two, and grants that meet
\* timeouts and, for one of the tasks, signals.
CONSTANTS
  t1 = t1
  t2 = t2
  t3 = t3
  Tasks <- ThreeTasks
  Interruptible <- OneTask
  InitCount = 1
  MaxUnits = 2
SPECIFICATION FairSpec
INVARIANTS Conservation ListExact
PROPERTIES ImplementsCountingSem DownServed TimeoutReturns
