\* One work, two tasks, two CPUs.  The work is queued for ever, on either CPU,
\* directly or by a timer: the pending bit keeps the state finite.
CONSTANTS
  Tasks = {"t1", "t2"}
  Works = {"w"}
  NCpus = 2
  Roles <- MCRoles
SPECIFICATION FairSpec
INVARIANTS PendingOwned CancelSound FlushSound
PROPERTIES FlushReturns ImplementsWorkItem WorkServed
