CONSTANTS
  t1 = t1  t2 = t2
  Tasks <- Two
SPECIFICATION FairSpec
INVARIANTS NoStaleCompletion
PROPERTIES LogDrained NamelessHeals
