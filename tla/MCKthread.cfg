CONSTANTS
  Creators = {"c1", "c2"}
  Kthreadd = "kthreadd"
SPECIFICATION FairSpec
INVARIANTS CreateInfoAlive NoLostRequest BindAllowed StopSound
PROPERTIES CreateReturns StopReturns
