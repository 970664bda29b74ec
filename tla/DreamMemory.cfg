SPECIFICATION FairSpec
CONSTANTS
  t1 = t1
  t2 = t2
  None = None
  Runners = {t1, t2}
  MaxDocs = 2
  Page = 1
  MaxHolds = 2
  Threshold = 1
  Lifetime = 2
  NoteCap = 1
  DreamCap = 2
  Budget <- AnyOne
INVARIANTS
  PassedWasWorked
  NotesOfThisEpoch
PROPERTIES
  ListDrains
\* Once the list is worked off and nothing is saved, the pair is at rest.
CHECK_DEADLOCK FALSE
