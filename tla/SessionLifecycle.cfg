SPECIFICATION FairSpec
CONSTANTS
  r1 = r1
  r2 = r2
  r3 = r3
  None = None
  Worker = Worker
  Requests = {r1, r2, r3}
  Mixes <- AnyThree
  MaxMishaps = 1
INVARIANTS
  OneWinner
  PostsInOrder
  DeletionHides
PROPERTIES
  DeletedGoes
\* Every request ends.
CHECK_DEADLOCK FALSE
