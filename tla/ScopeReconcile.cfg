SPECIFICATION FairSpec
CONSTANTS
  c1 = c1
  c2 = c2
  w1 = w1
  w2 = w2
  r1 = r1
  r2 = r2
  r3 = r3
  k1 = k1
  k2 = k2
  None = None
  Messages = {1, 2}
  History = {1, 2}
  Callers = {c1, c2}
  Workers = {w1, w2}
  RowIds = {r1, r2, r3}
  CopyIds = {k1, k2}
  ChunkSize = 1
  Budget <- FaultyTwo
INVARIANTS
  TypeOK
  
  OneLiveCopy

  
\* Changes are bounded: once the last one is reconciled nothing need happen.
CHECK_DEADLOCK FALSE
