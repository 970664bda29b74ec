SPECIFICATION FairSpec
CONSTANTS
  m1 = m1
  d1 = d1
  c1 = c1
  c2 = c2
  t1 = t1
  None = None
  Messages = {m1}
  Documents = {d1}
  Tasks = {t1}
  Cycles = {c1, c2}
  Modes <- PgOrDual
  MaxAttempts = 2
  BatchSize = 1
  MaxPending = 1
  Mishaps <- AnyMishap
  Budget = 1
INVARIANTS
  SyncedIsStored
  LeaseExcludes
  SweptIsClean
PROPERTIES
  Settles
  Swept
