SPECIFICATION FairSpec
CONSTANTS
  repr = repr
  summ = summ
  i1 = i1
  i2 = i2
  c1 = c1
  c2 = c2
  c3 = c3
  NoClaim = NoClaim
  NoKey = NoKey
  Items = {1, 2}
  Keys = {repr, summ}
  BatchKeys = {repr}
  AnnouncedKeys = {repr, summ}
  KeyOf <- OneEach
  Instances = {i1}
  WorkerLimit = 1
  Slots = {1, 2}
  ClaimIds = {c1, c2}
  MaxAttempts = 2
  Budget <- StallCrash
INVARIANTS
  WithinCapacity
PROPERTIES
  ClaimsAreReturned
  
\* The items are finitely many: once all are settled nothing need happen.
CHECK_DEADLOCK FALSE
