SPECIFICATION Spec
CONSTANTS
  repr = repr
  summ = summ
  i1 = i1
  i2 = i2
  c1 = c1
  c2 = c2
  c3 = c3
  NoClaim = NoClaim
  NoKey = NoKey
  Items = {1, 2}
  Keys = {summ}
  BatchKeys = {}
  AnnouncedKeys = {summ}
  KeyOf <- AllSumm
  Instances = {i1, i2}
  WorkerLimit = 1
  Slots = {1}
  ClaimIds = {c1, c2}
  MaxAttempts = 2
  Budget <- Takeovers
SYMMETRY Symmetric
INVARIANTS
  SoleHolder
  NoSilentDrop
  SettledInOrder
PROPERTIES
  FreshClaimIsKept
  ContractSafety
\* The items are finitely many: once all are settled nothing need happen.
CHECK_DEADLOCK FALSE
