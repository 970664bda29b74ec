SPECIFICATION Spec
CONSTANTS
  f = f
  g = g
  w1 = w1
  w2 = w2
  x = x
  y = y
  None = None
  Writers = {w1, w2}
  Manual = {x, y}
  Facts = {f, g}
  Near <- BothWays
  Richer <- GOverF
  Batches <- UpToTwo
SYMMETRY Alike
INVARIANTS
  OnePerKey
  DerivationsCount

  
\* Every call ends.
CHECK_DEADLOCK FALSE
