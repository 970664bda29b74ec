SPECIFICATION FairSpec
CONSTANTS
  p = p
  q = q
  s1 = s1
  s2 = s2
  s3 = s3
  m1 = m1
  m2 = m2
  m3 = m3
  m4 = m4
  c = c
  None = None
  Processes = {p, q}
  Tasks = {s1, s2, s3}
  Home <- TwoAndOne
  Timers = {m1, m2, m3, m4}
  Callers = {c}
  Threshold = 1
  MaxDocs = 2
  MaxDreams = 1
  Budget <- AnyTwo
INVARIANTS
  
  NamedIsLive

  
\* Saves and mishaps are bounded.
CHECK_DEADLOCK FALSE
