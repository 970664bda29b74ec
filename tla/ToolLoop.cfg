SPECIFICATION FairSpec
CONSTANTS
  primary = primary
  fallback = fallback
  None = None
  Primary = primary
  Fallback = fallback
  Openings <- Sizes
  Results <- ResultSizes
  Floor = 1
  MaxInput = 7
  MaxRounds = 3
  MaxForced = 2
  Attempts = 2
INVARIANTS
  RequestsFit
  PrefixKept
  AnswersAreEarned
PROPERTIES
  RequestsAreWhole
  Ends
