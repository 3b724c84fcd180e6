SPECIFICATION FairSpec
CONSTANTS
  Fetches = {f1, f2}
  Results = {p1, p2}
CHECK_DEADLOCK FALSE
INVARIANTS
  NoUseAfterDestruction
PROPERTIES
  ResultsAreAnswered
  ServerEnds
