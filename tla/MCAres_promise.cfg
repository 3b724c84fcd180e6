SPECIFICATION FairSpec
CONSTANTS
  name1 = name1
  name2 = name2
  address = address
  Requests = {r1, r2, r3}
  Hosts <- MCHosts
  Literals <- MCLiterals
  NoHost = NoHost
CHECK_DEADLOCK FALSE
INVARIANTS
  AresTypeOK
  NobodyForgotten
PROPERTIES
  RunsCallbacksOnce
  AnswersUnlessStuck
  DestructionEnds
