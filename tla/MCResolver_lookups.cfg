SPECIFICATION FairSpec
CONSTANTS
  Requests = {r1, r2, r3, r4}
  Hosts = {h1, h2}
  NoHost = NoHost
  Ttls <- MCTtls
  MaxNow = 3
INVARIANTS
  TypeOK
  OneQueryPerName
  CacheServesOnlySuccess
  NobodyForgotten
PROPERTIES
  RunsCallbacksOnce
  AnswersEveryRequest
