SPECIFICATION FairSpec
CONSTANTS
  NoHost = NoHost
  Ttls <- MCTtls
  Drain = Drain
  Tasks = {t1, t2, t3}
  Hosts = {h1, h2}
  MaxNow = 2
  kMaxTasksCnt = 2
INVARIANTS
  TypeOK
  BusyTasksAreInCurl
  OnePlace
  RefusedNeverStarted
PROPERTIES
  KeepsPromise
  PollsAreAnswered
  AcceptedTasksAreReported
