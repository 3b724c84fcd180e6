SPECIFICATION Spec
CONSTANTS
  NoHost = NoHost
  Ttls <- MCTtls
  Drain = Drain
  Tasks = {t1, t2}
  Hosts = {h1}
  MaxNow = 2
  kMaxTasksCnt = 2
INVARIANTS
  DoneTasksAreReportable
