SPECIFICATION Spec
CONSTANTS
  Sockets = {s1, s2}
  Timer = Timer
  NoHandle = NoHandle
  MaxTransfers = 2
SYMMETRY MCSymmetry
INVARIANTS
  TypeOK
  WatchesWhatCurlWants
  TimeoutsAreKept
