SPECIFICATION HistorySpec
CONSTANTS
  Node = {1, 2}
  Req = {r1, r2}
  Kinds = {"propose"}
  NoNode = NoNode
  PollsPerElection = 1
  Threshold = 3
  MaxTerm = 0
  MaxFaults = 0
  Timely = TRUE
  AtomicElection = TRUE
SYMMETRY Symmetry
INVARIANT CommittedByMajority
