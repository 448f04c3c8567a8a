SPECIFICATION Spec
CONSTANTS
  Node = {1, 2}
  Req = {r1, r2}
  Kinds = {"propose", "drill", "resync"}
  NoNode = NoNode
  PollsPerElection = 1
  Threshold = 9
  MaxTerm = 1
  MaxFaults = 0
  Timely = TRUE
  AtomicElection = TRUE
SYMMETRY Symmetry
INVARIANT TypeOK
INVARIANT LogBacked
