SPECIFICATION Spec
CONSTANTS
  Node = {1}
  Req = {r1, r2, r3, r4}
  Kinds = {"propose", "shutdown"}
  NoNode = NoNode
  PollsPerElection = 1
  Threshold = 3
  MaxTerm = 0
  MaxFaults = 1
  Timely = TRUE
  AtomicElection = TRUE
SYMMETRY Symmetry
CONSTRAINT OneSnapshot NoLapse
INVARIANT EntrySurvives
PROPERTY ImplementsDecisionLog
