SPECIFICATION FairSpec
CONSTANTS
  Node = {1, 2}
  Req = {}
  Kinds = {}
  NoNode = NoNode
  PollsPerElection = 1
  Threshold = 9
  MaxTerm = 0
  MaxFaults = 2
  Timely = TRUE
  AtomicElection = FALSE
INVARIANT LeaseExclusive
PROPERTY LeaderRestored
PROPERTY DeposedLearns
