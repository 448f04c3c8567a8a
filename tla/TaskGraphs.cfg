SPECIFICATION Spec
CONSTANTS
  Node = {a, b, c, d}
  Batch = Batch
  Limits = {1, 2, 3}
  MaxChecks = 2
SYMMETRY Symmetry
CHECK_DEADLOCK FALSE
INVARIANT TypeOK
INVARIANT RejectsExactly
INVARIANT DepthIsLongest
INVARIANT FlattenFits
INVARIANT WaveOrder
INVARIANT WavesComplete
PROPERTY LoopsEnd
