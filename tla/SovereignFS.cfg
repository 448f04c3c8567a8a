SPECIFICATION Spec
CONSTANTS
  x = x
  y = y
  a = a
  long = long
  NoName = NoName
  Absent = Absent
  Zero = Zero
  Name = {a, b, long}
  Clip <- MCClip
  Contents <- MCContents
  Byte = {x, y}
  RawBlocks <- MCRawBlocks
  Blocks = 4
  Inodes = 4
  BlockSize = 2
  MaxDirect = 2
CONSTRAINT Unspoiled
INVARIANT TypeOK
INVARIANT NoSharing
INVARIANT EntriesLeadToFiles
PROPERTY ImplementsFileStore
