SPECIFICATION Spec
CONSTANTS
  x = x
  y = y
  a = a
  long = long
  NoName = NoName
  Absent = Absent
  Zero = Zero
  Name = {a, b, long}
  Clip <- MCClip
  Contents <- MCContents
  Byte = {x, y}
  RawBlocks = {}
  Blocks = 5
  Inodes = 4
  BlockSize = 2
  MaxDirect = 2
INVARIANT BitmapFromDisk
