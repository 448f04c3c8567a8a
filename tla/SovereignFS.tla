----------------------------- MODULE SovereignFS -----------------------------
(***************************************************************************)
(* SovereignFS, backend/kernel/bare_metal/src/vfs.rs: inodes with direct   *)
(* block pointers, one root directory and two bitmaps kept in memory.      *)
(*                                                                         *)
(* A caller runs one operation at a time.  Every sector written is a step, *)
(* and the power may fail between two of them: the disk keeps what was     *)
(* written, the bitmaps and the operation are gone.  A boot may call init  *)
(* or not, and whatever it does the other operations can be called: they   *)
(* check neither the superblock nor where their bitmaps come from.  The    *)
(* rest of the kernel writes some sectors of the data area by number.      *)
(*                                                                         *)
(* A cell of a data block is a byte of a file or one directory entry.      *)
(* Bytes of a file never read as an entry or as a free slot (they could    *)
(* only where a file's block is in the directory too).  Inodes are as many *)
(* as the inode table has room for.  Journal commits change nothing that   *)
(* is read back, and free_block has no caller.                             *)
(***************************************************************************)
EXTENDS Naturals, Sequences

CONSTANTS
  Name, Contents, Absent,
  Byte,         \* values of a byte of a file
  Clip,         \* what the directory keeps of a name: its first 24 bytes
  NoName,       \* no operation, no name
  RawBlocks,    \* the blocks that the kernel writes by sector number
  Zero,         \* a cell that has never been written
  Blocks,       \* MAX_DATA_BLOCKS
  Inodes,       \* MAX_INODES
  BlockSize,    \* cells per block
  MaxDirect     \* MAX_DIRECT_BLOCKS

ASSUME SizesArePositive ==
  /\ Blocks \in Nat \ {0} /\ Inodes \in Nat \ {0}
  /\ BlockSize \in Nat \ {0} /\ MaxDirect \in Nat \ {0}
ASSUME ContentsAreBytes == Contents \subseteq Seq(Byte)
ASSUME NamesAreNames == NoName \notin Name
ASSUME ClippingKeepsNames ==
  Clip \in [Name -> Name] /\ \A n \in Name : Clip[Clip[n]] = Clip[n]
Block == 0 .. Blocks - 1
Ino == 0 .. Inodes - 1
Ptr == 1 .. MaxDirect
ASSUME RawBlocksAreBlocks == RawBlocks \subseteq Block

Entry == [name : Name, ino : Ino]
Cell == Byte \cup Entry \cup {Zero}

ASSUME ValuesDiffer ==
  /\ Zero \notin Byte \cup Entry /\ Byte \cap Entry = {}
  /\ Absent \notin Seq(Cell)

InodeRec == [magic : BOOLEAN, size : Nat, count : 0 .. MaxDirect, blocks : [Ptr -> Block]]
NewInode(size, count) ==
  [magic |-> TRUE, size |-> size, count |-> count, blocks |-> [k \in Ptr |-> 0]]
BlankInode == [NewInode(0, 0) EXCEPT !.magic = FALSE]
BlankBlock == [s \in 1 .. BlockSize |-> Zero]

VARIABLES
  \* on the disk
  super,        \* the superblock has its magic number
  inode,        \* the inode table
  data,         \* the data blocks
  \* in memory
  pc,           \* the next step of the operation
  bmap, imap,   \* BLOCK_BITMAP, INODE_BITMAP: what is marked as used
  name, content, ino,   \* the operation's arguments and inode number
  node,         \* the inode it is building
  at,           \* how many blocks or cells of the content are written
  \* history, read by no step
  fresh,        \* this boot has formatted the disk
  spoiled       \* a boot that had not has allocated something, or a block in
                \* use was written by number

disk == <<super, inode, data>>
bitmaps == <<bmap, imap>>
args == <<name, content, ino>>
opVars == <<args, node, at>>
history == <<fresh, spoiled>>
vars == <<disk, pc, bitmaps, opVars, history>>

Init ==
  /\ super = FALSE
  /\ inode = [i \in Ino |-> BlankInode]
  /\ data = [b \in Block |-> BlankBlock]
  /\ pc = "off"
  /\ bmap = {} /\ imap = {}
  /\ name = NoName /\ content = <<>> /\ ino = 0
  /\ node = BlankInode
  /\ at = 0
  /\ fresh = FALSE /\ spoiled = FALSE

-----------------------------------------------------------------------------
(* Reading *)

\* The blocks that hold size cells.
BlocksFor(size) == (size + BlockSize - 1) \div BlockSize

\* The cell at offset k, from 0, of what an inode points to.
CellAt(i, k) == data[i.blocks[(k \div BlockSize) + 1]][(k % BlockSize) + 1]

Offsets(i) == 0 .. (i.count * BlockSize) - 1
First(S) == CHOOSE k \in S : \A m \in S : k <= m

\* An entry with inode number 0 is no entry.
Matches(n) == {k \in Offsets(inode[0]) : CellAt(inode[0], k) \in [name : {n}, ino : Ino \ {0}]}
Exists(n) == Matches(n) # {}
Lookup(n) == CellAt(inode[0], First(Matches(n))).ino

\* read_inode_data
ReadInode(i) ==
  IF ~inode[i].magic THEN <<>>
  ELSE [k \in 1 .. inode[i].size |-> CellAt(inode[i], k - 1)]

\* What the root directory leads to.
EntriesAt(b) == {data[b][s] : s \in 1 .. BlockSize} \cap Entry
RootBlocks == {inode[0].blocks[k] : k \in 1 .. inode[0].count}
Linked == {e.ino : e \in UNION {EntriesAt(b) : b \in RootBlocks}}
Pointers(i) == {<<i, k>> : k \in 1 .. inode[i].count}
InUse == UNION {Pointers(i) : i \in Linked \cup {0}}
BlocksInUse == {inode[p[1]].blocks[p[2]] : p \in InUse}

-----------------------------------------------------------------------------
(* Booting *)

\* Both bitmaps are static arrays of zeros.
Boot ==
  /\ pc = "off"
  /\ pc' = "idle"
  /\ UNCHANGED <<disk, bitmaps, opVars, history>>

\* init on a disk without a superblock; with one it only prints.
Format ==
  /\ pc = "idle" /\ ~super
  /\ super' = TRUE
  /\ pc' = "format"
  /\ UNCHANGED <<inode, data, bitmaps, opVars, history>>

FormatRoot ==
  /\ pc = "format"
  /\ imap' = imap \cup {0}
  /\ inode' = [inode EXCEPT ![0] = NewInode(0, 0)]
  /\ fresh' = TRUE
  /\ pc' = "idle"
  /\ UNCHANGED <<super, data, bmap, opVars, spoiled>>

\* The kernel writes a sector of the data area that it takes for its own.
Overwrite(b) ==
  /\ pc = "idle"
  /\ \E w \in Byte : data' = [data EXCEPT ![b] = [s \in 1 .. BlockSize |-> w]]
  /\ spoiled' = (spoiled \/ b \in BlocksInUse)
  /\ UNCHANGED <<super, inode, pc, bitmaps, opVars, fresh>>

-----------------------------------------------------------------------------
(* create_file *)

\* The operation is over and its locals are gone.
Forget ==
  /\ name' = NoName /\ content' = <<>> /\ ino' = 0
  /\ node' = BlankInode
  /\ at' = 0

Return == pc' = "idle" /\ Forget

FreeInodes == Ino \ imap
FreeBlocks == Block \ bmap

\* What is marked as used on a boot that did not format may be in use.
Allocated == spoiled' = (spoiled \/ ~fresh)

\* The inode number stays marked when the content is too long.  The name is
\* used for the entry alone.
Create(n, c) ==
  /\ pc = "idle"
  /\ FreeInodes # {}
  /\ imap' = imap \cup {First(FreeInodes)}
  /\ Allocated
  /\ IF BlocksFor(Len(c)) > MaxDirect
     THEN Return
     ELSE /\ pc' = "block"
          /\ name' = Clip[n] /\ content' = c /\ ino' = First(FreeInodes)
          /\ node' = NewInode(Len(c), BlocksFor(Len(c)))
          /\ at' = 0
  /\ UNCHANGED <<disk, fresh, bmap>>

\* Mutant of AllocBlock: the block is not marked.
AllocUnmarked == UNCHANGED bmap /\ Allocated

\* alloc_block marks the first free block.
AllocBlock == bmap' = bmap \cup {First(FreeBlocks)} /\ Allocated

\* One block of the content, padded with zeros.
Piece ==
  [s \in 1 .. BlockSize |->
     IF at * BlockSize + s <= Len(content) THEN content[at * BlockSize + s] ELSE Zero]

CreateBlock ==
  /\ pc = "block" /\ at < node.count
  /\ IF FreeBlocks = {}
     THEN Return /\ UNCHANGED <<data, bmap, spoiled>>
     ELSE /\ AllocBlock
          /\ node' = [node EXCEPT !.blocks[at + 1] = First(FreeBlocks)]
          /\ data' = [data EXCEPT ![First(FreeBlocks)] = Piece]
          /\ at' = at + 1
          /\ UNCHANGED <<pc, args>>
  /\ UNCHANGED <<super, inode, fresh, imap>>

\* Mutant of CreateInode: the entry is made before the inode is there.
CreateInodeLate ==
  /\ pc = "block" /\ at = node.count
  /\ pc' = "link"
  /\ UNCHANGED <<disk, bitmaps, opVars, history>>

CreateInode ==
  /\ pc = "block" /\ at = node.count
  /\ inode' = [inode EXCEPT ![ino] = node]
  /\ pc' = "link"
  /\ UNCHANGED <<super, data, bitmaps, opVars, history>>

-----------------------------------------------------------------------------
(* add_dir_entry: the sector with the entry, then the root's inode *)

NewEntry == [name |-> name, ino |-> ino]
FreeSlots ==
  {k \in Offsets(inode[0]) : CellAt(inode[0], k) \in {Zero} \cup [name : Name, ino : {0}]}

LinkInSlot ==
  LET k == First(FreeSlots) IN
  /\ pc = "link" /\ FreeSlots # {}
  /\ data' = [data EXCEPT
       ![inode[0].blocks[(k \div BlockSize) + 1]][(k % BlockSize) + 1] = NewEntry]
  /\ node' = [inode[0] EXCEPT !.size = @ + 1]
  /\ pc' = "root"
  /\ UNCHANGED <<super, inode, bitmaps, args, at, history>>

LinkInBlock ==
  LET b == First(FreeBlocks) IN
  /\ pc = "link" /\ FreeSlots = {}
  /\ inode[0].count < MaxDirect /\ FreeBlocks # {}
  /\ AllocBlock
  /\ data' = [data EXCEPT ![b] = [BlankBlock EXCEPT ![1] = NewEntry]]
  /\ node' = [inode[0] EXCEPT !.blocks[inode[0].count + 1] = b,
                              !.count = @ + 1, !.size = @ + 1]
  /\ pc' = "root"
  /\ UNCHANGED <<super, inode, fresh, imap, args, at>>

\* No room: create_file still answers with the inode number.
LinkNowhere ==
  /\ pc = "link" /\ FreeSlots = {}
  /\ inode[0].count = MaxDirect \/ FreeBlocks = {}
  /\ Return
  /\ UNCHANGED <<disk, bitmaps, history>>

LinkRoot ==
  /\ pc = "root"
  /\ inode' = [inode EXCEPT ![0] = node]
  /\ Return
  /\ UNCHANGED <<super, data, bitmaps, history>>

-----------------------------------------------------------------------------
(* append_to_file *)

\* Mutant of AppendTo: the limit is compared with the new content alone.
AppendToLong(n, c) ==
  /\ pc = "idle"
  /\ Exists(n)
  /\ BlocksFor(Len(c)) <= MaxDirect
  /\ name' = n /\ content' = c /\ ino' = Lookup(n)
  /\ node' = inode[Lookup(n)]
  /\ at' = BlocksFor(inode[Lookup(n)].size)
  /\ pc' = "grow"
  /\ UNCHANGED <<disk, bitmaps, history>>

AppendTo(n, c) ==
  /\ pc = "idle"
  /\ Exists(n)
  /\ BlocksFor(inode[Lookup(n)].size + Len(c)) <= MaxDirect
  /\ name' = n /\ content' = c /\ ino' = Lookup(n)
  /\ node' = inode[Lookup(n)]
  /\ at' = BlocksFor(inode[Lookup(n)].size)
  /\ pc' = "grow"
  /\ UNCHANGED <<disk, bitmaps, history>>

NewSize == node.size + Len(content)

\* The new blocks are marked before anything is written; when there are not
\* enough, those marked so far stay marked.
Grow ==
  /\ pc = "grow" /\ at < BlocksFor(NewSize)
  /\ IF FreeBlocks = {}
     THEN Return /\ UNCHANGED <<bmap, spoiled>>
     ELSE /\ AllocBlock
          /\ node' = [node EXCEPT !.blocks[at + 1] = First(FreeBlocks), !.count = @ + 1]
          /\ at' = at + 1
          /\ UNCHANGED <<pc, args>>
  /\ UNCHANGED <<disk, fresh, imap>>

\* Mutant of Grown: the new size is written before the content.
GrownFirst ==
  /\ pc = "grow" /\ at = BlocksFor(NewSize)
  /\ inode' = [inode EXCEPT ![ino] = [node EXCEPT !.size = NewSize]]
  /\ at' = 0
  /\ pc' = "fill"
  /\ UNCHANGED <<super, data, bitmaps, args, node, history>>

Grown ==
  /\ pc = "grow" /\ at = BlocksFor(NewSize)
  /\ at' = 0
  /\ pc' = "fill"
  /\ UNCHANGED <<disk, bitmaps, args, node, history>>

\* Each byte is written by reading its sector and writing it back.
Fill ==
  LET k == node.size + at IN
  /\ pc = "fill" /\ at < Len(content)
  /\ data' = [data EXCEPT
       ![node.blocks[(k \div BlockSize) + 1]][(k % BlockSize) + 1] = content[at + 1]]
  /\ at' = at + 1
  /\ UNCHANGED <<super, inode, pc, bitmaps, args, node, history>>

AppendInode ==
  /\ pc = "fill" /\ at = Len(content)
  /\ inode' = [inode EXCEPT ![ino] = [node EXCEPT !.size = NewSize]]
  /\ Return
  /\ UNCHANGED <<super, data, bitmaps, history>>

-----------------------------------------------------------------------------

PowerFails ==
  /\ pc # "off"
  /\ pc' = "off"
  /\ fresh' = FALSE
  /\ bmap' = {} /\ imap' = {}
  /\ Forget
  /\ UNCHANGED <<disk, spoiled>>

Write ==
  \/ CreateBlock \/ CreateInode
  \/ LinkInSlot \/ LinkInBlock \/ LinkNowhere \/ LinkRoot
  \/ Grow \/ Grown \/ Fill \/ AppendInode

Next ==
  \/ Boot \/ Format \/ FormatRoot
  \/ \E b \in RawBlocks : Overwrite(b)
  \/ \E n \in Name, c \in Contents : Create(n, c) \/ AppendTo(n, c)
  \/ Write
  \/ PowerFails

Spec == Init /\ [][Next]_vars

-----------------------------------------------------------------------------
(***************************************************************************)
(* Properties.                                                             *)
(***************************************************************************)

\* The disk, the bitmaps and the operation have the expected shape, whatever
\* has been spoiled: no operation points an inode beyond its direct blocks.
TypeOK ==
  /\ super \in BOOLEAN /\ fresh \in BOOLEAN /\ spoiled \in BOOLEAN
  /\ inode \in [Ino -> InodeRec]
  /\ data \in [Block -> [1 .. BlockSize -> Cell]]
  /\ pc \in {"off", "idle", "format", "block", "link", "root", "grow", "fill"}
  /\ bmap \subseteq Block /\ imap \subseteq Ino
  /\ name \in Name \cup {NoName}
  /\ content \in Contents \cup {<<>>}
  /\ ino \in Ino
  /\ node \in InodeRec
  /\ at \in Nat

\* No block belongs to two places of the files and the directory.
Unshared ==
  \A p, q \in InUse : inode[p[1]].blocks[p[2]] = inode[q[1]].blocks[q[2]] => p = q

\* While only the boot that formatted the disk allocates and no sector of a
\* file is written by number, no block is in two places, whatever was allocated
\* for operations that failed or that a power failure cut off.
NoSharing == ~spoiled => Unshared

\* In the same bounds two entries never lead to the same inode, and every entry
\* leads to an inode that has been written, whose pointers cover its size.
EntriesLeadToFiles ==
  ~spoiled =>
    /\ \A k, m \in Offsets(inode[0]) :
         /\ CellAt(inode[0], k) \in Entry /\ CellAt(inode[0], m) \in Entry
         /\ CellAt(inode[0], k).ino = CellAt(inode[0], m).ino
         => k = m
    /\ \A i \in Linked : inode[i].magic /\ inode[i].count = BlocksFor(inode[i].size)

\* The files as a caller reads them, by the names the directory can hold: a
\* create or an append takes effect in one of its sector writes, a power
\* failure never, until the disk is spoiled.
Kept == {n \in Name : Clip[n] = n}

Store == INSTANCE FileStore WITH
  Name <- Kept,
  files <- [n \in Kept |-> IF Exists(n) THEN ReadInode(Lookup(n)) ELSE Absent],
  lost <- spoiled

ImplementsFileStore == Store!Spec

-----------------------------------------------------------------------------
(* What the repository says of this code, and the code does not do.        *)

\* vfs.rs:134, "In-memory bitmap (lazily populated from disk)": before a block
\* is allocated again, the blocks of the files are marked as used.
BitmapFromDisk == super /\ pc = "idle" /\ ~spoiled => BlocksInUse \subseteq bmap

=============================================================================
