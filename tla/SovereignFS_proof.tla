-------------------------- MODULE SovereignFS_proof --------------------------
(***************************************************************************)
(* For a disk of any size.  Always: every state is well typed (TypeInv).   *)
(* While nothing has spoiled the disk: no block of a file or of the        *)
(* directory is given away again, and every entry leads to an inode of its *)
(* own that is completely written, through failed operations and power     *)
(* failures (OpInv).                                                       *)
(*                                                                         *)
(* Sound says it of the disk; Marked, that the bitmaps cover it, which     *)
(* only the boot that formatted the disk can say; Spare, that the pointers *)
(* an operation has collected belong to nobody.  Between the directory's   *)
(* sector and the root's inode they hold for the disk as it is and for the *)
(* disk as it will be.                                                     *)
(***************************************************************************)
EXTENDS SovereignFS, WellFoundedInduction, TLAPS

-----------------------------------------------------------------------------
(* Arithmetic of cells and blocks, and the first element of a set *)

LEMMA Sizes ==
  /\ BlockSize \in Nat /\ BlockSize > 0
  /\ MaxDirect \in Nat /\ MaxDirect > 0
  /\ Ino \subseteq Nat /\ 0 \in Ino /\ Block \subseteq Nat /\ 0 \in Block
BY SizesArePositive DEF Ino, Block

LEMMA BlocksForType ==
  ASSUME NEW c \in Nat
  PROVE  BlocksFor(c) \in Nat
BY Sizes DEF BlocksFor

\* Where the cell at offset k is.
LEMMA Position ==
  ASSUME NEW k \in Nat
  PROVE  /\ k \div BlockSize \in Nat /\ k % BlockSize \in 0 .. BlockSize - 1
         /\ k = BlockSize * (k \div BlockSize) + (k % BlockSize)
BY Sizes

LEMMA PositionInBlocks ==
  ASSUME NEW c \in Nat, NEW k \in 0 .. (c * BlockSize) - 1
  PROVE  k \in Nat /\ (k \div BlockSize) + 1 \in 1 .. c /\ (k % BlockSize) + 1 \in 1 .. BlockSize
<1> DEFINE q == k \div BlockSize
           r == k % BlockSize
<1>1. /\ k \in Nat /\ q \in Nat /\ r \in 0 .. BlockSize - 1 /\ k = BlockSize * q + r
      /\ k < c * BlockSize
  <2>1. k \in Nat /\ k < c * BlockSize
    BY Sizes
  <2> QED
    BY <2>1, Position
<1> HIDE DEF q, r
<1>2. ASSUME q >= c PROVE FALSE
  <2>1. PICK d \in Nat : q = c + d
    <3>1. q = c + (q - c) /\ q - c \in Nat
      BY <1>1, <1>2
    <3> QED
      BY <3>1
  <2>2. BlockSize * q = c * BlockSize + BlockSize * d
    BY <2>1, Sizes
  <2>3. BlockSize * d \in Nat /\ c * BlockSize \in Nat
    BY <2>1, Sizes
  <2> QED
    BY <1>1, <2>2, <2>3, Sizes
<1>3. q + 1 \in 1 .. c
  BY <1>1, <1>2
<1> QED
  BY <1>1, <1>3, Sizes DEF q, r

LEMMA PositionInSize ==
  ASSUME NEW c \in Nat, NEW k \in Nat, k < c
  PROVE  (k \div BlockSize) + 1 \in 1 .. BlocksFor(c)
<1>1. k \div BlockSize < (c + BlockSize - 1) \div BlockSize
  BY Sizes
<1> QED
  BY <1>1, Position, BlocksForType DEF BlocksFor

LEMMA BlocksForGrows ==
  ASSUME NEW c \in Nat, NEW e \in Nat
  PROVE  BlocksFor(c) <= BlocksFor(c + e)
<1> DEFINE k == c + BlockSize - 1
           m == c + e + BlockSize - 1
           p == k \div BlockSize
           q == m \div BlockSize
<1>1. k \in Nat /\ m \in Nat /\ k <= m
  BY Sizes
<1>2. /\ p \in Nat /\ q \in Nat
      /\ BlockSize * p <= k /\ m < BlockSize * q + BlockSize
  <2>1. /\ k \div BlockSize \in Nat /\ k % BlockSize \in 0 .. BlockSize - 1
        /\ k = BlockSize * (k \div BlockSize) + (k % BlockSize)
    BY <1>1, Position
  <2>2. /\ m \div BlockSize \in Nat /\ m % BlockSize \in 0 .. BlockSize - 1
        /\ m = BlockSize * (m \div BlockSize) + (m % BlockSize)
    BY <1>1, Position
  <2> HIDE DEF k, m
  <2> QED
    BY <2>1, <2>2, Sizes
<1> HIDE DEF k, m, p, q
<1>3. ASSUME q + 1 <= p PROVE FALSE
  <2>1. PICK d \in Nat : p = q + 1 + d
    <3>1. p - (q + 1) \in Nat /\ p = q + 1 + (p - (q + 1))
      BY <1>2, <1>3
    <3> QED
      BY <3>1
  <2>2. BlockSize * p = BlockSize * q + BlockSize + BlockSize * d
    BY <1>2, <2>1, Sizes
  <2>3. BlockSize * d \in Nat /\ BlockSize * q \in Nat
    BY <1>2, <2>1, Sizes
  <2> QED
    BY <1>1, <1>2, <2>2, <2>3, Sizes
<1>4. p <= q
  BY <1>2, <1>3
<1> QED
  BY <1>4 DEF BlocksFor, p, q, k, m

LEMMA SamePosition ==
  ASSUME NEW k \in Nat, NEW m \in Nat,
         k \div BlockSize = m \div BlockSize, k % BlockSize = m % BlockSize
  PROVE  k = m
BY Position

Below == {ss \in Nat \X Nat : ss[1] < ss[2]}

LEMMA BelowWellFounded == IsWellFoundedOn(Below, Nat)
BY NatLessThanWellFounded DEF OpToRel, Below

LEMMA InBelow ==
  ASSUME NEW k \in Nat, NEW m \in Nat, m < k
  PROVE  <<m, k>> \in Below
BY DEF Below

\* The first free block, inode or slot is one of them.
LEMMA FirstIsIn ==
  ASSUME NEW S, S \subseteq Nat, S # {}
  PROVE  First(S) \in S /\ \A m \in S : First(S) <= m
<1>1. PICK k \in S : \A m \in S : ~(<<m, k>> \in Below)
  BY BelowWellFounded, WFMin
<1>2. ASSUME NEW m \in S PROVE k <= m
  <2>1. ~(m < k)
    BY <1>1, InBelow
  <2> QED
    BY <2>1
<1> QED
  BY <1>2 DEF First

-----------------------------------------------------------------------------
(* What a disk with data blocks d and inode table t holds *)

IsFile(d, t, i) ==
  \E k \in 1 .. t[0].count, s \in 1 .. BlockSize :
    d[t[0].blocks[k]][s] \in Entry /\ d[t[0].blocks[k]][s].ino = i

Live(d, t, i) == i = 0 \/ IsFile(d, t, i)

EntriesApart(d, t) ==
  \A k, m \in 1 .. t[0].count, s, u \in 1 .. BlockSize :
    /\ d[t[0].blocks[k]][s] \in Entry /\ d[t[0].blocks[m]][u] \in Entry
    /\ d[t[0].blocks[k]][s].ino = d[t[0].blocks[m]][u].ino
    => k = m /\ s = u

FilesWritten(d, t) ==
  \A i \in Ino : IsFile(d, t, i) =>
    i # 0 /\ t[i].magic /\ t[i].count = BlocksFor(t[i].size)

BlocksApart(d, t) ==
  \A i, j \in Ino : Live(d, t, i) /\ Live(d, t, j) =>
    \A k \in 1 .. t[i].count, m \in 1 .. t[j].count :
      t[i].blocks[k] = t[j].blocks[m] => i = j /\ k = m

Sound(d, t) == EntriesApart(d, t) /\ FilesWritten(d, t) /\ BlocksApart(d, t)

Marked(d, t, bm, im) ==
  \A i \in Ino : Live(d, t, i) =>
    i \in im /\ \A k \in 1 .. t[i].count : t[i].blocks[k] \in bm

Spare(nd, lo, hi, d, t, bm) ==
  /\ \A k \in lo .. hi : nd.blocks[k] \in bm
  /\ \A k \in lo .. hi, i \in Ino : Live(d, t, i) =>
       \A m \in 1 .. t[i].count : nd.blocks[k] # t[i].blocks[m]
  /\ \A k, m \in lo .. hi : nd.blocks[k] = nd.blocks[m] => k = m

Tables == [Ino -> InodeRec]
Disks == [Block -> [1 .. BlockSize -> Cell]]

LEMMA RecordTypes ==
  ASSUME NEW nd \in InodeRec
  PROVE  /\ nd.magic \in BOOLEAN /\ nd.size \in Nat /\ nd.count \in Nat
         /\ nd.count <= MaxDirect
         /\ \A k \in 1 .. nd.count : k \in Ptr /\ nd.blocks[k] \in Block
BY Sizes DEF InodeRec, Ptr

\* The files are what the root's blocks say.
LEMMA SameRootBlocks ==
  ASSUME NEW d, NEW e, NEW t, NEW u, NEW i,
         u[0].count = t[0].count,
         \A k \in 1 .. t[0].count :
           u[0].blocks[k] = t[0].blocks[k] /\ e[t[0].blocks[k]] = d[t[0].blocks[k]]
  PROVE  IsFile(e, u, i) <=> IsFile(d, t, i)
BY DEF IsFile

\* Blocks that are not the root's change nothing.
LEMMA OtherData ==
  ASSUME NEW d, NEW e, NEW t,
         \A k \in 1 .. t[0].count : e[t[0].blocks[k]] = d[t[0].blocks[k]]
  PROVE  /\ \A i : IsFile(e, t, i) <=> IsFile(d, t, i)
         /\ \A i : Live(e, t, i) <=> Live(d, t, i)
         /\ Sound(d, t) => Sound(e, t)
         /\ \A bm, im : Marked(d, t, bm, im) => Marked(e, t, bm, im)
         /\ \A nd, lo, hi, bm : Spare(nd, lo, hi, d, t, bm) => Spare(nd, lo, hi, e, t, bm)
<1>1. \A i : IsFile(e, t, i) <=> IsFile(d, t, i)
  BY SameRootBlocks
<1>2. \A i : Live(e, t, i) <=> Live(d, t, i)
  BY <1>1 DEF Live
<1>3. EntriesApart(d, t) => EntriesApart(e, t)
  BY DEF EntriesApart
<1>4. FilesWritten(d, t) => FilesWritten(e, t)
  BY <1>1 DEF FilesWritten
<1>5. BlocksApart(d, t) => BlocksApart(e, t)
  BY <1>2 DEF BlocksApart
<1>6. \A bm, im : Marked(d, t, bm, im) => Marked(e, t, bm, im)
  BY <1>2 DEF Marked
<1>7. \A nd, lo, hi, bm : Spare(nd, lo, hi, d, t, bm) => Spare(nd, lo, hi, e, t, bm)
  BY <1>2 DEF Spare
<1> QED
  BY <1>1, <1>2, <1>3, <1>4, <1>5, <1>6, <1>7 DEF Sound

\* Neither does an inode that no entry leads to.
LEMMA OtherInode ==
  ASSUME NEW d, NEW t \in Tables, NEW f \in Ino, f # 0, ~IsFile(d, t, f), NEW nd,
         NEW u, u = [t EXCEPT ![f] = nd]
  PROVE  /\ \A i : IsFile(d, u, i) <=> IsFile(d, t, i)
         /\ Sound(d, t) => Sound(d, u)
         /\ \A bm, im : Marked(d, t, bm, im) => Marked(d, u, bm, im)
         /\ \A x, lo, hi, bm : Spare(x, lo, hi, d, t, bm) => Spare(x, lo, hi, d, u, bm)
<1>1. u[0] = t[0] /\ \A i \in Ino : i # f => u[i] = t[i]
  BY Sizes DEF Tables
<1>2. \A i : IsFile(d, u, i) <=> IsFile(d, t, i)
  BY <1>1, SameRootBlocks
<1>3. /\ \A i : Live(d, u, i) <=> Live(d, t, i)
      /\ \A i \in Ino : Live(d, t, i) => u[i] = t[i]
  BY <1>1, <1>2 DEF Live
<1>4. EntriesApart(d, t) => EntriesApart(d, u)
  BY <1>1 DEF EntriesApart
<1>5. FilesWritten(d, t) => FilesWritten(d, u)
  BY <1>1, <1>2 DEF FilesWritten
<1>6. BlocksApart(d, t) => BlocksApart(d, u)
  BY <1>3 DEF BlocksApart
<1>7. \A bm, im : Marked(d, t, bm, im) => Marked(d, u, bm, im)
  BY <1>3 DEF Marked
<1>8. ASSUME NEW x, NEW lo, NEW hi, NEW bm, Spare(x, lo, hi, d, t, bm)
      PROVE  Spare(x, lo, hi, d, u, bm)
  <2>1. ASSUME NEW k \in lo .. hi, NEW i \in Ino, Live(d, u, i), NEW m \in 1 .. u[i].count
        PROVE  x.blocks[k] # u[i].blocks[m]
    BY <1>3, <1>8, <2>1 DEF Spare
  <2> QED
    BY <1>8, <2>1 DEF Spare
<1> QED
  BY <1>2, <1>4, <1>5, <1>6, <1>7, <1>8 DEF Sound

\* More marks change nothing.
LEMMA MoreMarks ==
  ASSUME NEW d, NEW t, NEW bm, NEW bn, bm \subseteq bn, NEW im, NEW in, im \subseteq in
  PROVE  /\ Marked(d, t, bm, im) => Marked(d, t, bn, in)
         /\ \A nd, lo, hi : Spare(nd, lo, hi, d, t, bm) => Spare(nd, lo, hi, d, t, bn)
BY DEF Marked, Spare

\* A free block is a spare one.
LEMMA SpareGrows ==
  ASSUME NEW d, NEW t, NEW bm, NEW im, Marked(d, t, bm, im),
         NEW nd, NEW md, NEW lo \in Nat, NEW hi \in Nat, lo <= hi + 1, NEW b,
         Spare(nd, lo, hi, d, t, bm), b \notin bm,
         md.blocks[hi + 1] = b,
         \A k \in lo .. hi : md.blocks[k] = nd.blocks[k]
  PROVE  Spare(md, lo, hi + 1, d, t, bm \cup {b})
<1>1. \A k \in lo .. hi + 1 : k = hi + 1 \/ k \in lo .. hi
  OBVIOUS
<1>2. \A k \in lo .. hi + 1 : md.blocks[k] \in bm \cup {b}
  BY <1>1 DEF Spare
<1>3. ASSUME NEW k \in lo .. hi + 1, NEW i \in Ino, Live(d, t, i), NEW m \in 1 .. t[i].count
      PROVE  md.blocks[k] # t[i].blocks[m]
  BY <1>1, <1>3 DEF Spare, Marked
<1>4. ASSUME NEW k \in lo .. hi + 1, NEW m \in lo .. hi + 1, md.blocks[k] = md.blocks[m]
      PROVE  k = m
  BY <1>1, <1>4 DEF Spare
<1> QED
  BY <1>2, <1>3, <1>4 DEF Spare

\* A file grows by spare blocks.
LEMMA FileGrows ==
  ASSUME NEW d, NEW t \in Tables, NEW bm, NEW im, Sound(d, t),
         NEW f \in Ino, f # 0, IsFile(d, t, f),
         NEW nd \in InodeRec, nd.magic, nd.count = BlocksFor(nd.size),
         t[f].count <= nd.count,
         \A k \in 1 .. t[f].count : nd.blocks[k] = t[f].blocks[k],
         Spare(nd, t[f].count + 1, nd.count, d, t, bm),
         NEW u, u = [t EXCEPT ![f] = nd]
  PROVE  Sound(d, u) /\ (Marked(d, t, bm, im) => Marked(d, u, bm, im))
<1>1. u[0] = t[0] /\ u[f] = nd /\ \A i \in Ino : i # f => u[i] = t[i]
  BY Sizes DEF Tables
<1>2. \A i : IsFile(d, u, i) <=> IsFile(d, t, i)
  BY <1>1, SameRootBlocks
<1>3. \A i : Live(d, u, i) <=> Live(d, t, i)
  BY <1>2 DEF Live
<1>4. EntriesApart(d, u)
  BY <1>1 DEF EntriesApart, Sound
<1>5. FilesWritten(d, u)
  BY <1>1, <1>2 DEF FilesWritten, Sound
<1>6. \A k \in 1 .. nd.count : k \in 1 .. t[f].count \/ k \in t[f].count + 1 .. nd.count
  BY RecordTypes DEF Tables
<1>7. Live(d, t, f)
  BY DEF Live
<1>8. ASSUME NEW i \in Ino, i # f, Live(d, t, i), NEW k \in 1 .. nd.count,
             NEW m \in 1 .. t[i].count
      PROVE  nd.blocks[k] # t[i].blocks[m]
  BY <1>6, <1>7, <1>8 DEF Spare, Sound, BlocksApart
<1>9. ASSUME NEW k \in 1 .. nd.count, NEW m \in 1 .. nd.count, nd.blocks[k] = nd.blocks[m]
      PROVE  k = m
  BY <1>6, <1>7, <1>9 DEF Spare, Sound, BlocksApart
<1>10. BlocksApart(d, u)
  BY <1>1, <1>3, <1>8, <1>9 DEF BlocksApart, Sound
<1>11. Marked(d, t, bm, im) => Marked(d, u, bm, im)
  BY <1>1, <1>3, <1>6, <1>7 DEF Marked, Spare
<1> QED
  BY <1>4, <1>5, <1>10, <1>11 DEF Sound

\* An inode with spare blocks becomes a file; the root may get one more block.
LEMMA FileAppears ==
  ASSUME NEW d, NEW t \in Tables, NEW e, NEW u \in Tables, NEW bm, NEW im,
         Sound(d, t), Marked(d, t, bm, im),
         NEW f \in Ino, f # 0, f \in im, t[f].magic, t[f].count = BlocksFor(t[f].size),
         Spare(t[f], 1, t[f].count, d, t, bm),
         \A i \in Ino : IsFile(e, u, i) <=> (IsFile(d, t, i) \/ i = f),
         EntriesApart(e, u),
         \A i \in Ino \ {0} : u[i] = t[i],
         t[0].count <= u[0].count,
         \A k \in 1 .. t[0].count : u[0].blocks[k] = t[0].blocks[k],
         Spare(u[0], t[0].count + 1, u[0].count, d, t, bm),
         \A k \in t[0].count + 1 .. u[0].count, m \in 1 .. t[f].count :
           u[0].blocks[k] # t[f].blocks[m]
  PROVE  Sound(e, u) /\ Marked(e, u, bm, im)
<1>1. \A i \in Ino : Live(e, u, i) <=> (Live(d, t, i) \/ i = f)
  BY DEF Live
<1>2. FilesWritten(e, u)
  BY DEF FilesWritten, Sound
<1>3. \A k \in 1 .. u[0].count : k \in 1 .. t[0].count \/ k \in t[0].count + 1 .. u[0].count
  BY RecordTypes, Sizes DEF Tables
<1>4. Live(d, t, 0)
  BY DEF Live
<1>5. ASSUME NEW i \in Ino, NEW j \in Ino, Live(e, u, i), Live(e, u, j), i # 0, j # 0,
             NEW k \in 1 .. t[i].count, NEW m \in 1 .. t[j].count,
             t[i].blocks[k] = t[j].blocks[m]
      PROVE  i = j /\ k = m
  <2>1. CASE i = f /\ j = f
    BY <1>5, <2>1 DEF Spare
  <2>2. CASE i = f /\ j # f
    BY <1>1, <1>5, <2>2 DEF Spare
  <2>3. CASE i # f /\ j = f
    BY <1>1, <1>5, <2>3 DEF Spare
  <2>4. CASE i # f /\ j # f
    BY <1>1, <1>5, <2>4 DEF Sound, BlocksApart
  <2> QED
    BY <2>1, <2>2, <2>3, <2>4
<1>6. ASSUME NEW j \in Ino, Live(e, u, j), j # 0,
             NEW k \in 1 .. u[0].count, NEW m \in 1 .. t[j].count
      PROVE  u[0].blocks[k] # t[j].blocks[m]
  <2>1. CASE k \in 1 .. t[0].count
    BY <1>1, <1>4, <1>6, <2>1, Sizes DEF Spare, Sound, BlocksApart
  <2>2. CASE k \in t[0].count + 1 .. u[0].count
    BY <1>1, <1>6, <2>2 DEF Spare
  <2> QED
    BY <1>3, <2>1, <2>2
<1>7. ASSUME NEW k \in 1 .. u[0].count, NEW m \in 1 .. u[0].count,
             u[0].blocks[k] = u[0].blocks[m]
      PROVE  k = m
  BY <1>3, <1>4, <1>7, Sizes DEF Spare, Sound, BlocksApart
<1>8. BlocksApart(e, u)
  BY <1>5, <1>6, <1>7 DEF BlocksApart
<1>9. Marked(e, u, bm, im)
  <2> SUFFICES ASSUME NEW i \in Ino, Live(e, u, i)
               PROVE  i \in im /\ \A k \in 1 .. u[i].count : u[i].blocks[k] \in bm
    BY DEF Marked
  <2>1. CASE i = 0
    BY <1>3, <1>4, <2>1 DEF Marked, Spare
  <2>2. CASE i # 0
    BY <1>1, <2>2 DEF Marked, Spare
  <2> QED
    BY <2>1, <2>2
<1> QED
  BY <1>2, <1>8, <1>9 DEF Sound

-----------------------------------------------------------------------------
(* The type invariant.  It holds of a spoiled disk too, so it may not rest *)
(* on what the directory leads to: the pointers of an inode cover its size,*)
(* and an operation's counts stay within what it has checked.              *)

Writing == {"block", "link", "root", "grow", "fill"}

PointersCover == \A i \in Ino \ {0} : inode[i].count = BlocksFor(inode[i].size)

NamedOp == pc \in Writing => name \in Name

BlockCounts == pc = "block" => node.count = BlocksFor(node.size) /\ at <= node.count

GrowCounts == pc \in {"grow", "fill"} =>
  /\ ino # 0
  /\ node.count <= BlocksFor(NewSize) /\ BlocksFor(NewSize) <= MaxDirect
  /\ pc = "grow" => at = node.count
  /\ pc = "fill" => node.count = BlocksFor(NewSize) /\ at <= Len(content)

TypeInv == TypeOK /\ PointersCover /\ NamedOp /\ BlockCounts /\ GrowCounts

LEMMA NewInodeType ==
  ASSUME NEW size \in Nat, NEW count \in 0 .. MaxDirect
  PROVE  /\ NewInode(size, count) \in InodeRec
         /\ NewInode(size, count).magic
         /\ NewInode(size, count).size = size /\ NewInode(size, count).count = count
BY Sizes DEF NewInode, InodeRec

LEMMA BlankTypes ==
  /\ BlankInode \in InodeRec /\ BlankInode.count = 0 /\ BlankInode.size = 0
  /\ BlankBlock \in [1 .. BlockSize -> Cell]
<1>1. NewInode(0, 0) \in InodeRec /\ NewInode(0, 0).count = 0 /\ NewInode(0, 0).size = 0
  BY NewInodeType, Sizes
<1>2. BlankInode \in InodeRec /\ BlankInode.count = 0 /\ BlankInode.size = 0
  BY <1>1 DEF BlankInode, InodeRec
<1>3. BlankBlock \in [1 .. BlockSize -> Cell]
  BY DEF BlankBlock, Cell
<1> QED
  BY <1>2, <1>3

LEMMA NoBlocks == BlocksFor(0) = 0
BY Sizes DEF BlocksFor

LEMMA ContentType ==
  ASSUME TypeOK
  PROVE  content \in Seq(Byte) /\ Len(content) \in Nat
<1>1. content \in Seq(Byte)
  <2>1. CASE content = <<>>
    BY <2>1
  <2>2. CASE content \in Contents
    BY <2>2, ContentsAreBytes
  <2> QED
    BY <2>1, <2>2 DEF TypeOK
<1> QED
  BY <1>1

LEMMA FreeBlockType ==
  ASSUME TypeOK, FreeBlocks # {}
  PROVE  First(FreeBlocks) \in Block /\ First(FreeBlocks) \notin bmap
BY FirstIsIn, Sizes DEF FreeBlocks

LEMMA FreeInodeType ==
  ASSUME TypeOK, FreeInodes # {}
  PROVE  First(FreeInodes) \in Ino /\ First(FreeInodes) \notin imap
BY FirstIsIn, Sizes DEF FreeInodes

LEMMA ForgetTypes ==
  ASSUME Forget
  PROVE  /\ name' \in Name \cup {NoName} /\ content' \in Contents \cup {<<>>}
         /\ ino' \in Ino /\ node' \in InodeRec /\ at' \in Nat
BY BlankTypes, Sizes DEF Forget

LEMMA TypeFacts ==
  ASSUME TypeInv
  PROVE  /\ inode \in Tables /\ data \in Disks /\ node \in InodeRec /\ ino \in Ino
         /\ inode[0] \in InodeRec /\ inode[ino] \in InodeRec
         /\ at \in Nat /\ node.count \in Nat /\ node.size \in Nat /\ inode[ino].count \in Nat
         /\ content \in Seq(Byte) /\ Len(content) \in Nat /\ NewSize \in Nat
<1>1. /\ inode \in Tables /\ data \in Disks /\ node \in InodeRec /\ ino \in Ino
      /\ inode[0] \in InodeRec /\ inode[ino] \in InodeRec /\ at \in Nat
  BY Sizes DEF TypeInv, TypeOK, Tables, Disks
<1>2. node.count \in Nat /\ node.size \in Nat /\ inode[ino].count \in Nat
  BY <1>1, RecordTypes
<1>3. content \in Seq(Byte) /\ Len(content) \in Nat
  BY ContentType DEF TypeInv
<1> QED
  BY <1>1, <1>2, <1>3 DEF NewSize

\* What the history records is monotonic.
LEMMA AllocatedHistory ==
  ASSUME TypeOK, Allocated
  PROVE  spoiled' \in BOOLEAN /\ (~spoiled' => ~spoiled /\ fresh)
BY DEF Allocated

LEMMA InitType == Init => TypeInv
<1> SUFFICES ASSUME Init PROVE TypeInv
  OBVIOUS
<1>1. /\ inode \in Tables /\ data \in Disks
      /\ \A i \in Ino : inode[i].count = 0 /\ inode[i].size = 0
  BY BlankTypes DEF Init, Tables, Disks
<1>2. TypeOK
  BY <1>1, BlankTypes, Sizes DEF Init, TypeOK, Tables, Disks
<1>3. PointersCover
  BY <1>1, NoBlocks DEF PointersCover
<1> QED
  BY <1>2, <1>3 DEF Init, TypeInv, NamedOp, BlockCounts, GrowCounts, Writing

\* An operation that is over leaves typed what it has written.
LEMMA ReturnType ==
  ASSUME TypeInv, Return,
         super' \in BOOLEAN, fresh' \in BOOLEAN, spoiled' \in BOOLEAN,
         inode' \in Tables, PointersCover', data' \in Disks,
         bmap' \subseteq Block, imap' \subseteq Ino
  PROVE  TypeInv'
<1>1. TypeOK'
  BY ForgetTypes DEF Return, TypeOK, Tables, Disks
<1> QED
  BY <1>1 DEF Return, TypeInv, NamedOp, BlockCounts, GrowCounts, Writing

LEMMA BootType ==
  ASSUME TypeInv, Boot \/ Format \/ FormatRoot \/ PowerFails
  PROVE  TypeInv'
<1>1. CASE Boot
  BY <1>1 DEF Boot, TypeInv, TypeOK, PointersCover, NamedOp, BlockCounts, GrowCounts, Writing,
     disk, bitmaps, opVars, args, history
<1>2. CASE Format
  BY <1>2 DEF Format, TypeInv, TypeOK, PointersCover, NamedOp, BlockCounts, GrowCounts, Writing,
     bitmaps, opVars, args, history
<1>3. CASE FormatRoot
  <2>1. NewInode(0, 0) \in InodeRec
    BY NewInodeType, Sizes
  <2>2. inode' \in Tables /\ \A i \in Ino \ {0} : inode'[i] = inode[i]
    BY <1>3, <2>1, TypeFacts, Sizes DEF FormatRoot, Tables
  <2>3. TypeOK'
    BY <1>3, <2>2, Sizes DEF FormatRoot, TypeInv, TypeOK, Tables, opVars, args
  <2>4. PointersCover'
    BY <2>2 DEF TypeInv, PointersCover
  <2> QED
    BY <1>3, <2>3, <2>4 DEF FormatRoot, TypeInv, NamedOp, BlockCounts, GrowCounts, Writing
<1>4. CASE PowerFails
  <2>1. TypeOK'
    BY <1>4, ForgetTypes DEF PowerFails, TypeInv, TypeOK, disk
  <2> QED
    BY <1>4, <2>1
    DEF PowerFails, TypeInv, PointersCover, NamedOp, BlockCounts, GrowCounts, Writing, disk
<1> QED
  BY <1>1, <1>2, <1>3, <1>4

LEMMA OverwriteType ==
  ASSUME TypeInv, NEW b \in RawBlocks, Overwrite(b)
  PROVE  TypeInv'
<1>1. PICK w \in Byte : data' = [data EXCEPT ![b] = [s \in 1 .. BlockSize |-> w]]
  BY DEF Overwrite
<1>2. data' \in Disks
  BY <1>1, TypeFacts DEF Disks, Cell
<1>3. spoiled' \in BOOLEAN
  BY DEF Overwrite
<1>4. /\ pc = "idle" /\ UNCHANGED <<super, inode, pc, bmap, imap, name, content, ino, node, at, fresh>>
  BY DEF Overwrite, bitmaps, opVars, args
<1>5. TypeOK'
  BY <1>2, <1>3, <1>4 DEF TypeInv, TypeOK, Disks
<1> QED
  BY <1>4, <1>5 DEF TypeInv, PointersCover, NamedOp, BlockCounts, GrowCounts, Writing

LEMMA CreateType ==
  ASSUME TypeInv, NEW n \in Name, NEW c \in Contents, Create(n, c)
  PROVE  TypeInv'
<1> DEFINE f == First(FreeInodes)
<1>1. f \in Ino /\ f \notin imap
  BY FreeInodeType DEF Create, TypeInv
<1>2. Len(c) \in Nat
  BY ContentsAreBytes
<1>3. spoiled' \in BOOLEAN
  BY AllocatedHistory DEF Create, TypeInv
<1>4. /\ imap' = imap \cup {f} /\ imap' \subseteq Ino
      /\ UNCHANGED <<super, inode, data, fresh, bmap>>
  BY <1>1 DEF Create, TypeInv, TypeOK, disk
<1>5. PointersCover'
  BY <1>4 DEF TypeInv, PointersCover
<1>6. CASE BlocksFor(Len(c)) > MaxDirect
  <2>1. Return
    BY <1>6 DEF Create
  <2> QED
    BY <1>3, <1>4, <1>5, <2>1, TypeFacts, ReturnType DEF TypeInv, TypeOK
<1>7. CASE ~(BlocksFor(Len(c)) > MaxDirect)
  <2>1. BlocksFor(Len(c)) \in 0 .. MaxDirect
    BY <1>2, <1>7, BlocksForType, Sizes
  <2>2. /\ node' = NewInode(Len(c), BlocksFor(Len(c))) /\ pc' = "block" /\ at' = 0
        /\ name' = Clip[n] /\ content' = c /\ ino' = f
    BY <1>7 DEF Create
  <2>3. node' \in InodeRec /\ node'.count = BlocksFor(node'.size) /\ 0 <= node'.count
    BY <1>2, <2>1, <2>2, NewInodeType
  <2>4. name' \in Name
    BY <2>2, ClippingKeepsNames
  <2>5. TypeOK'
    BY <1>1, <1>3, <1>4, <2>2, <2>3, <2>4 DEF TypeInv, TypeOK
  <2> QED
    BY <1>5, <2>2, <2>3, <2>4, <2>5 DEF TypeInv, NamedOp, BlockCounts, GrowCounts
<1> QED
  BY <1>6, <1>7

LEMMA PieceType ==
  ASSUME TypeOK
  PROVE  Piece \in [1 .. BlockSize -> Cell]
<1>1. content \in Seq(Byte) /\ Len(content) \in Nat /\ at \in Nat
  BY ContentType DEF TypeOK
<1>2. ASSUME NEW s \in 1 .. BlockSize, at * BlockSize + s <= Len(content)
      PROVE  content[at * BlockSize + s] \in Byte
  <2>1. at * BlockSize \in Nat
    BY <1>1, Sizes
  <2>2. at * BlockSize + s \in 1 .. Len(content)
    BY <1>1, <1>2, <2>1
  <2> QED
    BY <1>1, <2>2
<1> QED
  BY <1>2 DEF Piece, Cell

\* The inode of a new file gets its next block.
LEMMA BlockAdded ==
  ASSUME TypeInv, CreateBlock, FreeBlocks # {}
  PROVE  /\ at + 1 \in Ptr /\ at + 1 <= node.count /\ node' \in InodeRec
         /\ node'.magic = node.magic /\ node'.size = node.size /\ node'.count = node.count
         /\ node'.blocks[at + 1] = First(FreeBlocks)
         /\ \A m \in Ptr : m # at + 1 => node'.blocks[m] = node.blocks[m]
<1> DEFINE b == First(FreeBlocks)
<1>1. node' = [node EXCEPT !.blocks[at + 1] = b] /\ at < node.count
  BY DEF CreateBlock
<1>2. b \in Block
  BY FreeBlockType DEF TypeInv
<1>3. at + 1 \in Ptr /\ at + 1 <= node.count
  BY <1>1, TypeFacts, RecordTypes, Sizes DEF Ptr
<1> HIDE DEF b
<1>4. node \in InodeRec
  BY TypeFacts
<1>5. /\ node' \in InodeRec
      /\ node'.magic = node.magic /\ node'.size = node.size /\ node'.count = node.count
      /\ node'.blocks[at + 1] = b
      /\ \A m \in Ptr : m # at + 1 => node'.blocks[m] = node.blocks[m]
  BY <1>1, <1>2, <1>3, <1>4 DEF InodeRec
<1> QED
  BY <1>3, <1>5 DEF b

LEMMA CreateBlockType ==
  ASSUME TypeInv, CreateBlock
  PROVE  TypeInv'
<1>1. UNCHANGED <<super, inode, fresh, imap>> /\ pc = "block" /\ at < node.count
  BY DEF CreateBlock
<1>2. PointersCover'
  BY <1>1 DEF TypeInv, PointersCover
<1>3. CASE FreeBlocks = {}
  <2>1. Return /\ UNCHANGED <<data, bmap, spoiled>>
    BY <1>3 DEF CreateBlock
  <2> QED
    BY <1>1, <1>2, <2>1, TypeFacts, ReturnType DEF TypeInv, TypeOK
<1>4. CASE FreeBlocks # {}
  <2>1. /\ bmap' = bmap \cup {First(FreeBlocks)} /\ Allocated
        /\ data' = [data EXCEPT ![First(FreeBlocks)] = Piece]
        /\ at' = at + 1
        /\ UNCHANGED <<pc, name, content, ino>>
    BY <1>4 DEF CreateBlock, AllocBlock, args
  <2>2. First(FreeBlocks) \in Block
    BY <1>4, FreeBlockType DEF TypeInv
  <2>3. data' \in Disks
    BY <2>1, TypeFacts, PieceType DEF Disks, TypeInv
  <2>4. /\ at + 1 <= node.count /\ node' \in InodeRec
        /\ node'.size = node.size /\ node'.count = node.count
    BY <1>4, BlockAdded
  <2>5. spoiled' \in BOOLEAN /\ at + 1 \in Nat
    BY <2>1, AllocatedHistory, TypeFacts DEF TypeInv
  <2>6. TypeOK'
    BY <1>1, <2>1, <2>2, <2>3, <2>4, <2>5 DEF TypeInv, TypeOK, Disks
  <2> QED
    BY <1>1, <1>2, <2>1, <2>4, <2>6 DEF TypeInv, NamedOp, BlockCounts, GrowCounts, Writing
<1> QED
  BY <1>3, <1>4

LEMMA CreateInodeType ==
  ASSUME TypeInv, CreateInode
  PROVE  TypeInv'
<1>1. /\ pc = "block" /\ pc' = "link" /\ inode' = [inode EXCEPT ![ino] = node]
      /\ UNCHANGED <<super, data, fresh, spoiled, bmap, imap, name, content, ino, node, at>>
  BY DEF CreateInode, bitmaps, opVars, args, history
<1>2. inode' \in Tables /\ \A i \in Ino : inode'[i] = IF i = ino THEN node ELSE inode[i]
  BY <1>1, TypeFacts DEF Tables
<1>3. TypeOK'
  BY <1>1, <1>2 DEF TypeInv, TypeOK, Tables
<1>4. PointersCover'
  BY <1>1, <1>2 DEF TypeInv, PointersCover, BlockCounts
<1> QED
  BY <1>1, <1>3, <1>4 DEF TypeInv, NamedOp, BlockCounts, GrowCounts, Writing

LEMMA EntryType ==
  ASSUME TypeInv, pc \in Writing
  PROVE  NewEntry \in Entry /\ NewEntry.ino = ino /\ Zero \notin Entry
<1>1. name \in Name /\ ino \in Ino
  BY DEF TypeInv, TypeOK, NamedOp
<1> QED
  BY <1>1, ValuesDiffer DEF NewEntry, Entry

\* The entry is put where the root's inode points.
LEMMA SlotPlace ==
  ASSUME TypeInv, NEW k \in FreeSlots
  PROVE  /\ k \in Nat
         /\ (k \div BlockSize) + 1 \in 1 .. inode[0].count
         /\ (k % BlockSize) + 1 \in 1 .. BlockSize
         /\ inode[0].blocks[(k \div BlockSize) + 1] \in Block
<1>1. inode[0] \in InodeRec /\ inode[0].count \in Nat
  BY TypeFacts, RecordTypes
<1>2. k \in 0 .. (inode[0].count * BlockSize) - 1
  BY DEF FreeSlots, Offsets
<1>3. /\ k \in Nat /\ (k \div BlockSize) + 1 \in 1 .. inode[0].count
      /\ (k % BlockSize) + 1 \in 1 .. BlockSize
  BY <1>1, <1>2, PositionInBlocks
<1> QED
  BY <1>1, <1>3, RecordTypes

LEMMA FirstSlot ==
  ASSUME TypeInv, FreeSlots # {}
  PROVE  First(FreeSlots) \in FreeSlots /\ \A k \in FreeSlots : First(FreeSlots) <= k
<1>1. FreeSlots \subseteq Nat
  BY SlotPlace
<1> QED
  BY <1>1, FirstIsIn

LEMMA LinkInSlotType ==
  ASSUME TypeInv, LinkInSlot
  PROVE  TypeInv'
<1> DEFINE k0 == First(FreeSlots)
           K == (k0 \div BlockSize) + 1
           S == (k0 % BlockSize) + 1
           R == inode[0].blocks[K]
<1>1. /\ data' = [data EXCEPT ![R][S] = NewEntry]
      /\ node' = [inode[0] EXCEPT !.size = @ + 1]
      /\ pc = "link" /\ pc' = "root"
      /\ UNCHANGED <<super, inode, fresh, spoiled, bmap, imap, name, content, ino, at>>
  BY DEF LinkInSlot, bitmaps, args, history
<1>2. S \in 1 .. BlockSize /\ R \in Block
  BY FirstSlot, SlotPlace DEF LinkInSlot
<1>3. NewEntry \in Cell
  BY <1>1, EntryType DEF Writing, Cell
<1> HIDE DEF k0, K, S, R
<1>4. data' \in Disks
  BY <1>1, <1>2, <1>3, TypeFacts DEF Disks
<1>5. node' \in InodeRec
  BY <1>1, TypeFacts DEF InodeRec
<1>6. TypeOK'
  BY <1>1, <1>4, <1>5 DEF TypeInv, TypeOK, Disks
<1> QED
  BY <1>1, <1>6 DEF TypeInv, PointersCover, NamedOp, BlockCounts, GrowCounts, Writing

\* The block that the directory gets: its first cell is the entry.
LEMMA NewBlock ==
  ASSUME TypeInv, pc \in Writing
  PROVE  LET New == [BlankBlock EXCEPT ![1] = NewEntry] IN
         /\ New \in [1 .. BlockSize -> Cell] /\ New[1] = NewEntry /\ 1 \in 1 .. BlockSize
         /\ \A s \in 1 .. BlockSize : s # 1 => New[s] = Zero
         /\ \A s \in 1 .. BlockSize : New[s] \in Entry => s = 1
<1> DEFINE New == [BlankBlock EXCEPT ![1] = NewEntry]
<1>1. New = [s \in 1 .. BlockSize |-> IF s = 1 THEN NewEntry ELSE Zero]
  BY DEF BlankBlock
<1>2. 1 \in 1 .. BlockSize /\ NewEntry \in Entry /\ Zero \notin Entry
  BY EntryType, Sizes
<1> HIDE DEF New
<1>3. /\ New \in [1 .. BlockSize -> Cell] /\ New[1] = NewEntry /\ 1 \in 1 .. BlockSize
      /\ \A s \in 1 .. BlockSize : s # 1 => New[s] = Zero
      /\ \A s \in 1 .. BlockSize : New[s] \in Entry => s = 1
  BY <1>1, <1>2 DEF Cell
<1> QED
  BY <1>3 DEF New

\* The root's inode gets one more block.
LEMMA RootBlockAdded ==
  ASSUME TypeInv, LinkInBlock
  PROVE  /\ inode[0].count \in Nat /\ inode[0].count + 1 \in Ptr
         /\ node' \in InodeRec /\ node'.count = inode[0].count + 1
         /\ node'.blocks[inode[0].count + 1] = First(FreeBlocks)
         /\ \A k \in Ptr : k # inode[0].count + 1 => node'.blocks[k] = inode[0].blocks[k]
<1> DEFINE b == First(FreeBlocks)
           c == inode[0].count
<1>1. /\ node' = [inode[0] EXCEPT !.blocks[c + 1] = b, !.count = @ + 1, !.size = @ + 1]
      /\ c < MaxDirect /\ inode[0] \in InodeRec
  BY TypeFacts DEF LinkInBlock
<1>2. b \in Block
  BY FreeBlockType DEF LinkInBlock, TypeInv
<1>3. c \in Nat /\ c + 1 \in Ptr
  BY <1>1, RecordTypes, Sizes DEF Ptr
<1> HIDE DEF b
<1>4. /\ inode[0].blocks \in [Ptr -> Block] /\ inode[0].magic \in BOOLEAN
      /\ inode[0].size \in Nat
  BY <1>1 DEF InodeRec
<1>5. node' = [magic |-> inode[0].magic, size |-> inode[0].size + 1, count |-> c + 1,
               blocks |-> [inode[0].blocks EXCEPT ![c + 1] = b]]
  BY <1>1 DEF InodeRec
<1>6. c + 1 \in 0 .. MaxDirect /\ inode[0].size + 1 \in Nat
  BY <1>3, <1>4, Sizes DEF Ptr
<1>7. [inode[0].blocks EXCEPT ![c + 1] = b] \in [Ptr -> Block]
  BY <1>2, <1>3, <1>4
<1>8. /\ node' \in InodeRec /\ node'.count = c + 1 /\ node'.blocks[c + 1] = b
      /\ \A k \in Ptr : k # c + 1 => node'.blocks[k] = inode[0].blocks[k]
  BY <1>3, <1>4, <1>5, <1>6, <1>7 DEF InodeRec
<1> QED
  BY <1>3, <1>8 DEF b

LEMMA LinkInBlockType ==
  ASSUME TypeInv, LinkInBlock
  PROVE  TypeInv'
<1>1. /\ bmap' = bmap \cup {First(FreeBlocks)} /\ Allocated
      /\ data' = [data EXCEPT ![First(FreeBlocks)] = [BlankBlock EXCEPT ![1] = NewEntry]]
      /\ pc = "link" /\ pc' = "root"
      /\ UNCHANGED <<super, inode, fresh, imap, name, content, ino, at>>
  BY DEF LinkInBlock, AllocBlock, args
<1>2. First(FreeBlocks) \in Block /\ node' \in InodeRec
  BY FreeBlockType, RootBlockAdded DEF LinkInBlock, TypeInv
<1>3. [BlankBlock EXCEPT ![1] = NewEntry] \in [1 .. BlockSize -> Cell]
  BY <1>1, NewBlock DEF Writing
<1>4. data' \in Disks
  BY <1>1, <1>2, <1>3, TypeFacts DEF Disks
<1>5. spoiled' \in BOOLEAN
  BY <1>1, AllocatedHistory DEF TypeInv
<1>6. TypeOK'
  BY <1>1, <1>2, <1>4, <1>5 DEF TypeInv, TypeOK, Disks
<1> QED
  BY <1>1, <1>6 DEF TypeInv, PointersCover, NamedOp, BlockCounts, GrowCounts, Writing

LEMMA LinkEndType ==
  ASSUME TypeInv, LinkNowhere \/ LinkRoot
  PROVE  TypeInv'
<1>1. CASE LinkNowhere
  <2>1. Return /\ UNCHANGED <<super, inode, data, fresh, spoiled, bmap, imap>>
    BY <1>1 DEF LinkNowhere, disk, bitmaps, history
  <2>2. PointersCover'
    BY <2>1 DEF TypeInv, PointersCover
  <2> QED
    BY <2>1, <2>2, TypeFacts, ReturnType DEF TypeInv, TypeOK
<1>2. CASE LinkRoot
  <2>1. /\ Return /\ inode' = [inode EXCEPT ![0] = node]
        /\ UNCHANGED <<super, data, fresh, spoiled, bmap, imap>>
    BY <1>2 DEF LinkRoot, bitmaps, history
  <2>2. inode' \in Tables /\ \A i \in Ino \ {0} : inode'[i] = inode[i]
    BY <2>1, TypeFacts, Sizes DEF Tables
  <2>3. PointersCover'
    BY <2>2 DEF TypeInv, PointersCover
  <2> QED
    BY <2>1, <2>2, <2>3, TypeFacts, ReturnType DEF TypeInv, TypeOK
<1> QED
  BY <1>1, <1>2

\* An offset of the root is a place in one of its blocks.
LEMMA RootOffset ==
  ASSUME TypeOK, NEW k \in Offsets(inode[0])
  PROVE  /\ k \in Nat
         /\ (k \div BlockSize) + 1 \in 1 .. inode[0].count
         /\ (k % BlockSize) + 1 \in 1 .. BlockSize
         /\ CellAt(inode[0], k) = data[inode[0].blocks[(k \div BlockSize) + 1]][(k % BlockSize) + 1]
<1>1. inode[0].count \in Nat
  BY RecordTypes, Sizes DEF TypeOK
<1> QED
  BY <1>1, PositionInBlocks DEF Offsets, CellAt

LEMMA LookupFile ==
  ASSUME TypeOK, NEW n \in Name, Exists(n)
  PROVE  Lookup(n) \in Ino /\ Lookup(n) # 0 /\ IsFile(data, inode, Lookup(n))
<1> DEFINE k == First(Matches(n))
<1>1. Matches(n) \subseteq Nat /\ Matches(n) # {}
  BY RootOffset DEF Matches, Exists
<1>2. k \in Matches(n)
  BY <1>1, FirstIsIn
<1>3. k \in Offsets(inode[0]) /\ CellAt(inode[0], k) \in [name : {n}, ino : Ino \ {0}]
  BY <1>2 DEF Matches
<1>4. /\ CellAt(inode[0], k) \in Entry
      /\ CellAt(inode[0], k).ino \in Ino /\ CellAt(inode[0], k).ino # 0
  BY <1>3 DEF Entry
<1> HIDE DEF k
<1>5. IsFile(data, inode, CellAt(inode[0], k).ino)
  BY <1>3, <1>4, RootOffset DEF IsFile
<1> QED
  BY <1>4, <1>5 DEF Lookup, k

LEMMA AppendToType ==
  ASSUME TypeInv, NEW n \in Name, NEW c \in Contents, AppendTo(n, c)
  PROVE  TypeInv'
<1> DEFINE f == Lookup(n)
<1>1. f \in Ino /\ f # 0
  BY LookupFile DEF AppendTo, TypeInv
<1>2. inode[f] \in InodeRec /\ inode[f].count = BlocksFor(inode[f].size)
  BY <1>1, TypeFacts DEF TypeInv, PointersCover, Tables
<1>3. Len(c) \in Nat /\ inode[f].size \in Nat /\ inode[f].count \in Nat
  BY <1>2, ContentsAreBytes, RecordTypes
<1>4. /\ ino' = f /\ node' = inode[f] /\ at' = inode[f].count /\ content' = c /\ name' = n
      /\ pc' = "grow" /\ BlocksFor(inode[f].size + Len(c)) <= MaxDirect
      /\ UNCHANGED <<super, inode, data, fresh, spoiled, bmap, imap>>
  BY <1>2 DEF AppendTo, disk, bitmaps, history
<1> HIDE DEF f
<1>5. TypeOK'
  BY <1>1, <1>2, <1>3, <1>4 DEF TypeInv, TypeOK
<1>6. BlocksFor(inode[f].size) <= BlocksFor(inode[f].size + Len(c))
  BY <1>3, BlocksForGrows
<1>7. GrowCounts'
  BY <1>1, <1>2, <1>4, <1>6 DEF GrowCounts, NewSize
<1> QED
  BY <1>4, <1>5, <1>7 DEF TypeInv, PointersCover, NamedOp, BlockCounts

\* The inode that grows gets its next block.
LEMMA GrowthAdded ==
  ASSUME TypeInv, Grow, FreeBlocks # {}
  PROVE  /\ at = node.count /\ at + 1 \in Ptr /\ at + 1 <= BlocksFor(NewSize)
         /\ node' \in InodeRec
         /\ node'.magic = node.magic /\ node'.size = node.size /\ node'.count = at + 1
         /\ node'.blocks[at + 1] = First(FreeBlocks)
         /\ \A m \in Ptr : m # at + 1 => node'.blocks[m] = node.blocks[m]
<1> DEFINE b == First(FreeBlocks)
<1>1. /\ node' = [node EXCEPT !.blocks[at + 1] = b, !.count = @ + 1]
      /\ at < BlocksFor(NewSize) /\ pc = "grow"
  BY DEF Grow
<1>2. at = node.count /\ BlocksFor(NewSize) <= MaxDirect
  BY <1>1 DEF TypeInv, GrowCounts
<1>3. b \in Block
  BY FreeBlockType DEF TypeInv
<1> HIDE DEF b
<1>4. at \in Nat /\ NewSize \in Nat /\ BlocksFor(NewSize) \in Nat /\ node \in InodeRec
  BY TypeFacts, BlocksForType
<1>5. at + 1 \in Ptr /\ at + 1 <= BlocksFor(NewSize) /\ at + 1 \in 0 .. MaxDirect
  BY <1>1, <1>2, <1>4, Sizes DEF Ptr
<1>6. node.blocks \in [Ptr -> Block] /\ node.magic \in BOOLEAN /\ node.size \in Nat
  BY <1>4 DEF InodeRec
<1>7. node' = [magic |-> node.magic, size |-> node.size, count |-> at + 1,
               blocks |-> [node.blocks EXCEPT ![at + 1] = b]]
  BY <1>1, <1>2, <1>4 DEF InodeRec
<1>8. [node.blocks EXCEPT ![at + 1] = b] \in [Ptr -> Block]
  BY <1>3, <1>5, <1>6
<1>9. /\ node' \in InodeRec
      /\ node'.magic = node.magic /\ node'.size = node.size /\ node'.count = at + 1
      /\ node'.blocks[at + 1] = b
      /\ \A m \in Ptr : m # at + 1 => node'.blocks[m] = node.blocks[m]
  BY <1>5, <1>6, <1>7, <1>8 DEF InodeRec
<1> QED
  BY <1>2, <1>5, <1>9 DEF b

LEMMA GrowType ==
  ASSUME TypeInv, Grow
  PROVE  TypeInv'
<1>1. UNCHANGED <<super, inode, data, fresh, imap>> /\ pc = "grow"
  BY DEF Grow, disk
<1>2. PointersCover'
  BY <1>1 DEF TypeInv, PointersCover
<1>3. CASE FreeBlocks = {}
  <2>1. Return /\ UNCHANGED <<bmap, spoiled>>
    BY <1>3 DEF Grow
  <2> QED
    BY <1>1, <1>2, <2>1, TypeFacts, ReturnType DEF TypeInv, TypeOK
<1>4. CASE FreeBlocks # {}
  <2>1. /\ bmap' = bmap \cup {First(FreeBlocks)} /\ Allocated
        /\ at' = at + 1
        /\ UNCHANGED <<pc, name, content, ino>>
    BY <1>4 DEF Grow, AllocBlock, args
  <2>2. First(FreeBlocks) \in Block /\ spoiled' \in BOOLEAN /\ at + 1 \in Nat
    BY <1>4, <2>1, FreeBlockType, AllocatedHistory, TypeFacts DEF TypeInv
  <2>3. /\ at + 1 <= BlocksFor(NewSize) /\ node' \in InodeRec
        /\ node'.size = node.size /\ node'.count = at + 1
    BY <1>4, GrowthAdded
  <2>4. NewSize' = NewSize
    BY <2>1, <2>3 DEF NewSize
  <2>5. TypeOK'
    BY <1>1, <2>1, <2>2, <2>3 DEF TypeInv, TypeOK
  <2>6. GrowCounts'
    BY <1>1, <2>1, <2>3, <2>4 DEF TypeInv, GrowCounts
  <2> QED
    BY <1>1, <1>2, <2>1, <2>5, <2>6 DEF TypeInv, NamedOp, BlockCounts, Writing
<1> QED
  BY <1>3, <1>4

LEMMA GrownType ==
  ASSUME TypeInv, Grown
  PROVE  TypeInv'
<1>1. /\ pc = "grow" /\ at = BlocksFor(NewSize) /\ at' = 0 /\ pc' = "fill"
      /\ UNCHANGED <<super, inode, data, fresh, spoiled, bmap, imap, name, content, ino, node>>
  BY DEF Grown, disk, bitmaps, args, history
<1>2. TypeOK'
  BY <1>1 DEF TypeInv, TypeOK
<1>3. Len(content) \in Nat /\ NewSize' = NewSize
  BY <1>1, TypeFacts DEF NewSize
<1>4. GrowCounts'
  BY <1>1, <1>3 DEF TypeInv, GrowCounts
<1> QED
  BY <1>1, <1>2, <1>4 DEF TypeInv, PointersCover, NamedOp, BlockCounts, Writing

\* Every byte goes to a block of the inode that grows.
LEMMA FillPlace ==
  ASSUME TypeInv, Fill
  PROVE  LET k == node.size + at IN
         /\ k \in Nat /\ (k \div BlockSize) + 1 \in 1 .. node.count
         /\ (k % BlockSize) + 1 \in 1 .. BlockSize
         /\ node.blocks[(k \div BlockSize) + 1] \in Block /\ content[at + 1] \in Byte
<1> DEFINE k == node.size + at
<1>1. pc = "fill" /\ at < Len(content)
  BY DEF Fill
<1>2. node.count = BlocksFor(NewSize)
  BY <1>1 DEF TypeInv, GrowCounts
<1>3. k \in Nat /\ k < NewSize /\ NewSize \in Nat
  BY <1>1, TypeFacts DEF NewSize
<1> HIDE DEF k
<1>4. (k \div BlockSize) + 1 \in 1 .. node.count /\ (k % BlockSize) + 1 \in 1 .. BlockSize
  BY <1>2, <1>3, PositionInSize, Position, Sizes
<1>5. node.blocks[(k \div BlockSize) + 1] \in Block
  BY <1>4, TypeFacts, RecordTypes
<1>6. content[at + 1] \in Byte
  BY <1>1, TypeFacts
<1> QED
  BY <1>3, <1>4, <1>5, <1>6 DEF k

LEMMA FillType ==
  ASSUME TypeInv, Fill
  PROVE  TypeInv'
<1> DEFINE k == node.size + at
           S == (k % BlockSize) + 1
           R == node.blocks[(k \div BlockSize) + 1]
<1>1. /\ pc = "fill" /\ at < Len(content) /\ at' = at + 1
      /\ data' = [data EXCEPT ![R][S] = content[at + 1]]
      /\ UNCHANGED <<super, inode, pc, fresh, spoiled, bmap, imap, name, content, ino, node>>
  BY DEF Fill, bitmaps, args, history
<1>2. S \in 1 .. BlockSize /\ R \in Block /\ content[at + 1] \in Byte
  BY FillPlace
<1> HIDE DEF S, R
<1>3. data' \in Disks
  BY <1>1, <1>2, TypeFacts DEF Disks, Cell
<1>4. TypeOK'
  BY <1>1, <1>3, TypeFacts DEF TypeInv, TypeOK, Disks
<1>5. at' <= Len(content) /\ NewSize' = NewSize
  BY <1>1, TypeFacts DEF NewSize
<1> QED
  BY <1>1, <1>4, <1>5
  DEF TypeInv, PointersCover, NamedOp, BlockCounts, GrowCounts, Writing

\* The inode with its new size.
LEMMA InodeGrown ==
  ASSUME TypeInv, AppendInode
  PROVE  LET nd == [node EXCEPT !.size = NewSize] IN
         /\ nd \in InodeRec /\ nd.magic = node.magic /\ nd.count = node.count
         /\ nd.size = NewSize /\ nd.blocks = node.blocks
         /\ node.count = BlocksFor(NewSize)
<1>1. node.count = BlocksFor(NewSize)
  BY DEF AppendInode, TypeInv, GrowCounts
<1>2. node \in InodeRec /\ NewSize \in Nat
  BY TypeFacts
<1> QED
  BY <1>1, <1>2 DEF InodeRec

LEMMA AppendInodeType ==
  ASSUME TypeInv, AppendInode
  PROVE  TypeInv'
<1> DEFINE nd == [node EXCEPT !.size = NewSize]
<1>1. /\ inode' = [inode EXCEPT ![ino] = nd] /\ Return
      /\ UNCHANGED <<super, data, fresh, spoiled, bmap, imap>>
  BY DEF AppendInode, bitmaps, history
<1>2. nd \in InodeRec /\ nd.count = BlocksFor(nd.size)
  BY InodeGrown
<1> HIDE DEF nd
<1>3. inode' \in Tables /\ \A i \in Ino : inode'[i] = IF i = ino THEN nd ELSE inode[i]
  BY <1>1, <1>2, TypeFacts DEF Tables
<1>4. PointersCover'
  BY <1>2, <1>3 DEF TypeInv, PointersCover
<1> QED
  BY <1>1, <1>3, <1>4, TypeFacts, ReturnType DEF TypeInv, TypeOK

LEMMA StepType == TypeInv /\ [Next]_vars => TypeInv'
<1> SUFFICES ASSUME TypeInv, [Next]_vars PROVE TypeInv'
  OBVIOUS
<1>1. CASE Boot \/ Format \/ FormatRoot \/ PowerFails
  BY <1>1, BootType
<1>2. ASSUME NEW b \in RawBlocks, Overwrite(b) PROVE TypeInv'
  BY <1>2, OverwriteType
<1>3. ASSUME NEW n \in Name, NEW c \in Contents, Create(n, c) \/ AppendTo(n, c)
      PROVE  TypeInv'
  BY <1>3, CreateType, AppendToType
<1>4. CASE Write
  BY <1>4, CreateBlockType, CreateInodeType, LinkInSlotType, LinkInBlockType, LinkEndType,
     GrowType, GrownType, FillType, AppendInodeType DEF Write
<1>5. CASE UNCHANGED vars
  BY <1>5 DEF vars, disk, bitmaps, opVars, args, history, TypeInv, TypeOK, PointersCover, NamedOp,
     BlockCounts, GrowCounts, NewSize
<1> QED
  BY <1>1, <1>2, <1>3, <1>4, <1>5 DEF Next

LEMMA TypeInvariance == Spec => []TypeInv
BY InitType, StepType, PTL DEF Spec

\* Every state is well typed, also after a reboot or a write from outside has
\* spoiled the disk: no operation points an inode beyond its direct blocks or a
\* block pointer beyond the disk.
THEOREM DiskTypeCorrect == Spec => []TypeOK
<1>1. TypeInv => TypeOK
  BY DEF TypeInv
<1> QED
  BY <1>1, TypeInvariance, PTL


-----------------------------------------------------------------------------
(* The invariant of a disk that is not spoiled *)

\* The inode table after the root's inode is written.
After == [inode EXCEPT ![0] = node]

\* What a create takes, only the boot that formatted the disk gives.
BootOp ==
  /\ fresh => super /\ pc \in Writing \cup {"idle"}
  /\ pc = "format" => super
  /\ pc \in {"block", "link", "root"} => fresh

Disk == Sound(data, inode) /\ (fresh => Marked(data, inode, bmap, imap))

\* The inode of a file that is being created is nobody's.
CreateOp == pc \in {"block", "link"} => ino # 0 /\ ino \in imap /\ ~IsFile(data, inode, ino)

BlockOp == pc = "block" =>
  /\ node.magic /\ node.size = Len(content)
  /\ Spare(node, 1, at, data, inode, bmap)

LinkOp == pc = "link" =>
  /\ inode[ino].magic
  /\ Spare(inode[ino], 1, inode[ino].count, data, inode, bmap)

RootOp == pc = "root" => Sound(data, After) /\ Marked(data, After, bmap, imap)

\* The inode of a file that grows agrees with the disk up to the new blocks;
\* on another boot than the one that formatted the disk there are none.
GrowOp == pc \in {"grow", "fill"} =>
  /\ IsFile(data, inode, ino)
  /\ node.magic /\ node.size = inode[ino].size
  /\ inode[ino].count <= node.count
  /\ \A k \in 1 .. inode[ino].count : node.blocks[k] = inode[ino].blocks[k]
  /\ Spare(node, inode[ino].count + 1, node.count, data, inode, bmap)
  /\ fresh \/ node.count = inode[ino].count

OpInv == BootOp /\ Disk /\ CreateOp /\ BlockOp /\ LinkOp /\ RootOp /\ GrowOp

Safe == TypeInv /\ OpInv

IInv == TypeInv /\ (~spoiled => OpInv)

\* A root without blocks leads nowhere.
LEMMA EmptyRoot ==
  ASSUME NEW d, NEW t, t[0].count = 0
  PROVE  Sound(d, t) /\ \A i : ~IsFile(d, t, i)
<1>1. \A i : ~IsFile(d, t, i)
  BY DEF IsFile
<1> QED
  BY <1>1 DEF Sound, EntriesApart, FilesWritten, BlocksApart, Live

LEMMA InitInv == Init => IInv
<1> SUFFICES ASSUME Init PROVE OpInv
  BY InitType DEF IInv
<1>1. inode[0].count = 0
  BY BlankTypes, Sizes DEF Init
<1>2. Sound(data, inode)
  BY <1>1, EmptyRoot
<1> QED
  BY <1>2 DEF Init, OpInv, BootOp, Disk, CreateOp, BlockOp, LinkOp, RootOp, GrowOp, Writing

\* An operation that is over leaves a disk that is sound.
LEMMA ReturnInv ==
  ASSUME Safe, Return, UNCHANGED <<super, fresh>>,
         Sound(data, inode)', fresh => Marked(data, inode, bmap, imap)'
  PROVE  OpInv'
BY DEF Safe, Return, OpInv, BootOp, Disk, CreateOp, BlockOp, LinkOp, RootOp, GrowOp, Writing

LEMMA BootInv ==
  ASSUME Safe, Boot \/ Format \/ FormatRoot \/ PowerFails
  PROVE  OpInv'
<1>1. CASE Boot
  BY <1>1 DEF Boot, Safe, OpInv, BootOp, Disk, CreateOp, BlockOp, LinkOp, RootOp, GrowOp,
     Writing, disk, bitmaps, opVars, args, history
<1>2. CASE Format
  BY <1>2 DEF Format, Safe, OpInv, BootOp, Disk, CreateOp, BlockOp, LinkOp, RootOp, GrowOp,
     Writing, bitmaps, opVars, args, history
<1>3. CASE FormatRoot
  <2>1. NewInode(0, 0).count = 0
    BY NewInodeType, Sizes
  <2>2. inode'[0].count = 0
    BY <1>3, <2>1, TypeFacts, Sizes DEF FormatRoot, Safe, Tables
  <2>3. Sound(data, inode') /\ \A i : ~IsFile(data, inode', i)
    BY <2>2, EmptyRoot
  <2>4. Marked(data, inode', bmap, imap')
    <3>1. 0 \in imap' /\ \A k \in 1 .. inode'[0].count : FALSE
      BY <1>3, <2>2 DEF FormatRoot
    <3> QED
      BY <2>3, <3>1 DEF Marked, Live
  <2>5. super
    BY <1>3 DEF FormatRoot, Safe, OpInv, BootOp
  <2> QED
    BY <1>3, <2>3, <2>4, <2>5
    DEF FormatRoot, OpInv, BootOp, Disk, CreateOp, BlockOp, LinkOp, RootOp, GrowOp, Writing
<1>4. CASE PowerFails
  <2>1. Sound(data, inode)'
    BY <1>4 DEF PowerFails, Safe, OpInv, Disk, disk
  <2> QED
    BY <1>4, <2>1
    DEF PowerFails, OpInv, BootOp, Disk, CreateOp, BlockOp, LinkOp, RootOp, GrowOp, Writing
<1> QED
  BY <1>1, <1>2, <1>3, <1>4

\* The blocks of the root are in use.
LEMMA RootInUse ==
  ASSUME NEW k \in 1 .. inode[0].count
  PROVE  inode[0].blocks[k] \in BlocksInUse
<1>1. <<0, k>> \in InUse
  BY DEF InUse, Pointers
<1> QED
  BY <1>1 DEF BlocksInUse

\* A sector that is not in use may be written by anybody.
LEMMA OverwriteInv ==
  ASSUME Safe, NEW b \in RawBlocks, Overwrite(b), ~spoiled'
  PROVE  OpInv'
<1>1. /\ pc = "idle" /\ b \notin BlocksInUse
      /\ UNCHANGED <<super, inode, pc, bmap, imap, fresh>>
  BY DEF Overwrite, bitmaps
<1>2. PICK w \in Byte : data' = [data EXCEPT ![b] = [s \in 1 .. BlockSize |-> w]]
  BY DEF Overwrite
<1>3. inode[0] \in InodeRec /\ data \in Disks
  BY TypeFacts DEF Safe
<1>4. \A k \in 1 .. inode[0].count : data'[inode[0].blocks[k]] = data[inode[0].blocks[k]]
  BY <1>1, <1>2, <1>3, RootInUse, RecordTypes DEF Disks
<1>5. /\ Sound(data, inode) => Sound(data', inode)
      /\ Marked(data, inode, bmap, imap) => Marked(data', inode, bmap, imap)
  BY <1>4, OtherData
<1> QED
  BY <1>1, <1>5
  DEF Safe, OpInv, BootOp, Disk, CreateOp, BlockOp, LinkOp, RootOp, GrowOp, Writing

LEMMA CreateInv ==
  ASSUME Safe, NEW n \in Name, NEW c \in Contents, Create(n, c), ~spoiled'
  PROVE  OpInv'
<1> DEFINE f == First(FreeInodes)
<1>1. f \in Ino /\ f \notin imap
  BY FreeInodeType DEF Create, Safe, TypeInv
<1>2. Len(c) \in Nat
  BY ContentsAreBytes
<1>3. fresh /\ Marked(data, inode, bmap, imap) /\ Sound(data, inode)
  BY AllocatedHistory DEF Create, Safe, TypeInv, OpInv, Disk
<1>4. f # 0 /\ ~IsFile(data, inode, f)
  BY <1>1, <1>3, Sizes DEF Marked, Live
<1>5. Marked(data, inode, bmap, imap')
  BY <1>3, MoreMarks DEF Create
<1>6. CASE BlocksFor(Len(c)) > MaxDirect
  BY <1>3, <1>5, <1>6, ReturnInv DEF Create, disk
<1>7. CASE ~(BlocksFor(Len(c)) > MaxDirect)
  <2>1. BlocksFor(Len(c)) \in 0 .. MaxDirect
    BY <1>2, <1>7, BlocksForType, Sizes
  <2>2. node' = NewInode(Len(c), BlocksFor(Len(c)))
    BY <1>7 DEF Create
  <2>3. BlockOp'
    BY <1>2, <1>7, <2>1, <2>2, NewInodeType DEF Create, BlockOp, Spare, disk
  <2> QED
    BY <1>1, <1>3, <1>4, <1>5, <1>7, <2>3
    DEF Create, Safe, OpInv, BootOp, Disk, CreateOp, LinkOp, RootOp, GrowOp, Writing, disk
<1> QED
  BY <1>6, <1>7

LEMMA CreateFacts ==
  ASSUME Safe, pc \in {"block", "link", "root"}
  PROVE  /\ fresh /\ Sound(data, inode) /\ Marked(data, inode, bmap, imap)
         /\ inode \in Tables /\ data \in Disks /\ node \in InodeRec /\ ino \in Ino
         /\ inode[0] \in InodeRec /\ inode[ino] \in InodeRec
BY TypeFacts DEF Safe, OpInv, BootOp, Disk

\* The root's blocks are marked, so a free one is none of them.
LEMMA RootMarked ==
  ASSUME NEW d, NEW t, NEW bm, NEW im, Marked(d, t, bm, im), NEW k \in 1 .. t[0].count
  PROVE  t[0].blocks[k] \in bm
BY Sizes DEF Marked, Live

LEMMA CreateBlockInv ==
  ASSUME Safe, CreateBlock
  PROVE  OpInv'
<1> DEFINE b == First(FreeBlocks)
<1>1. /\ fresh /\ Sound(data, inode) /\ Marked(data, inode, bmap, imap)
      /\ inode \in Tables /\ data \in Disks /\ node \in InodeRec
  BY CreateFacts DEF CreateBlock
<1>2. CASE FreeBlocks = {}
  <2>1. Return /\ UNCHANGED <<super, inode, data, fresh, bmap, imap>>
    BY <1>2 DEF CreateBlock
  <2> QED
    BY <1>1, <2>1, ReturnInv
<1>3. CASE FreeBlocks # {}
  <2>1. /\ bmap' = bmap \cup {b}
        /\ data' = [data EXCEPT ![b] = Piece]
        /\ at' = at + 1
        /\ UNCHANGED <<pc, name, content, ino, super, inode, fresh, imap>>
        /\ pc = "block"
    BY <1>3 DEF CreateBlock, AllocBlock, args
  <2>2. b \in Block /\ b \notin bmap
    BY <1>3, FreeBlockType DEF Safe, TypeInv
  <2>3. /\ at \in Nat /\ at + 1 \in Ptr
        /\ node'.magic = node.magic /\ node'.size = node.size
        /\ node'.blocks[at + 1] = b
        /\ \A m \in Ptr : m # at + 1 => node'.blocks[m] = node.blocks[m]
    BY <1>3, TypeFacts, BlockAdded DEF Safe
  <2>4. \A k \in 1 .. at : node'.blocks[k] = node.blocks[k]
    <3>1. ASSUME NEW k \in 1 .. at PROVE k \in Ptr /\ k # at + 1
      BY <2>3, Sizes DEF Ptr
    <3> QED
      BY <2>3, <3>1
  <2>5. \A k \in 1 .. inode[0].count : data'[inode[0].blocks[k]] = data[inode[0].blocks[k]]
    BY <1>1, <2>1, <2>2, RootMarked DEF Disks
  <2>6. /\ Sound(data', inode) /\ Marked(data', inode, bmap, imap)
        /\ \A i : IsFile(data', inode, i) <=> IsFile(data, inode, i)
        /\ \A nd, lo, hi, bm : Spare(nd, lo, hi, data, inode, bm) => Spare(nd, lo, hi, data', inode, bm)
    BY <1>1, <2>5, OtherData
  <2>7. Marked(data', inode, bmap', imap)
    BY <2>1, <2>6, MoreMarks
  <2>8. Spare(node, 1, at, data, inode, bmap) /\ node.magic /\ node.size = Len(content)
    BY <2>1 DEF Safe, OpInv, BlockOp
  <2>9. Spare(node', 1, at + 1, data, inode, bmap \cup {b})
    BY <1>1, <2>2, <2>3, <2>4, <2>8, SpareGrows
  <2>10. BlockOp'
    BY <2>1, <2>3, <2>6, <2>8, <2>9 DEF BlockOp
  <2>11. CreateOp'
    BY <2>1, <2>6 DEF Safe, OpInv, CreateOp
  <2> QED
    BY <1>1, <2>1, <2>6, <2>7, <2>10, <2>11
    DEF Safe, OpInv, BootOp, Disk, LinkOp, RootOp, GrowOp, Writing
<1> QED
  BY <1>2, <1>3

LEMMA CreateInodeInv ==
  ASSUME Safe, CreateInode
  PROVE  OpInv'
<1>1. /\ fresh /\ Sound(data, inode) /\ Marked(data, inode, bmap, imap)
      /\ inode \in Tables /\ node \in InodeRec /\ ino \in Ino
  BY CreateFacts DEF CreateInode
<1>2. /\ pc = "block" /\ at = node.count /\ pc' = "link"
      /\ inode' = [inode EXCEPT ![ino] = node]
      /\ UNCHANGED <<super, data, fresh, bmap, imap, name, content, ino, node, at>>
  BY DEF CreateInode, bitmaps, opVars, args, history
<1>3. /\ ino # 0 /\ ino \in imap /\ ~IsFile(data, inode, ino)
      /\ node.magic
      /\ Spare(node, 1, node.count, data, inode, bmap)
  BY <1>2 DEF Safe, OpInv, CreateOp, BlockOp
<1>4. /\ \A i : IsFile(data, inode', i) <=> IsFile(data, inode, i)
      /\ Sound(data, inode') /\ Marked(data, inode', bmap, imap)
      /\ Spare(node, 1, node.count, data, inode', bmap)
  BY <1>1, <1>2, <1>3, OtherInode
<1>5. inode'[ino] = node
  BY <1>1, <1>2 DEF Tables
<1>6. LinkOp' /\ CreateOp'
  BY <1>2, <1>3, <1>4, <1>5 DEF LinkOp, CreateOp
<1> QED
  BY <1>1, <1>2, <1>4, <1>6 DEF Safe, OpInv, BootOp, Disk, BlockOp, RootOp, GrowOp, Writing

LEMMA LinkFacts ==
  ASSUME Safe, pc = "link"
  PROVE  /\ fresh /\ Sound(data, inode) /\ Marked(data, inode, bmap, imap)
         /\ inode \in Tables /\ data \in Disks /\ inode[0] \in InodeRec
         /\ ino \in Ino /\ ino # 0 /\ ino \in imap /\ ~IsFile(data, inode, ino)
         /\ inode[ino].magic /\ inode[ino].count = BlocksFor(inode[ino].size)
         /\ Spare(inode[ino], 1, inode[ino].count, data, inode, bmap)
         /\ NewEntry \in Entry /\ NewEntry.ino = ino /\ Zero \notin Entry
<1>1. /\ fresh /\ Sound(data, inode) /\ Marked(data, inode, bmap, imap)
      /\ inode \in Tables /\ data \in Disks /\ inode[0] \in InodeRec /\ ino \in Ino
  BY CreateFacts
<1>2. /\ ino # 0 /\ ino \in imap /\ ~IsFile(data, inode, ino)
      /\ inode[ino].magic
      /\ Spare(inode[ino], 1, inode[ino].count, data, inode, bmap)
  BY DEF Safe, OpInv, CreateOp, LinkOp
<1>3. inode[ino].count = BlocksFor(inode[ino].size)
  BY <1>1, <1>2 DEF Safe, TypeInv, PointersCover
<1>4. NewEntry \in Entry /\ NewEntry.ino = ino /\ Zero \notin Entry
  BY EntryType DEF Safe, Writing
<1> QED
  BY <1>1, <1>2, <1>3, <1>4

\* A cell with an entry that leads nowhere is free; there is none.
LEMMA FreeIsZero ==
  ASSUME TypeInv, FilesWritten(data, inode)
  PROVE  FreeSlots = {k \in Offsets(inode[0]) : CellAt(inode[0], k) = Zero}
<1>1. ASSUME NEW k \in Offsets(inode[0]), CellAt(inode[0], k) \in [name : Name, ino : {0}]
      PROVE  FALSE
  <2>1. CellAt(inode[0], k) \in Entry /\ CellAt(inode[0], k).ino = 0
    BY <1>1, Sizes DEF Entry
  <2>2. IsFile(data, inode, 0)
    BY <1>1, <2>1, RootOffset DEF TypeInv, IsFile
  <2> QED
    BY <2>2, Sizes DEF FilesWritten
<1> QED
  BY <1>1 DEF FreeSlots

\* Nothing is spare about no pointer at all.
LEMMA NoneSpare ==
  ASSUME NEW nd, NEW lo \in Nat, NEW hi \in Nat, lo = hi + 1, NEW d, NEW t, NEW bm
  PROVE  Spare(nd, lo, hi, d, t, bm)
<1>1. \A k \in lo .. hi : FALSE
  OBVIOUS
<1> QED
  BY <1>1 DEF Spare

\* The operation goes from the directory's sector to the root's inode.
LEMMA ToRoot ==
  ASSUME Safe, pc' = "root", fresh, UNCHANGED <<super, fresh>>,
         Sound(data, inode)', Marked(data, inode, bmap, imap)',
         Sound(data, After)', Marked(data, After, bmap, imap)'
  PROVE  OpInv'
BY DEF Safe, OpInv, BootOp, Disk, CreateOp, BlockOp, LinkOp, RootOp, GrowOp, Writing


LEMMA LinkInSlotInv ==
  ASSUME Safe, LinkInSlot
  PROVE  OpInv'
<1> DEFINE k0 == First(FreeSlots)
           K == (k0 \div BlockSize) + 1
           S == (k0 % BlockSize) + 1
           R == inode[0].blocks[K]
<1>1. /\ fresh /\ Sound(data, inode) /\ Marked(data, inode, bmap, imap)
      /\ inode \in Tables /\ data \in Disks /\ inode[0] \in InodeRec
      /\ ino \in Ino /\ ino # 0 /\ ino \in imap /\ ~IsFile(data, inode, ino)
      /\ inode[ino].magic /\ inode[ino].count = BlocksFor(inode[ino].size)
      /\ Spare(inode[ino], 1, inode[ino].count, data, inode, bmap)
      /\ NewEntry \in Entry /\ NewEntry.ino = ino /\ Zero \notin Entry
  BY LinkFacts DEF LinkInSlot
<1>2. /\ data' = [data EXCEPT ![R][S] = NewEntry]
      /\ node' = [inode[0] EXCEPT !.size = @ + 1]
      /\ pc' = "root"
      /\ UNCHANGED <<super, inode, fresh, bmap, imap, ino>>
  BY DEF LinkInSlot, bitmaps, args, history
<1>3. k0 \in FreeSlots
  BY FirstSlot DEF LinkInSlot, Safe
<1>4. /\ K \in 1 .. inode[0].count /\ S \in 1 .. BlockSize /\ R \in Block
      /\ data[R][S] = Zero
  <2>1. CellAt(inode[0], k0) = Zero
    BY <1>1, <1>3, FreeIsZero DEF Safe, Sound
  <2> QED
    BY <1>3, <2>1, SlotPlace DEF CellAt, Safe
<1> HIDE DEF k0, K, S, R
<1>8. /\ node' \in InodeRec /\ node'.count = inode[0].count /\ node'.blocks = inode[0].blocks
  BY <1>1, <1>2 DEF InodeRec
<1>10. ASSUME NEW k \in 1 .. inode[0].count, NEW s \in 1 .. BlockSize
       PROVE  data'[inode[0].blocks[k]][s] =
                IF k = K /\ s = S THEN NewEntry ELSE data[inode[0].blocks[k]][s]
  <2>1. inode[0].blocks[k] = R => k = K
    BY <1>1, <1>4, Sizes DEF R, Sound, BlocksApart, Live
  <2>2. inode[0].blocks[k] \in Block
    BY <1>1, RecordTypes
  <2> QED
    BY <1>1, <1>2, <1>4, <2>1, <2>2 DEF Disks, R
<1>11. data[inode[0].blocks[K]][S] = Zero
  BY <1>4 DEF R
<1>12. \A i : IsFile(data', inode, i) <=> (IsFile(data, inode, i) \/ i = ino)
  BY <1>1, <1>4, <1>10, <1>11 DEF IsFile
<1>13. EntriesApart(data', inode)
  <2> SUFFICES ASSUME NEW k \in 1 .. inode[0].count, NEW m \in 1 .. inode[0].count,
                      NEW s \in 1 .. BlockSize, NEW u \in 1 .. BlockSize,
                      data'[inode[0].blocks[k]][s] \in Entry,
                      data'[inode[0].blocks[m]][u] \in Entry,
                      data'[inode[0].blocks[k]][s].ino = data'[inode[0].blocks[m]][u].ino
               PROVE  k = m /\ s = u
    BY DEF EntriesApart
  <2>1. CASE k = K /\ s = S
    BY <1>1, <1>10, <2>1 DEF IsFile
  <2>2. CASE m = K /\ u = S
    BY <1>1, <1>10, <2>2 DEF IsFile
  <2>3. CASE ~(k = K /\ s = S) /\ ~(m = K /\ u = S)
    <3>1. data'[inode[0].blocks[k]][s] = data[inode[0].blocks[k]][s]
      BY <1>10, <2>3
    <3>2. data'[inode[0].blocks[m]][u] = data[inode[0].blocks[m]][u]
      BY <1>10, <2>3
    <3>3. EntriesApart(data, inode)
      BY <1>1 DEF Sound
    <3> QED
      BY <3>1, <3>2, <3>3 DEF EntriesApart
  <2> QED
    BY <2>1, <2>2, <2>3
<1>14. inode[0].count \in Nat
  BY <1>1, RecordTypes
<1>15. Spare(inode[0], inode[0].count + 1, inode[0].count, data, inode, bmap)
  BY <1>14, NoneSpare
<1>16. \A k \in inode[0].count + 1 .. inode[0].count : FALSE
  BY <1>14
<1>17. Sound(data', inode) /\ Marked(data', inode, bmap, imap)
  BY <1>1, <1>12, <1>13, <1>14, <1>15, <1>16, FileAppears
<1>18. /\ After' \in Tables /\ After'[0] = node'
       /\ \A i \in Ino \ {0} : After'[i] = inode[i]
  BY <1>1, <1>2, <1>8, Sizes DEF After, Tables
<1>19. \A i : IsFile(data', After', i) <=> (IsFile(data, inode, i) \/ i = ino)
  BY <1>8, <1>12, <1>18 DEF IsFile
<1>20. EntriesApart(data', After')
  BY <1>8, <1>13, <1>18 DEF EntriesApart
<1>21. Spare(After'[0], inode[0].count + 1, After'[0].count, data, inode, bmap)
  <2>1. After'[0].count = inode[0].count /\ inode[0].count + 1 \in Nat
    BY <1>8, <1>14, <1>18
  <2> QED
    BY <1>14, <2>1, NoneSpare
<1>22. Sound(data', After') /\ Marked(data', After', bmap, imap)
  BY <1>1, <1>8, <1>14, <1>16, <1>18, <1>19, <1>20, <1>21, FileAppears
<1> QED
  BY <1>1, <1>2, <1>17, <1>22, ToRoot

LEMMA LinkInBlockInv ==
  ASSUME Safe, LinkInBlock
  PROVE  OpInv'
<1> DEFINE b == First(FreeBlocks)
           c == inode[0].count
           New == [BlankBlock EXCEPT ![1] = NewEntry]
<1>1. /\ fresh /\ Sound(data, inode) /\ Marked(data, inode, bmap, imap)
      /\ inode \in Tables /\ data \in Disks /\ inode[0] \in InodeRec
      /\ ino \in Ino /\ ino # 0 /\ ino \in imap /\ ~IsFile(data, inode, ino)
      /\ inode[ino].magic /\ inode[ino].count = BlocksFor(inode[ino].size)
      /\ Spare(inode[ino], 1, inode[ino].count, data, inode, bmap)
      /\ NewEntry \in Entry /\ NewEntry.ino = ino /\ Zero \notin Entry
  BY LinkFacts DEF LinkInBlock
<1>2. /\ bmap' = bmap \cup {b}
      /\ data' = [data EXCEPT ![b] = New]
      /\ pc = "link" /\ pc' = "root"
      /\ UNCHANGED <<super, inode, fresh, imap, ino>>
  BY DEF LinkInBlock, AllocBlock, args
<1>3. b \in Block /\ b \notin bmap
  BY FreeBlockType DEF LinkInBlock, Safe, TypeInv
<1>5. /\ New \in [1 .. BlockSize -> Cell] /\ New[1] = NewEntry /\ 1 \in 1 .. BlockSize
      /\ \A s \in 1 .. BlockSize : New[s] \in Entry => s = 1
  BY <1>2, NewBlock DEF Safe, Writing
<1>8. /\ c \in Nat /\ c + 1 \in Ptr
      /\ node' \in InodeRec /\ node'.count = c + 1 /\ node'.blocks[c + 1] = b
      /\ \A k \in Ptr : k # c + 1 => node'.blocks[k] = inode[0].blocks[k]
  BY RootBlockAdded DEF Safe
<1> HIDE DEF b, New
<1>9. \A k \in 1 .. c : node'.blocks[k] = inode[0].blocks[k]
  <2>1. ASSUME NEW k \in 1 .. c PROVE k \in Ptr /\ k # c + 1
    BY <1>8, Sizes DEF Ptr
  <2> QED
    BY <1>8, <2>1
<1>11. \A k \in 1 .. c : data'[inode[0].blocks[k]] = data[inode[0].blocks[k]]
  BY <1>1, <1>2, <1>3, RootMarked DEF Disks
<1>12. Sound(data', inode) /\ Marked(data', inode, bmap, imap)
  BY <1>1, <1>11, OtherData
<1>13. Marked(data', inode, bmap', imap)
  BY <1>2, <1>12, MoreMarks
<1>14. /\ After' \in Tables /\ After'[0] = node'
       /\ \A i \in Ino \ {0} : After'[i] = inode[i]
  BY <1>1, <1>2, <1>8, Sizes DEF After, Tables
<1>15. data'[b] = New
  BY <1>1, <1>2, <1>3 DEF Disks
<1>16. ASSUME NEW k \in 1 .. c + 1
       PROVE  \/ k \in 1 .. c /\ data'[node'.blocks[k]] = data[inode[0].blocks[k]]
              \/ k = c + 1 /\ data'[node'.blocks[k]] = New
  <2>1. k \in 1 .. c \/ k = c + 1
    BY <1>8
  <2> QED
    BY <1>8, <1>9, <1>11, <1>15, <2>1
<1>17. ASSUME NEW i PROVE IsFile(data', After', i) <=> (IsFile(data, inode, i) \/ i = ino)
  <2>1. ASSUME IsFile(data, inode, i) PROVE IsFile(data', After', i)
    <3>1. PICK k \in 1 .. c, s \in 1 .. BlockSize :
            data[inode[0].blocks[k]][s] \in Entry /\ data[inode[0].blocks[k]][s].ino = i
      BY <2>1 DEF IsFile
    <3>2. k \in 1 .. c + 1 /\ data'[node'.blocks[k]] = data[inode[0].blocks[k]]
      BY <1>8, <1>9, <1>11
    <3> QED
      BY <1>8, <1>14, <3>1, <3>2 DEF IsFile
  <2>2. ASSUME i = ino PROVE IsFile(data', After', i)
    <3>1. c + 1 \in 1 .. c + 1
      BY <1>8
    <3> QED
      BY <1>1, <1>5, <1>8, <1>14, <1>15, <2>2, <3>1 DEF IsFile
  <2>3. ASSUME IsFile(data', After', i) PROVE IsFile(data, inode, i) \/ i = ino
    <3>1. PICK k \in 1 .. c + 1, s \in 1 .. BlockSize :
            data'[node'.blocks[k]][s] \in Entry /\ data'[node'.blocks[k]][s].ino = i
      BY <1>8, <1>14, <2>3 DEF IsFile
    <3> QED
      BY <1>1, <1>5, <1>16, <3>1 DEF IsFile
  <2> QED
    BY <2>1, <2>2, <2>3
<1>18. EntriesApart(data', After')
  <2> SUFFICES ASSUME NEW k \in 1 .. c + 1, NEW m \in 1 .. c + 1,
                      NEW s \in 1 .. BlockSize, NEW u \in 1 .. BlockSize,
                      data'[node'.blocks[k]][s] \in Entry,
                      data'[node'.blocks[m]][u] \in Entry,
                      data'[node'.blocks[k]][s].ino = data'[node'.blocks[m]][u].ino
               PROVE  k = m /\ s = u
    BY <1>8, <1>14 DEF EntriesApart
  <2>1. CASE k = c + 1 /\ m = c + 1
    BY <1>5, <1>8, <1>15, <2>1
  <2>2. CASE k = c + 1 /\ m \in 1 .. c
    <3>1. data'[node'.blocks[k]][s].ino = ino
      BY <1>1, <1>5, <1>8, <1>15, <2>2
    <3>2. data'[node'.blocks[m]] = data[inode[0].blocks[m]]
      BY <1>9, <1>11, <2>2
    <3> QED
      BY <1>1, <2>2, <3>1, <3>2 DEF IsFile
  <2>3. CASE k \in 1 .. c /\ m = c + 1
    <3>1. data'[node'.blocks[m]][u].ino = ino
      BY <1>1, <1>5, <1>8, <1>15, <2>3
    <3>2. data'[node'.blocks[k]] = data[inode[0].blocks[k]]
      BY <1>9, <1>11, <2>3
    <3> QED
      BY <1>1, <2>3, <3>1, <3>2 DEF IsFile
  <2>4. CASE k \in 1 .. c /\ m \in 1 .. c
    <3>1. /\ data'[node'.blocks[k]] = data[inode[0].blocks[k]]
          /\ data'[node'.blocks[m]] = data[inode[0].blocks[m]]
      BY <1>9, <1>11, <2>4
    <3>2. EntriesApart(data, inode)
      BY <1>1 DEF Sound
    <3> QED
      BY <2>4, <3>1, <3>2 DEF EntriesApart
  <2> QED
    BY <1>16, <2>1, <2>2, <2>3, <2>4
<1>19. Spare(After'[0], c + 1, After'[0].count, data, inode, bmap')
  <2>1. Spare(inode[0], c + 1, c, data, inode, bmap)
    BY <1>8, NoneSpare
  <2>2. \A k \in c + 1 .. c : node'.blocks[k] = inode[0].blocks[k]
    BY <1>8
  <2>3. Spare(node', c + 1, c + 1, data, inode, bmap \cup {b})
    BY <1>1, <1>3, <1>8, <2>1, <2>2, SpareGrows
  <2> QED
    BY <1>2, <1>8, <1>14, <2>3
<1>20. ASSUME NEW k \in c + 1 .. c + 1, NEW m \in 1 .. inode[ino].count
       PROVE  node'.blocks[k] # inode[ino].blocks[m]
  <2>1. k = c + 1
    BY <1>8
  <2> QED
    BY <1>1, <1>3, <1>8, <2>1 DEF Spare
<1>21. /\ Marked(data, inode, bmap', imap)
       /\ Spare(inode[ino], 1, inode[ino].count, data, inode, bmap')
  BY <1>1, <1>2, MoreMarks
<1>22. Sound(data', After') /\ Marked(data', After', bmap', imap)
  <2>1. c <= After'[0].count
    BY <1>8, <1>14
  <2>2. \A k \in 1 .. c : After'[0].blocks[k] = inode[0].blocks[k]
    BY <1>9, <1>14
  <2>3. \A k \in c + 1 .. After'[0].count, m \in 1 .. inode[ino].count :
          After'[0].blocks[k] # inode[ino].blocks[m]
    BY <1>8, <1>14, <1>20
  <2> QED
    BY <1>1, <1>14, <1>17, <1>18, <1>19, <1>21, <2>1, <2>2, <2>3, FileAppears
<1> QED
  BY <1>1, <1>2, <1>12, <1>13, <1>22, ToRoot

LEMMA LinkEndInv ==
  ASSUME Safe, LinkNowhere \/ LinkRoot
  PROVE  OpInv'
<1>1. CASE LinkNowhere
  <2>1. fresh /\ Sound(data, inode) /\ Marked(data, inode, bmap, imap)
    BY <1>1, LinkFacts DEF LinkNowhere
  <2> QED
    BY <1>1, <2>1, ReturnInv DEF LinkNowhere, disk, bitmaps, history
<1>2. CASE LinkRoot
  <2>1. Sound(data, After) /\ Marked(data, After, bmap, imap)
    BY <1>2 DEF LinkRoot, Safe, OpInv, RootOp
  <2>2. inode' = After
    BY <1>2 DEF LinkRoot, After
  <2> QED
    BY <1>2, <2>1, <2>2, ReturnInv DEF LinkRoot, bitmaps, history
<1> QED
  BY <1>1, <1>2

LEMMA AppendToInv ==
  ASSUME Safe, NEW n \in Name, NEW c \in Contents, AppendTo(n, c)
  PROVE  OpInv'
<1> DEFINE f == Lookup(n)
<1>1. f \in Ino /\ f # 0 /\ IsFile(data, inode, f)
  BY LookupFile DEF AppendTo, Safe, TypeInv
<1>2. /\ Sound(data, inode) /\ (fresh => Marked(data, inode, bmap, imap))
      /\ inode[f] \in InodeRec
  BY <1>1, TypeFacts DEF Safe, OpInv, Disk, Tables
<1>3. inode[f].magic /\ inode[f].count \in Nat
  BY <1>1, <1>2, RecordTypes DEF Sound, FilesWritten
<1>4. /\ ino' = f /\ node' = inode[f] /\ pc' = "grow" /\ pc = "idle"
      /\ UNCHANGED <<super, inode, data, fresh, bmap, imap>>
  BY DEF AppendTo, disk, bitmaps, history
<1> HIDE DEF f
<1>5. Spare(inode[f], inode[f].count + 1, inode[f].count, data, inode, bmap)
  BY <1>3, NoneSpare
<1>6. GrowOp'
  BY <1>1, <1>3, <1>4, <1>5 DEF GrowOp
<1> QED
  BY <1>2, <1>4, <1>6 DEF Safe, OpInv, BootOp, Disk, CreateOp, BlockOp, LinkOp, RootOp, Writing

LEMMA GrowFacts ==
  ASSUME Safe, pc \in {"grow", "fill"}
  PROVE  /\ Sound(data, inode) /\ (fresh => Marked(data, inode, bmap, imap))
         /\ inode \in Tables /\ data \in Disks /\ node \in InodeRec /\ ino \in Ino
         /\ inode[ino] \in InodeRec /\ ino # 0 /\ IsFile(data, inode, ino)
         /\ node.magic /\ node.size = inode[ino].size
         /\ inode[ino].count <= node.count
         /\ \A k \in 1 .. inode[ino].count : node.blocks[k] = inode[ino].blocks[k]
         /\ Spare(node, inode[ino].count + 1, node.count, data, inode, bmap)
         /\ fresh \/ node.count = inode[ino].count
         /\ at \in Nat /\ node.count \in Nat /\ inode[ino].count \in Nat
<1>1. /\ inode \in Tables /\ data \in Disks /\ node \in InodeRec /\ ino \in Ino
      /\ inode[ino] \in InodeRec
      /\ at \in Nat /\ node.count \in Nat /\ inode[ino].count \in Nat
  BY TypeFacts DEF Safe
<1>2. ino # 0
  BY DEF Safe, TypeInv, GrowCounts
<1> QED
  BY <1>1, <1>2 DEF Safe, OpInv, Disk, GrowOp

LEMMA GrowInv ==
  ASSUME Safe, Grow, ~spoiled'
  PROVE  OpInv'
<1> DEFINE b == First(FreeBlocks)
           c == inode[ino].count
<1>1. /\ Sound(data, inode) /\ (fresh => Marked(data, inode, bmap, imap))
      /\ IsFile(data, inode, ino) /\ node.magic /\ node.size = inode[ino].size
      /\ c <= node.count
      /\ \A k \in 1 .. c : node.blocks[k] = inode[ino].blocks[k]
      /\ Spare(node, c + 1, node.count, data, inode, bmap)
      /\ at \in Nat /\ node.count \in Nat /\ c \in Nat
  BY GrowFacts DEF Grow
<1>2. CASE FreeBlocks = {}
  <2>1. Return /\ UNCHANGED <<super, inode, data, fresh, bmap, imap>>
    BY <1>2 DEF Grow, disk
  <2> QED
    BY <1>1, <2>1, ReturnInv
<1>3. CASE FreeBlocks # {}
  <2>1. /\ bmap' = bmap \cup {b} /\ Allocated
        /\ UNCHANGED <<pc, ino, super, inode, data, fresh, imap>>
        /\ pc = "grow"
    BY <1>3 DEF Grow, AllocBlock, disk, args
  <2>2. fresh /\ Marked(data, inode, bmap, imap)
    BY <1>1, <2>1, AllocatedHistory DEF Safe, TypeInv
  <2>3. b \in Block /\ b \notin bmap
    BY <1>3, FreeBlockType DEF Safe, TypeInv
  <2>4. /\ at = node.count /\ at + 1 \in Ptr
        /\ node'.magic = node.magic /\ node'.size = node.size /\ node'.count = at + 1
        /\ node'.blocks[at + 1] = b
        /\ \A m \in Ptr : m # at + 1 => node'.blocks[m] = node.blocks[m]
    BY <1>3, GrowthAdded DEF Safe
  <2> HIDE DEF b
  <2>5. \A k \in 1 .. at : node'.blocks[k] = node.blocks[k]
    <3>1. ASSUME NEW k \in 1 .. at PROVE k \in Ptr /\ k # at + 1
      BY <1>1, <2>4, Sizes DEF Ptr
    <3> QED
      BY <2>4, <3>1
  <2>6. Marked(data, inode, bmap', imap)
    BY <2>1, <2>2, MoreMarks
  <2>7. Spare(node', c + 1, at + 1, data, inode, bmap \cup {b})
    <3>1. c + 1 \in Nat /\ c + 1 <= at + 1
      BY <1>1, <2>4
    <3>2. \A k \in c + 1 .. at : node'.blocks[k] = node.blocks[k]
      BY <1>1, <2>5
    <3>3. Spare(node, c + 1, at, data, inode, bmap)
      BY <1>1, <2>4
    <3> QED
      BY <1>1, <2>2, <2>3, <2>4, <3>1, <3>2, <3>3, SpareGrows
  <2>8. \A k \in 1 .. c : node'.blocks[k] = inode[ino].blocks[k]
    BY <1>1, <2>4, <2>5
  <2>9. GrowOp'
    BY <1>1, <2>1, <2>2, <2>4, <2>7, <2>8 DEF GrowOp
  <2> QED
    BY <1>1, <2>1, <2>6, <2>9
    DEF Safe, OpInv, BootOp, Disk, CreateOp, BlockOp, LinkOp, RootOp, Writing
<1> QED
  BY <1>2, <1>3

LEMMA GrownInv ==
  ASSUME Safe, Grown
  PROVE  OpInv'
BY DEF Grown, Safe, OpInv, BootOp, Disk, CreateOp, BlockOp, LinkOp, RootOp, GrowOp, Writing,
   disk, bitmaps, args, history

\* No block of the inode that grows is one of the root's.
LEMMA GrowingIsApart ==
  ASSUME Safe, pc \in {"grow", "fill"},
         NEW k \in 1 .. node.count, NEW m \in 1 .. inode[0].count
  PROVE  node.blocks[k] # inode[0].blocks[m]
<1>1. /\ Sound(data, inode) /\ ino \in Ino /\ ino # 0 /\ IsFile(data, inode, ino)
      /\ \A p \in 1 .. inode[ino].count : node.blocks[p] = inode[ino].blocks[p]
      /\ Spare(node, inode[ino].count + 1, node.count, data, inode, bmap)
      /\ node.count \in Nat /\ inode[ino].count \in Nat
  BY GrowFacts
<1>2. Live(data, inode, 0) /\ Live(data, inode, ino)
  BY <1>1 DEF Live
<1>3. CASE k \in 1 .. inode[ino].count
  BY <1>1, <1>2, <1>3, Sizes DEF Sound, BlocksApart
<1>4. CASE k \in inode[ino].count + 1 .. node.count
  BY <1>1, <1>2, <1>4, Sizes DEF Spare
<1> QED
  BY <1>1, <1>3, <1>4

LEMMA FillInv ==
  ASSUME Safe, Fill
  PROVE  OpInv'
<1> DEFINE k == node.size + at
           K == (k \div BlockSize) + 1
           S == (k % BlockSize) + 1
<1>1. /\ pc = "fill"
      /\ data' = [data EXCEPT ![node.blocks[K]][S] = content[at + 1]]
      /\ UNCHANGED <<super, inode, pc, fresh, bmap, imap, ino, node>>
  BY DEF Fill, bitmaps, args, history
<1>2. /\ data \in Disks /\ inode[0] \in InodeRec
      /\ Sound(data, inode) /\ (fresh => Marked(data, inode, bmap, imap))
  BY <1>1, GrowFacts, TypeFacts DEF Safe
<1>3. K \in 1 .. node.count /\ node.blocks[K] \in Block
  BY FillPlace DEF Safe
<1> HIDE DEF K, S
<1>4. \A m \in 1 .. inode[0].count : data'[inode[0].blocks[m]] = data[inode[0].blocks[m]]
  BY <1>1, <1>2, <1>3, GrowingIsApart, RecordTypes DEF Disks
<1>5. /\ Sound(data', inode) /\ (fresh => Marked(data', inode, bmap, imap))
      /\ \A i : IsFile(data', inode, i) <=> IsFile(data, inode, i)
      /\ \A nd, lo, hi, bm : Spare(nd, lo, hi, data, inode, bm) => Spare(nd, lo, hi, data', inode, bm)
  BY <1>2, <1>4, OtherData
<1>6. GrowOp'
  BY <1>1, <1>5 DEF Safe, OpInv, GrowOp
<1> QED
  BY <1>1, <1>5, <1>6
  DEF Safe, OpInv, BootOp, Disk, CreateOp, BlockOp, LinkOp, RootOp, Writing

LEMMA AppendInodeInv ==
  ASSUME Safe, AppendInode
  PROVE  OpInv'
<1> DEFINE nd == [node EXCEPT !.size = NewSize]
<1>1. /\ pc = "fill" /\ inode' = [inode EXCEPT ![ino] = nd] /\ Return
      /\ UNCHANGED <<super, data, fresh, bmap, imap>>
  BY DEF AppendInode, bitmaps, history
<1>2. /\ Sound(data, inode) /\ (fresh => Marked(data, inode, bmap, imap))
      /\ inode \in Tables /\ ino \in Ino /\ ino # 0
      /\ IsFile(data, inode, ino) /\ node.magic
      /\ inode[ino].count <= node.count
      /\ \A k \in 1 .. inode[ino].count : node.blocks[k] = inode[ino].blocks[k]
      /\ Spare(node, inode[ino].count + 1, node.count, data, inode, bmap)
  BY <1>1, GrowFacts
<1>3. /\ nd \in InodeRec /\ nd.magic = node.magic /\ nd.count = node.count
      /\ nd.count = BlocksFor(nd.size) /\ nd.blocks = node.blocks
  BY InodeGrown DEF Safe
<1> HIDE DEF nd
<1>4. Spare(nd, inode[ino].count + 1, nd.count, data, inode, bmap)
  BY <1>2, <1>3 DEF Spare
<1>5. Sound(data, inode') /\ (fresh => Marked(data, inode', bmap, imap))
  BY <1>1, <1>2, <1>3, <1>4, FileGrows
<1> QED
  BY <1>1, <1>5, ReturnInv

\* What is spoiled stays so.
LEMMA SpoiledStays ==
  ASSUME [Next]_vars, spoiled
  PROVE  spoiled'
<1>1. Allocated => spoiled'
  BY DEF Allocated
<1> QED
  BY <1>1 DEF Next, Write, Boot, Format, FormatRoot, Overwrite, Create, AppendTo, CreateBlock,
     CreateInode, LinkInSlot, LinkInBlock, LinkNowhere, LinkRoot, Grow, Grown, Fill, AppendInode,
     AllocBlock, PowerFails, vars, history

LEMMA StepInv == IInv /\ [Next]_vars => IInv'
<1> SUFFICES ASSUME IInv, [Next]_vars, ~spoiled' PROVE OpInv'
  BY StepType DEF IInv
<1>1. ~spoiled
  BY SpoiledStays
<1>2. Safe
  BY <1>1 DEF IInv, Safe
<1>3. CASE Boot \/ Format \/ FormatRoot \/ PowerFails
  BY <1>2, <1>3, BootInv
<1>4. ASSUME NEW b \in RawBlocks, Overwrite(b) PROVE OpInv'
  BY <1>2, <1>4, OverwriteInv
<1>5. ASSUME NEW n \in Name, NEW c \in Contents, Create(n, c) \/ AppendTo(n, c)
      PROVE  OpInv'
  BY <1>2, <1>5, CreateInv, AppendToInv
<1>6. CASE Write
  BY <1>2, <1>6, CreateBlockInv, CreateInodeInv, LinkInSlotInv, LinkInBlockInv, LinkEndInv,
     GrowInv, GrownInv, FillInv, AppendInodeInv DEF Write
<1>7. CASE UNCHANGED vars
  BY <1>2, <1>7 DEF Safe, vars, disk, bitmaps, opVars, args, history, OpInv, BootOp, Disk,
     CreateOp, BlockOp, LinkOp, RootOp, GrowOp, After, Writing
<1> QED
  BY <1>3, <1>4, <1>5, <1>6, <1>7 DEF Next

LEMMA Invariance == Spec => []IInv
BY InitInv, StepInv, PTL DEF Spec

-----------------------------------------------------------------------------
(* The theorems *)

LEMMA LinkedAreFiles ==
  ASSUME TypeOK
  PROVE  /\ Linked \subseteq Ino
         /\ \A i : i \in Linked <=> IsFile(data, inode, i)
<1>1. ASSUME NEW i, i \in Linked PROVE i \in Ino /\ IsFile(data, inode, i)
  <2>1. PICK e \in UNION {EntriesAt(b) : b \in RootBlocks} : i = e.ino
    BY <1>1 DEF Linked
  <2>2. PICK k \in 1 .. inode[0].count : e \in EntriesAt(inode[0].blocks[k])
    BY <2>1 DEF RootBlocks
  <2>3. PICK s \in 1 .. BlockSize : e = data[inode[0].blocks[k]][s] /\ e \in Entry
    BY <2>2 DEF EntriesAt
  <2> QED
    BY <2>1, <2>3 DEF IsFile, Entry
<1>2. ASSUME NEW i, IsFile(data, inode, i) PROVE i \in Linked
  <2>1. PICK k \in 1 .. inode[0].count, s \in 1 .. BlockSize :
          data[inode[0].blocks[k]][s] \in Entry /\ data[inode[0].blocks[k]][s].ino = i
    BY <1>2 DEF IsFile
  <2>2. data[inode[0].blocks[k]][s] \in EntriesAt(inode[0].blocks[k])
    BY <2>1 DEF EntriesAt
  <2> QED
    BY <2>1, <2>2 DEF Linked, RootBlocks
<1> QED
  BY <1>1, <1>2

\* On a disk of any size, while only the boot that formatted the disk allocates
\* and no sector in use is written by number: no block belongs to two places,
\* whatever was allocated for operations that failed.
THEOREM BlocksNeverShared == Spec => []NoSharing
<1>1. ASSUME IInv, ~spoiled PROVE Unshared
  <2> SUFFICES ASSUME NEW p \in InUse, NEW q \in InUse,
                      inode[p[1]].blocks[p[2]] = inode[q[1]].blocks[q[2]]
               PROVE  p = q
    BY DEF Unshared
  <2>1. PICK i \in Linked \cup {0} : p \in Pointers(i)
    BY DEF InUse
  <2>2. PICK j \in Linked \cup {0} : q \in Pointers(j)
    BY DEF InUse
  <2>3. PICK k \in 1 .. inode[i].count : p = <<i, k>>
    BY <2>1 DEF Pointers
  <2>4. PICK m \in 1 .. inode[j].count : q = <<j, m>>
    BY <2>2 DEF Pointers
  <2>5. i \in Ino /\ j \in Ino /\ Live(data, inode, i) /\ Live(data, inode, j)
    BY <1>1, LinkedAreFiles, Sizes DEF IInv, TypeInv, Live
  <2>6. BlocksApart(data, inode)
    BY <1>1 DEF IInv, OpInv, Disk, Sound
  <2>7. inode[i].blocks[k] = inode[j].blocks[m]
    BY <2>3, <2>4
  <2>8. i = j /\ k = m
    BY <2>5, <2>6, <2>7 DEF BlocksApart
  <2> QED
    BY <2>3, <2>4, <2>8
<1>2. IInv => NoSharing
  BY <1>1 DEF NoSharing
<1> QED
  BY <1>2, Invariance, PTL

\* In the same bounds, through power failures between any two sectors: every
\* entry of the directory leads to a complete inode of its own.
THEOREM EntriesLead == Spec => []EntriesLeadToFiles
<1>1. ASSUME IInv, ~spoiled PROVE EntriesLeadToFiles
  <2>1. TypeOK /\ EntriesApart(data, inode) /\ FilesWritten(data, inode)
    BY <1>1 DEF IInv, TypeInv, OpInv, Disk, Sound
  <2>2. ASSUME NEW k \in Offsets(inode[0]), NEW m \in Offsets(inode[0]),
               CellAt(inode[0], k) \in Entry, CellAt(inode[0], m) \in Entry,
               CellAt(inode[0], k).ino = CellAt(inode[0], m).ino
        PROVE  k = m
    <3>1. /\ (k \div BlockSize) + 1 = (m \div BlockSize) + 1
          /\ (k % BlockSize) + 1 = (m % BlockSize) + 1
      BY <2>1, <2>2, RootOffset DEF EntriesApart
    <3>2. /\ k \in Nat /\ k \div BlockSize \in Nat /\ k % BlockSize \in 0 .. BlockSize - 1
          /\ m \in Nat /\ m \div BlockSize \in Nat /\ m % BlockSize \in 0 .. BlockSize - 1
      BY <2>1, RootOffset, Position
    <3>3. k \div BlockSize = m \div BlockSize /\ k % BlockSize = m % BlockSize
      BY <3>1, <3>2, Sizes
    <3> QED
      BY <3>2, <3>3, SamePosition
  <2>3. \A i \in Linked : inode[i].magic /\ inode[i].count = BlocksFor(inode[i].size)
    BY <2>1, LinkedAreFiles DEF FilesWritten
  <2> QED
    BY <2>2, <2>3 DEF EntriesLeadToFiles
<1>2. IInv => EntriesLeadToFiles
  BY <1>1 DEF EntriesLeadToFiles
<1> QED
  BY <1>2, Invariance, PTL

=============================================================================
