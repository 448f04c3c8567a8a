-------------------------- MODULE SovereignStore_proof --------------------------
(***************************************************************************)
(* SovereignFS implements FileStore, for a disk of any size.               *)
(*                                                                         *)
(* The abstract files are what a reader of the disk finds (FileIn), so the *)
(* proof is about which sectors a reader looks at.  SameFiles: a write to  *)
(* any other sector changes no file.  NewFile: a directory entry behind    *)
(* all others adds one file, unless its name is already there.  LongerFile:*)
(* a longer inode with its old blocks adds the new cells to one file.  The *)
(* step that spoils the disk is the store's loss.                          *)
(***************************************************************************)
EXTENDS SovereignFS_proof, SequenceTheorems

\* Where the cell at offset k is.
Row(k) == (k \div BlockSize) + 1
Col(k) == (k % BlockSize) + 1

At(d, nd, k) == d[nd.blocks[Row(k)]][Col(k)]

\* The files on a disk with data blocks d and inode table t.
MatchesIn(d, t, n) ==
  {k \in Offsets(t[0]) : At(d, t[0], k) \in [name : {n}, ino : Ino \ {0}]}

LookupIn(d, t, n) == At(d, t[0], First(MatchesIn(d, t, n))).ino

ReadIn(d, t, i) == IF ~t[i].magic THEN <<>> ELSE [k \in 1 .. t[i].size |-> At(d, t[i], k - 1)]

FileIn(d, t, n) ==
  IF MatchesIn(d, t, n) # {} THEN ReadIn(d, t, LookupIn(d, t, n)) ELSE Absent

Files == [n \in Kept |-> FileIn(data, inode, n)]

\* No entry comes after a cell that has never been written.
Packed(d, nd) ==
  \A k, m \in Offsets(nd) : k < m /\ At(d, nd, k) = Zero => At(d, nd, m) = Zero

-----------------------------------------------------------------------------
(* Places *)

LEMMA Places ==
  ASSUME NEW k \in Nat
  PROVE  /\ Row(k) \in Nat \ {0} /\ Col(k) \in 1 .. BlockSize
         /\ k = BlockSize * (Row(k) - 1) + Col(k) - 1
<1>1. PICK q \in Nat : q = k \div BlockSize
  BY Position
<1>2. PICK r \in 0 .. BlockSize - 1 : r = k % BlockSize
  BY Position
<1>3. k = BlockSize * q + r
  BY <1>1, <1>2, Position
<1>4. Row(k) = q + 1 /\ Col(k) = r + 1
  BY <1>1, <1>2 DEF Row, Col
<1>5. Row(k) - 1 = q
  BY <1>4
<1>6. BlockSize * q \in Nat
  BY Sizes
<1>7. k = BlockSize * (Row(k) - 1) + Col(k) - 1
  BY <1>3, <1>4, <1>5, <1>6, Sizes
<1> QED
  BY <1>4, <1>7, Sizes

LEMMA RowsGrow ==
  ASSUME NEW k \in Nat, NEW m \in Nat, k <= m
  PROVE  Row(k) <= Row(m)
<1>1. PICK p \in Nat : Row(k) = p + 1 /\ k = BlockSize * p + Col(k) - 1
  <2>1. Row(k) - 1 \in Nat /\ Row(k) = (Row(k) - 1) + 1
    BY Places
  <2> QED
    BY <2>1, Places
<1>2. PICK q \in Nat : Row(m) = q + 1 /\ m = BlockSize * q + Col(m) - 1
  <2>1. Row(m) - 1 \in Nat /\ Row(m) = (Row(m) - 1) + 1
    BY Places
  <2> QED
    BY <2>1, Places
<1>3. Col(k) \in 1 .. BlockSize /\ Col(m) \in 1 .. BlockSize
  BY Places
<1>4. ASSUME q < p PROVE FALSE
  <2>1. PICK d \in Nat : p = q + 1 + d
    <3>1. p - (q + 1) \in Nat /\ p = q + 1 + (p - (q + 1))
      BY <1>4
    <3> QED
      BY <3>1
  <2>2. BlockSize * p = BlockSize * q + BlockSize + BlockSize * d
    BY <2>1, Sizes
  <2>3. BlockSize * d \in Nat /\ BlockSize * q \in Nat
    BY <2>1, Sizes
  <2> QED
    BY <1>1, <1>2, <1>3, <2>2, <2>3, Sizes
<1> QED
  BY <1>1, <1>2, <1>4

\* The first cell of a block.
LEMMA BlockStart ==
  ASSUME NEW c \in Nat
  PROVE  c * BlockSize \in Nat /\ Row(c * BlockSize) = c + 1 /\ Col(c * BlockSize) = 1
<1>1. c * BlockSize \in Nat /\ BlockSize \in Nat /\ BlockSize > 0
  BY Sizes
<1>2. PICK k \in Nat : k = c * BlockSize
  BY <1>1
<1>3. PICK q \in Nat, r \in 0 .. BlockSize - 1 :
        Row(k) = q + 1 /\ Col(k) = r + 1 /\ k = BlockSize * q + r
  <2>1. PICK q \in Nat : q = k \div BlockSize
    BY Position
  <2>2. PICK r \in 0 .. BlockSize - 1 : r = k % BlockSize
    BY Position
  <2> QED
    BY <2>1, <2>2, Position DEF Row, Col
<1>4. ASSUME q < c PROVE FALSE
  <2>1. PICK d \in Nat : c = q + 1 + d
    <3>1. c - (q + 1) \in Nat /\ c = q + 1 + (c - (q + 1))
      BY <1>4
    <3> QED
      BY <3>1
  <2>2. c * BlockSize = BlockSize * q + BlockSize + BlockSize * d
    BY <1>1, <2>1
  <2>3. BlockSize * d \in Nat /\ BlockSize * q \in Nat
    BY <1>1, <2>1
  <2> QED
    BY <1>1, <1>2, <1>3, <2>2, <2>3
<1>5. ASSUME c < q PROVE FALSE
  <2>1. PICK d \in Nat : q = c + 1 + d
    <3>1. q - (c + 1) \in Nat /\ q = c + 1 + (q - (c + 1))
      BY <1>5
    <3> QED
      BY <3>1
  <2>2. BlockSize * q = c * BlockSize + BlockSize + BlockSize * d
    BY <1>1, <2>1
  <2>3. BlockSize * d \in Nat /\ BlockSize * q \in Nat
    BY <1>1, <2>1
  <2> QED
    BY <1>1, <1>2, <1>3, <2>2, <2>3
<1>6. q = c
  BY <1>4, <1>5
<1>7. BlockSize * q = c * BlockSize
  BY <1>1, <1>6
<1>8. r = 0
  BY <1>1, <1>2, <1>3, <1>7
<1> QED
  BY <1>1, <1>2, <1>3, <1>6, <1>8

LEMMA SamePlace ==
  ASSUME NEW k \in Nat, NEW m \in Nat, Row(k) = Row(m), Col(k) = Col(m)
  PROVE  k = m
BY Places

LEMMA OffsetPlace ==
  ASSUME NEW nd, nd.count \in Nat, NEW k \in Offsets(nd)
  PROVE  k \in Nat /\ Row(k) \in 1 .. nd.count /\ Col(k) \in 1 .. BlockSize
BY PositionInBlocks DEF Offsets, Row, Col

\* What is read of an inode lies in its blocks.
LEMMA SizePlace ==
  ASSUME NEW c \in Nat, NEW k \in 1 .. c
  PROVE  /\ k - 1 \in Nat /\ Row(k - 1) \in 1 .. BlocksFor(c) /\ Col(k - 1) \in 1 .. BlockSize
<1>1. k - 1 \in Nat /\ k - 1 < c
  OBVIOUS
<1> QED
  BY <1>1, PositionInSize, Places DEF Row

LEMMA FirstUnique ==
  ASSUME NEW S, S \subseteq Nat, NEW k \in S, \A m \in S : k <= m
  PROVE  First(S) = k
<1>1. First(S) \in S /\ First(S) <= k
  BY FirstIsIn
<1>2. k \in Nat /\ First(S) \in Nat /\ k <= First(S)
  BY <1>1
<1> QED
  BY <1>1, <1>2

-----------------------------------------------------------------------------
(* What a reader finds *)

LEMMA MatchFacts ==
  ASSUME NEW d, NEW t \in Tables, NEW n, NEW k \in MatchesIn(d, t, n)
  PROVE  /\ k \in Nat /\ Row(k) \in 1 .. t[0].count /\ Col(k) \in 1 .. BlockSize
         /\ At(d, t[0], k).name = n
         /\ At(d, t[0], k).ino \in Ino \ {0}
         /\ n \in Name =>
              /\ At(d, t[0], k) \in Entry
              /\ IsFile(d, t, At(d, t[0], k).ino)
<1>1. k \in Offsets(t[0]) /\ At(d, t[0], k) \in [name : {n}, ino : Ino \ {0}]
  BY DEF MatchesIn
<1>2. t[0].count \in Nat
  BY Sizes, RecordTypes DEF Tables
<1>3. k \in Nat /\ Row(k) \in 1 .. t[0].count /\ Col(k) \in 1 .. BlockSize
  BY <1>1, <1>2, OffsetPlace
<1>4. At(d, t[0], k).name = n /\ At(d, t[0], k).ino \in Ino \ {0}
  BY <1>1
<1>5. ASSUME n \in Name PROVE At(d, t[0], k) \in Entry
  BY <1>1, <1>5 DEF Entry
<1>6. ASSUME At(d, t[0], k) \in Entry PROVE IsFile(d, t, At(d, t[0], k).ino)
  BY <1>3, <1>6 DEF IsFile, At
<1> QED
  BY <1>3, <1>4, <1>5, <1>6

LEMMA FirstMatch ==
  ASSUME NEW d, NEW t \in Tables, NEW n, MatchesIn(d, t, n) # {}
  PROVE  /\ First(MatchesIn(d, t, n)) \in MatchesIn(d, t, n)
         /\ \A m \in MatchesIn(d, t, n) : First(MatchesIn(d, t, n)) <= m
<1>1. MatchesIn(d, t, n) \subseteq Nat
  BY MatchFacts
<1> QED
  BY <1>1, FirstIsIn

LEMMA LookupFacts ==
  ASSUME NEW d, NEW t \in Tables, NEW n \in Name, MatchesIn(d, t, n) # {}
  PROVE  LookupIn(d, t, n) \in Ino \ {0} /\ IsFile(d, t, LookupIn(d, t, n))
BY FirstMatch, MatchFacts DEF LookupIn

\* Files with different names are different files.
LEMMA LookupApart ==
  ASSUME NEW d, NEW t \in Tables, EntriesApart(d, t),
         NEW n \in Name, NEW m \in Name,
         MatchesIn(d, t, n) # {}, MatchesIn(d, t, m) # {},
         LookupIn(d, t, n) = LookupIn(d, t, m)
  PROVE  n = m
<1>1. PICK k \in MatchesIn(d, t, n) : At(d, t[0], k).ino = LookupIn(d, t, n)
  BY FirstMatch DEF LookupIn
<1>2. PICK j \in MatchesIn(d, t, m) : At(d, t[0], j).ino = LookupIn(d, t, m)
  BY FirstMatch DEF LookupIn
<1>3. /\ Row(k) \in 1 .. t[0].count /\ Col(k) \in 1 .. BlockSize /\ At(d, t[0], k) \in Entry
      /\ At(d, t[0], k).name = n
  BY <1>1, MatchFacts
<1>4. /\ Row(j) \in 1 .. t[0].count /\ Col(j) \in 1 .. BlockSize /\ At(d, t[0], j) \in Entry
      /\ At(d, t[0], j).name = m
  BY <1>2, MatchFacts
<1>5. Row(k) = Row(j) /\ Col(k) = Col(j)
  BY <1>1, <1>2, <1>3, <1>4 DEF EntriesApart, At
<1>6. At(d, t[0], k) = At(d, t[0], j)
  BY <1>5 DEF At
<1> QED
  BY <1>3, <1>4, <1>6

\* The same cells are the same content.
LEMMA SameContent ==
  ASSUME NEW d, NEW e, NEW t, NEW u, NEW i,
         u[i].magic = t[i].magic, u[i].size = t[i].size,
         \A k \in 1 .. t[i].size : At(e, u[i], k - 1) = At(d, t[i], k - 1)
  PROVE  ReadIn(e, u, i) = ReadIn(d, t, i)
BY DEF ReadIn

LEMMA SameInode ==
  ASSUME NEW d, NEW t, NEW u, NEW i, u[i] = t[i]
  PROVE  ReadIn(d, u, i) = ReadIn(d, t, i)
<1>1. /\ u[i].magic = t[i].magic /\ u[i].size = t[i].size
      /\ \A k \in 1 .. t[i].size : At(d, u[i], k - 1) = At(d, t[i], k - 1)
  OBVIOUS
<1> QED
  BY <1>1, SameContent

\* Inode i has the same cells on both disks, and the directory has.
SameCells(d, e, t, u, i) ==
  /\ u[i].magic = t[i].magic /\ u[i].size = t[i].size
  /\ \A k \in 1 .. t[i].size : At(e, u[i], k - 1) = At(d, t[i], k - 1)

SameRoot(d, e, t, u) ==
  u[0].count = t[0].count /\ \A k \in Offsets(t[0]) : At(e, u[0], k) = At(d, t[0], k)

\* A write to cells that nobody reads changes no file.
LEMMA SameFiles ==
  ASSUME NEW d, NEW e, NEW t \in Tables, NEW u,
         SameRoot(d, e, t, u),
         \A i \in Ino \ {0} : IsFile(d, t, i) => SameCells(d, e, t, u, i)
  PROVE  \A n \in Name :
           /\ MatchesIn(e, u, n) = MatchesIn(d, t, n)
           /\ MatchesIn(d, t, n) # {} => LookupIn(e, u, n) = LookupIn(d, t, n)
           /\ FileIn(e, u, n) = FileIn(d, t, n)
<1> SUFFICES ASSUME NEW n \in Name
             PROVE  /\ MatchesIn(e, u, n) = MatchesIn(d, t, n)
                    /\ MatchesIn(d, t, n) # {} => LookupIn(e, u, n) = LookupIn(d, t, n)
                    /\ FileIn(e, u, n) = FileIn(d, t, n)
  OBVIOUS
<1>1. Offsets(u[0]) = Offsets(t[0])
  BY DEF Offsets, SameRoot
<1>2. MatchesIn(e, u, n) = MatchesIn(d, t, n)
  BY <1>1 DEF MatchesIn, SameRoot
<1>3. ASSUME MatchesIn(d, t, n) # {} PROVE LookupIn(e, u, n) = LookupIn(d, t, n)
  <2>1. MatchesIn(d, t, n) \subseteq Offsets(t[0])
    BY DEF MatchesIn
  <2>2. First(MatchesIn(d, t, n)) \in Offsets(t[0])
    BY <1>3, <2>1, FirstMatch
  <2> QED
    BY <1>2, <2>2 DEF LookupIn, SameRoot
<1>4. ASSUME MatchesIn(d, t, n) # {}
      PROVE  ReadIn(e, u, LookupIn(d, t, n)) = ReadIn(d, t, LookupIn(d, t, n))
  <2>1. LookupIn(d, t, n) \in Ino \ {0} /\ IsFile(d, t, LookupIn(d, t, n))
    BY <1>4, LookupFacts
  <2> QED
    BY <2>1, SameContent DEF SameCells
<1> QED
  BY <1>2, <1>3, <1>4 DEF FileIn

\* An entry behind all others, or in the first cell never written, adds a file
\* whose name is new, and nothing else.
EntryAdded(d, e, t, u, j, new) ==
  /\ j \in Offsets(u[0]) /\ At(e, u[0], j) = new
  /\ Offsets(t[0]) \subseteq Offsets(u[0])
  /\ \A k \in Offsets(t[0]) : k # j => At(e, u[0], k) = At(d, t[0], k)
  /\ \A k \in Offsets(u[0]) : k \notin Offsets(t[0]) /\ k # j => At(e, u[0], k) = Zero
  /\ j \in Offsets(t[0]) => At(d, t[0], j) = Zero
  /\ \A k \in Offsets(t[0]) : At(d, t[0], k) # Zero => k < j

LEMMA NewFile ==
  ASSUME NEW d, NEW e, NEW t \in Tables, NEW u \in Tables,
         NEW s \in Name, NEW f \in Ino \ {0}, NEW j,
         EntryAdded(d, e, t, u, j, [name |-> s, ino |-> f]),
         \A i \in Ino \ {0} : IsFile(d, t, i) \/ i = f => SameCells(d, e, t, u, i)
  PROVE  /\ \A n \in Name :
              n # s \/ MatchesIn(d, t, n) # {} => FileIn(e, u, n) = FileIn(d, t, n)
         /\ MatchesIn(d, t, s) = {} => FileIn(e, u, s) = ReadIn(d, t, f)
<1>1. \A n \in Name : Zero \notin [name : {n}, ino : Ino \ {0}]
  BY ValuesDiffer DEF Entry
<1>2. \A n : [name |-> s, ino |-> f] \in [name : {n}, ino : Ino \ {0}] <=> n = s
  OBVIOUS
<1>3. ASSUME NEW n \in Name, NEW k
      PROVE  k \in MatchesIn(e, u, n) <=> k \in MatchesIn(d, t, n) \/ (n = s /\ k = j)
  <2>1. CASE k = j
    BY <1>1, <1>2, <2>1 DEF MatchesIn, EntryAdded
  <2>2. CASE k # j
    <3>1. CASE k \in Offsets(t[0])
      BY <2>2, <3>1 DEF MatchesIn, EntryAdded
    <3>2. CASE k \notin Offsets(t[0])
      BY <1>1, <2>2, <3>2 DEF MatchesIn, EntryAdded
    <3> QED
      BY <3>1, <3>2
  <2> QED
    BY <2>1, <2>2
<1>4. ASSUME NEW n \in Name, MatchesIn(d, t, n) # {}
      PROVE  FileIn(e, u, n) = FileIn(d, t, n)
  <2>1. PICK k \in MatchesIn(d, t, n) :
          k = First(MatchesIn(d, t, n)) /\ \A m \in MatchesIn(d, t, n) : k <= m
    BY <1>4, FirstMatch
  <2>2. k \in Offsets(t[0]) /\ At(d, t[0], k) # Zero
    BY <1>1 DEF MatchesIn
  <2>3. k < j /\ k # j /\ At(e, u[0], k) = At(d, t[0], k)
    <3>1. k < j
      BY <2>2 DEF EntryAdded
    <3>2. k \in Nat
      BY MatchFacts
    <3>3. k # j
      BY <3>1, <3>2
    <3> QED
      BY <2>2, <3>1, <3>3 DEF EntryAdded
  <2>4. k \in MatchesIn(e, u, n) /\ \A m \in MatchesIn(e, u, n) : k <= m
    <3>1. ASSUME NEW m \in MatchesIn(e, u, n) PROVE k <= m
      <4>1. CASE m \in MatchesIn(d, t, n)
        BY <2>1, <4>1
      <4>2. CASE m = j
        <5>1. k \in Nat /\ j \in Nat
          BY <3>1, <4>2, MatchFacts
        <5> QED
          BY <2>3, <4>2, <5>1
      <4> QED
        BY <1>3, <4>1, <4>2
    <3>2. k \in MatchesIn(e, u, n)
      BY <1>3
    <3> QED
      BY <3>1, <3>2
  <2>5. First(MatchesIn(e, u, n)) = k
    <3>1. MatchesIn(e, u, n) \subseteq Nat
      BY MatchFacts
    <3> QED
      BY <2>4, <3>1, FirstUnique
  <2>6. LookupIn(e, u, n) = LookupIn(d, t, n)
    BY <2>1, <2>3, <2>5 DEF LookupIn
  <2>7. LookupIn(d, t, n) \in Ino \ {0} /\ IsFile(d, t, LookupIn(d, t, n))
    BY <1>4, LookupFacts
  <2>8. ReadIn(e, u, LookupIn(d, t, n)) = ReadIn(d, t, LookupIn(d, t, n))
    BY <2>7, SameContent DEF SameCells
  <2>9. MatchesIn(e, u, n) # {}
    BY <2>4
  <2> QED
    BY <1>4, <2>6, <2>8, <2>9 DEF FileIn
<1>5. ASSUME NEW n \in Name, n # s, MatchesIn(d, t, n) = {}
      PROVE  FileIn(e, u, n) = FileIn(d, t, n)
  <2>1. MatchesIn(e, u, n) = {}
    BY <1>3, <1>5
  <2> QED
    BY <1>5, <2>1 DEF FileIn
<1>6. ASSUME MatchesIn(d, t, s) = {} PROVE FileIn(e, u, s) = ReadIn(d, t, f)
  <2>1. MatchesIn(e, u, s) = {j}
    BY <1>3, <1>6
  <2>2. j \in Nat
    BY <2>1, MatchFacts
  <2>3. First({j}) = j
    BY <2>2, FirstUnique
  <2>4. LookupIn(e, u, s) = f
    BY <2>1, <2>3 DEF LookupIn, EntryAdded
  <2>5. ReadIn(e, u, f) = ReadIn(d, t, f)
    BY SameContent DEF SameCells
  <2> QED
    BY <2>1, <2>4, <2>5 DEF FileIn
<1> QED
  BY <1>4, <1>5, <1>6

LEMMA CellsAreSeq ==
  ASSUME NEW S, NEW n \in Nat, NEW q \in [1 .. n -> S]
  PROVE  q \in Seq(S) /\ Len(q) = n
<1>1. q \in Seq(S)
  BY SeqDef
<1>2. Len(q) \in Nat /\ DOMAIN q = 1 .. Len(q)
  BY <1>1, LenProperties
<1>3. DOMAIN q = 1 .. n
  OBVIOUS
<1>4. \A k \in Int : 1 <= k /\ k <= n <=> 1 <= k /\ k <= Len(q)
  <2>1. \A k : k \in 1 .. n <=> k \in 1 .. Len(q)
    BY <1>2, <1>3
  <2> QED
    BY <1>2, <2>1
<1>5. Len(q) = n
  <2>1. ~(n < Len(q))
    BY <1>2, <1>4
  <2>2. ~(Len(q) < n)
    BY <1>2, <1>4
  <2> QED
    BY <1>2, <2>1, <2>2
<1> QED
  BY <1>1, <1>5

LEMMA ConcatCells ==
  ASSUME NEW S, NEW p \in Seq(S), NEW q \in Seq(S)
  PROVE  /\ p \o q \in Seq(S) /\ Len(p \o q) = Len(p) + Len(q)
         /\ \A k \in 1 .. Len(p) + Len(q) :
              (p \o q)[k] = IF k <= Len(p) THEN p[k] ELSE q[k - Len(p)]
BY ConcatProperties

LEMMA SameCellsSame ==
  ASSUME NEW S, NEW p \in Seq(S), NEW q \in Seq(S), Len(p) = Len(q),
         \A k \in 1 .. Len(p) : p[k] = q[k]
  PROVE  p = q
BY SeqEqual

\* Inode nd has the cells of inode od and then those of c.
Longer(d, nd, od, c) ==
  /\ nd.magic /\ nd.size = od.size + Len(c)
  /\ \A k \in 1 .. od.size : At(d, nd, k - 1) = At(d, od, k - 1) /\ At(d, nd, k - 1) \in Cell
  /\ \A k \in 1 .. Len(c) : At(d, nd, od.size + k - 1) = c[k]

\* A longer inode that keeps the cells of the old one adds to one file.
LEMMA LongerFile ==
  ASSUME NEW d, NEW t \in Tables, EntriesApart(d, t),
         NEW n0 \in Name, MatchesIn(d, t, n0) # {},
         NEW f \in Ino \ {0}, f = LookupIn(d, t, n0), t[f].magic,
         NEW c \in Seq(Byte), NEW u, Longer(d, u[f], t[f], c),
         \A i \in Ino : i # f => u[i] = t[i]
  PROVE  /\ \A n \in Name : n # n0 => FileIn(d, u, n) = FileIn(d, t, n)
         /\ FileIn(d, u, n0) = FileIn(d, t, n0) \o c
         /\ FileIn(d, t, n0) \in Seq(Cell)
<1>0. PICK nd : nd = u[f]
  OBVIOUS
<1>1. /\ u[0] = t[0] /\ u[f] = nd /\ \A i \in Ino : i # f => u[i] = t[i]
      /\ nd.magic /\ nd.size = t[f].size + Len(c)
      /\ \A k \in 1 .. t[f].size : At(d, nd, k - 1) = At(d, t[f], k - 1) /\ At(d, nd, k - 1) \in Cell
      /\ \A k \in 1 .. Len(c) : At(d, nd, t[f].size + k - 1) = c[k]
  BY <1>0, Sizes DEF Longer
<1>2. \A n : MatchesIn(d, u, n) = MatchesIn(d, t, n) /\ LookupIn(d, u, n) = LookupIn(d, t, n)
  BY <1>1 DEF MatchesIn, LookupIn
<1>3. ASSUME NEW n \in Name, n # n0 PROVE FileIn(d, u, n) = FileIn(d, t, n)
  <2>1. CASE MatchesIn(d, t, n) = {}
    BY <1>2, <2>1 DEF FileIn
  <2>2. CASE MatchesIn(d, t, n) # {}
    <3>1. LookupIn(d, t, n) \in Ino /\ LookupIn(d, t, n) # f
      BY <1>3, <2>2, LookupFacts, LookupApart
    <3>2. u[LookupIn(d, t, n)] = t[LookupIn(d, t, n)]
      BY <1>1, <3>1
    <3>3. ReadIn(d, u, LookupIn(d, t, n)) = ReadIn(d, t, LookupIn(d, t, n))
      BY <3>2, SameInode
    <3> QED
      BY <1>2, <3>3 DEF FileIn
  <2> QED
    BY <2>1, <2>2
<1>4. PICK old : old = [k \in 1 .. t[f].size |-> At(d, t[f], k - 1)]
  OBVIOUS
<1>5. PICK new : new = [k \in 1 .. nd.size |-> At(d, nd, k - 1)]
  OBVIOUS
<1>6. FileIn(d, t, n0) = old
  <2>1. ReadIn(d, t, f) = old
    BY <1>4 DEF ReadIn
  <2> QED
    BY <2>1 DEF FileIn
<1>7. FileIn(d, u, n0) = new
  <2>1. ReadIn(d, u, f) = new
    <3>1. u[f].magic /\ u[f].size = nd.size
      BY <1>1
    <3>2. ReadIn(d, u, f) = [k \in 1 .. nd.size |-> At(d, u[f], k - 1)]
      BY <3>1 DEF ReadIn
    <3>3. \A k \in 1 .. nd.size : At(d, u[f], k - 1) = At(d, nd, k - 1)
      BY <1>1
    <3> QED
      BY <1>5, <3>2, <3>3
  <2> QED
    BY <1>2, <2>1 DEF FileIn
<1>8. /\ t[f].size \in Nat /\ Len(c) \in Nat /\ nd.size \in Nat
      /\ nd.size = t[f].size + Len(c)
  BY <1>1, RecordTypes DEF Tables
<1>9. PICK S : S = Cell
  OBVIOUS
<1>10. old \in Seq(S) /\ Len(old) = t[f].size
  <2>1. \A k \in 1 .. t[f].size : old[k] \in S
    BY <1>1, <1>4, <1>9
  <2>2. old \in [1 .. t[f].size -> S]
    BY <1>4, <2>1
  <2> QED
    BY <1>8, <2>2, CellsAreSeq
<1>11. c \in Seq(S)
  BY <1>9, SeqMonotonic DEF Cell
<1>12. \A k \in 1 .. nd.size : k <= t[f].size \/ (k - t[f].size \in 1 .. Len(c) /\ k = t[f].size + (k - t[f].size))
  BY <1>8
<1>13. \A k \in 1 .. Len(c) : c[k] \in S
  BY <1>11
<1>14. \A k \in 1 .. nd.size :
         new[k] = (IF k <= t[f].size THEN old[k] ELSE c[k - t[f].size]) /\ new[k] \in S
  <2> SUFFICES ASSUME NEW k \in 1 .. nd.size
               PROVE  new[k] = (IF k <= t[f].size THEN old[k] ELSE c[k - t[f].size]) /\ new[k] \in S
    OBVIOUS
  <2>1. new[k] = At(d, nd, k - 1)
    BY <1>5
  <2>2. CASE k <= t[f].size
    BY <1>1, <1>4, <1>8, <1>9, <2>1, <2>2
  <2>3. CASE ~(k <= t[f].size)
    <3>1. PICK m \in 1 .. Len(c) : m = k - t[f].size /\ k = t[f].size + m
      BY <1>12, <2>3
    <3>2. At(d, nd, k - 1) = c[m]
      <4>1. k - 1 = t[f].size + m - 1
        BY <1>8, <3>1
      <4>2. At(d, nd, t[f].size + m - 1) = c[m]
        BY <1>1
      <4> QED
        BY <1>8, <4>1, <4>2
    <3> QED
      BY <1>13, <2>1, <2>3, <3>1, <3>2
  <2> QED
    BY <2>2, <2>3
<1>15. new \in Seq(S) /\ Len(new) = nd.size
  <2>1. new \in [1 .. nd.size -> S]
    BY <1>5, <1>14
  <2> QED
    BY <1>8, <2>1, CellsAreSeq
<1>16. /\ old \o c \in Seq(S) /\ Len(old \o c) = nd.size
       /\ \A k \in 1 .. nd.size :
            (old \o c)[k] = IF k <= t[f].size THEN old[k] ELSE c[k - t[f].size]
  <2>1. /\ old \o c \in Seq(S) /\ Len(old \o c) = Len(old) + Len(c)
        /\ \A k \in 1 .. Len(old) + Len(c) :
             (old \o c)[k] = IF k <= Len(old) THEN old[k] ELSE c[k - Len(old)]
    BY <1>10, <1>11, ConcatCells
  <2>2. Len(old) = t[f].size /\ Len(old) + Len(c) = nd.size
    BY <1>8, <1>10
  <2> QED
    BY <2>1, <2>2
<1>17. new = old \o c
  <2>1. \A k \in 1 .. Len(new) : new[k] = (old \o c)[k]
    BY <1>14, <1>15, <1>16
  <2>2. new \in Seq(S) /\ old \o c \in Seq(S) /\ Len(new) = Len(old \o c)
    BY <1>15, <1>16
  <2> QED
    BY <2>1, <2>2, SameCellsSame
<1>18. FileIn(d, t, n0) \in Seq(Cell)
  BY <1>6, <1>9, <1>10
<1>19. FileIn(d, u, n0) = FileIn(d, t, n0) \o c
  BY <1>6, <1>7, <1>17
<1> QED
  BY <1>3, <1>18, <1>19

-----------------------------------------------------------------------------
(* The invariant *)

Arguments == pc \in Writing =>
  /\ name \in Name /\ content \in Contents
  /\ pc \in {"block", "link", "root"} => name \in Kept

\* A file that is being created holds the content as far as it is written.
BlockContent == pc = "block" =>
  \A k \in 1 .. Len(content) : Row(k - 1) <= at => At(data, node, k - 1) = content[k]

LinkContent == pc = "link" => ReadIn(data, inode, ino) = content

PackedDisk == Packed(data, inode[0])

\* Writing the root's inode changes nothing, or adds the new file.
RootNothing ==
  \A n \in Kept : FileIn(data, After, n) = FileIn(data, inode, n)

RootAdds ==
  /\ FileIn(data, inode, name) = Absent /\ FileIn(data, After, name) = content
  /\ \A n \in Kept : n # name => FileIn(data, After, n) = FileIn(data, inode, n)

RootFiles == pc = "root" => Packed(data, node) /\ (RootNothing \/ RootAdds)

\* The inode that grows is the named file's, with the content as far as it is
\* written behind the file's end.
GrowFile == pc \in {"grow", "fill"} =>
  MatchesIn(data, inode, name) # {} /\ ino = LookupIn(data, inode, name)

FillContent == pc = "fill" =>
  \A k \in 1 .. at : At(data, node, node.size + k - 1) = content[k]

\* Until the root is formatted it has no blocks, and no operation runs.
Unformatted ==
  /\ ~super => pc \in {"off", "idle"}
  /\ ~super \/ pc = "format" => inode[0].count = 0

StoreInv ==
  /\ Arguments /\ BlockContent /\ LinkContent /\ PackedDisk /\ RootFiles
  /\ GrowFile /\ FillContent /\ Unformatted

-----------------------------------------------------------------------------
(* Steps *)

LEMMA FilesAreStore ==
  [n \in Kept |-> IF Exists(n) THEN ReadInode(Lookup(n)) ELSE Absent] = Files
<1>1. \A n : Matches(n) = MatchesIn(data, inode, n)
  BY DEF Matches, MatchesIn, CellAt, At, Row, Col
<1>2. \A n : Lookup(n) = LookupIn(data, inode, n)
  BY <1>1 DEF Lookup, LookupIn, CellAt, At, Row, Col
<1>3. \A i : ReadInode(i) = ReadIn(data, inode, i)
  BY DEF ReadInode, ReadIn, CellAt, At, Row, Col
<1>4. \A n : (IF Exists(n) THEN ReadInode(Lookup(n)) ELSE Absent) = FileIn(data, inode, n)
  BY <1>1, <1>2, <1>3 DEF Exists, FileIn
<1> QED
  BY <1>4 DEF Files

LEMMA NextFilesAreStore ==
  ([n \in Kept |-> IF Exists(n) THEN ReadInode(Lookup(n)) ELSE Absent] = Files)'
BY FilesAreStore, PTL

\* A step that keeps every file, or adds one, or extends one, is a step of the
\* store or none.
Added(n, c) == Files[n] = Absent /\ Files' = [Files EXCEPT ![n] = c]
Extended(n, c) == Files[n] # Absent /\ Files' = [Files EXCEPT ![n] = @ \o c]

StoreStep == Files' = Files \/ \E n \in Kept, c \in Contents : Added(n, c) \/ Extended(n, c)

LEMMA SameStore ==
  ASSUME \A n \in Kept : FileIn(data', inode', n) = FileIn(data, inode, n)
  PROVE  StoreStep
BY DEF StoreStep, Files

LEMMA CreateStep ==
  ASSUME NEW n0 \in Kept, NEW c \in Contents,
         FileIn(data, inode, n0) = Absent, FileIn(data', inode', n0) = c,
         \A n \in Kept : n # n0 => FileIn(data', inode', n) = FileIn(data, inode, n)
  PROVE  StoreStep
<1>1. Files[n0] = Absent
  BY DEF Files
<1>2. Files' = [Files EXCEPT ![n0] = c]
  BY DEF Files
<1> QED
  BY <1>1, <1>2 DEF StoreStep, Added

LEMMA ExtendStep ==
  ASSUME NEW n0 \in Kept, NEW c \in Contents,
         FileIn(data, inode, n0) # Absent,
         FileIn(data', inode', n0) = FileIn(data, inode, n0) \o c,
         \A n \in Kept : n # n0 => FileIn(data', inode', n) = FileIn(data, inode, n)
  PROVE  StoreStep
<1>1. Files[n0] # Absent
  BY DEF Files
<1>2. Files' = [Files EXCEPT ![n0] = @ \o c]
  BY DEF Files
<1> QED
  BY <1>1, <1>2 DEF StoreStep, Extended

\* An operation that is over leaves nothing to say but that the disk is packed.
LEMMA OverStore ==
  ASSUME super, Return, UNCHANGED super, PackedDisk'
  PROVE  StoreInv'
BY DEF StoreInv, Arguments, BlockContent, LinkContent, RootFiles, GrowFile, FillContent,
   Unformatted, Return, Writing

LEMMA NoRoot ==
  ASSUME NEW d, NEW t, t[0].count = 0
  PROVE  Packed(d, t[0]) /\ \A n : FileIn(d, t, n) = Absent
<1>1. Offsets(t[0]) = {}
  BY Sizes DEF Offsets
<1> QED
  BY <1>1 DEF Packed, FileIn, MatchesIn

LEMMA InitStore == Init => StoreInv /\ Store!Init
<1> SUFFICES ASSUME Init PROVE StoreInv /\ Store!Init
  OBVIOUS
<1>1. inode[0].count = 0
  BY BlankTypes, Sizes DEF Init
<1>2. \A n : FileIn(data, inode, n) = Absent
  BY <1>1, NoRoot
<1>3. PackedDisk
  BY <1>1, NoRoot DEF PackedDisk
<1>4. Store!Init
  BY <1>2, FilesAreStore DEF Store!Init, Files, Init
<1> QED
  BY <1>1, <1>3, <1>4
  DEF Init, StoreInv, Arguments, BlockContent, LinkContent, RootFiles, GrowFile, FillContent,
      Unformatted, Writing

\* Nothing is written.
LEMMA NothingWritten ==
  ASSUME UNCHANGED <<inode, data>>
  PROVE  StoreStep /\ (PackedDisk => PackedDisk')
BY SameStore DEF PackedDisk

LEMMA BootStore ==
  ASSUME Safe, StoreInv, Boot \/ Format \/ FormatRoot \/ PowerFails
  PROVE  StoreInv' /\ StoreStep
<1>1. CASE Boot
  BY <1>1, NothingWritten
  DEF Boot, StoreInv, Arguments, BlockContent, LinkContent, RootFiles, GrowFile, FillContent,
      Unformatted, Writing, disk
<1>2. CASE Format
  BY <1>2, NothingWritten
  DEF Format, StoreInv, Arguments, BlockContent, LinkContent, RootFiles, GrowFile, FillContent,
      Unformatted, Writing
<1>3. CASE FormatRoot
  <2>1. inode[0].count = 0 /\ super
    BY <1>3 DEF FormatRoot, StoreInv, Unformatted
  <2>2. inode'[0].count = 0
    <3>1. NewInode(0, 0).count = 0
      BY NewInodeType, Sizes
    <3> QED
      BY <1>3, <3>1, TypeFacts, Sizes DEF FormatRoot, Safe, Tables
  <2>3. StoreStep
    BY <2>1, <2>2, NoRoot, SameStore
  <2>4. PackedDisk'
    BY <2>2, NoRoot DEF PackedDisk
  <2> QED
    BY <1>3, <2>1, <2>3, <2>4
    DEF FormatRoot, StoreInv, Arguments, BlockContent, LinkContent, RootFiles, GrowFile,
        FillContent, Unformatted, Writing
<1>4. CASE PowerFails
  BY <1>4, NothingWritten
  DEF PowerFails, StoreInv, Arguments, BlockContent, LinkContent, RootFiles, GrowFile, FillContent,
      Unformatted, Writing, disk
<1> QED
  BY <1>1, <1>2, <1>3, <1>4

LEMMA CreateStore ==
  ASSUME Safe, StoreInv, NEW n \in Name, NEW c \in Contents, Create(n, c), ~spoiled'
  PROVE  StoreInv' /\ StoreStep
<1>1. StoreStep /\ PackedDisk' /\ UNCHANGED super
  BY NothingWritten DEF Create, disk, StoreInv
<1>2. super
  BY AllocatedHistory DEF Create, Safe, TypeInv, OpInv, BootOp
<1>3. CASE BlocksFor(Len(c)) > MaxDirect
  BY <1>1, <1>2, <1>3, OverStore DEF Create
<1>4. CASE ~(BlocksFor(Len(c)) > MaxDirect)
  <2>1. pc' = "block" /\ name' = Clip[n] /\ content' = c /\ at' = 0
    BY <1>4 DEF Create
  <2>2. Clip[n] \in Name /\ Clip[n] \in Kept
    BY ClippingKeepsNames DEF Kept
  <2>3. BlockContent'
    <3>1. ASSUME NEW k \in 1 .. Len(c) PROVE ~(Row(k - 1) <= 0)
      <4>1. Len(c) \in Nat
        BY ContentsAreBytes
      <4>2. k - 1 \in Nat
        BY <4>1
      <4> QED
        BY <4>2, Places
    <3> QED
      BY <2>1, <3>1 DEF BlockContent
  <2> QED
    BY <1>1, <1>2, <2>1, <2>2, <2>3
    DEF StoreInv, Arguments, LinkContent, RootFiles, GrowFile, FillContent, Unformatted, Writing
<1> QED
  BY <1>3, <1>4

LEMMA AppendToStore ==
  ASSUME Safe, StoreInv, NEW n \in Name, NEW c \in Contents, AppendTo(n, c)
  PROVE  StoreInv' /\ StoreStep
<1>1. StoreStep /\ PackedDisk' /\ UNCHANGED <<super, inode, data>>
  BY NothingWritten DEF AppendTo, disk, StoreInv
<1>2. pc = "idle" /\ pc' = "grow" /\ name' = n /\ content' = c /\ ino' = Lookup(n) /\ Exists(n)
  BY DEF AppendTo
<1>3. MatchesIn(data, inode, n) # {} /\ Lookup(n) = LookupIn(data, inode, n)
  <2>1. Matches(n) = MatchesIn(data, inode, n)
    BY DEF Matches, MatchesIn, CellAt, At, Row, Col
  <2> QED
    BY <1>2, <2>1 DEF Exists, Lookup, LookupIn, CellAt, At, Row, Col
<1>4. GrowFile'
  BY <1>1, <1>2, <1>3 DEF GrowFile
<1>5. super
  <2>1. inode[0].count = 0 => MatchesIn(data, inode, n) = {}
    BY Sizes DEF MatchesIn, Offsets
  <2> QED
    BY <1>3, <2>1 DEF StoreInv, Unformatted
<1> QED
  BY <1>1, <1>2, <1>4, <1>5
  DEF StoreInv, Arguments, BlockContent, LinkContent, RootFiles, FillContent, Unformatted, Writing

LEMMA GrowStore ==
  ASSUME Safe, StoreInv, Grow \/ Grown \/ LinkNowhere
  PROVE  StoreInv' /\ StoreStep
<1>1. StoreStep /\ PackedDisk' /\ UNCHANGED <<super, inode, data>>
  BY NothingWritten DEF Grow, Grown, LinkNowhere, disk, StoreInv
<1>2. CASE Grow
  <2>1. CASE FreeBlocks = {}
    BY <1>1, <1>2, <2>1, OverStore DEF Grow, StoreInv, Unformatted
  <2>2. CASE FreeBlocks # {}
    <3>1. pc = "grow" /\ pc' = "grow" /\ UNCHANGED args
      BY <1>2, <2>2 DEF Grow
    <3> QED
      BY <1>1, <3>1
      DEF StoreInv, Arguments, BlockContent, LinkContent, RootFiles, GrowFile, FillContent,
          Unformatted, Writing, args
  <2> QED
    BY <2>1, <2>2
<1>3. CASE Grown
  <2>1. pc = "grow" /\ pc' = "fill" /\ at' = 0 /\ UNCHANGED args
    BY <1>3 DEF Grown
  <2>2. FillContent'
    BY <2>1 DEF FillContent
  <2> QED
    BY <1>1, <2>1, <2>2
    DEF StoreInv, Arguments, BlockContent, LinkContent, RootFiles, GrowFile, Unformatted, Writing,
        args
<1>4. CASE LinkNowhere
  BY <1>1, <1>4, OverStore DEF LinkNowhere, StoreInv, Unformatted
<1> QED
  BY <1>2, <1>3, <1>4

\* Nobody reads a block that is in no place.
LEMMA UnreadBlock ==
  ASSUME NEW d \in Disks, NEW t \in Tables, Sound(d, t),
         NEW b, \A i \in Ino : Live(d, t, i) => \A k \in 1 .. t[i].count : t[i].blocks[k] # b,
         NEW e, \A c \in Block : c # b => e[c] = d[c]
  PROVE  /\ SameRoot(d, e, t, t)
         /\ \A i \in Ino \ {0} : IsFile(d, t, i) => SameCells(d, e, t, t, i)
<1>1. \A i \in Ino : t[i].count \in Nat /\ t[i].size \in Nat
  BY RecordTypes DEF Tables
<1>2. ASSUME NEW i \in Ino, Live(d, t, i), NEW k \in 1 .. t[i].count
      PROVE  e[t[i].blocks[k]] = d[t[i].blocks[k]]
  <2>1. t[i].blocks[k] \in Block
    BY RecordTypes DEF Tables
  <2> QED
    BY <1>2, <2>1
<1>3. ASSUME NEW k \in Offsets(t[0]) PROVE At(e, t[0], k) = At(d, t[0], k)
  <2>1. Row(k) \in 1 .. t[0].count
    BY <1>1, OffsetPlace, Sizes
  <2>2. 0 \in Ino /\ Live(d, t, 0)
    BY Sizes DEF Live
  <2> QED
    BY <1>2, <2>1, <2>2 DEF At
<1>4. ASSUME NEW i \in Ino \ {0}, IsFile(d, t, i), NEW k \in 1 .. t[i].size
      PROVE  At(e, t[i], k - 1) = At(d, t[i], k - 1)
  <2>1. Row(k - 1) \in 1 .. t[i].count
    BY <1>1, <1>4, SizePlace DEF Sound, FilesWritten
  <2>2. Live(d, t, i)
    BY <1>4 DEF Live
  <2> QED
    BY <1>2, <2>1, <2>2 DEF At
<1> QED
  BY <1>3, <1>4 DEF SameRoot, SameCells

\* A block that is not marked is in no place.
LEMMA FreshBlock ==
  ASSUME NEW d \in Disks, NEW t \in Tables, NEW bm, NEW im, Sound(d, t), Marked(d, t, bm, im),
         NEW b, b \notin bm, NEW e, \A c \in Block : c # b => e[c] = d[c]
  PROVE  /\ SameRoot(d, e, t, t)
         /\ \A i \in Ino \ {0} : IsFile(d, t, i) => SameCells(d, e, t, t, i)
<1>1. \A i \in Ino : Live(d, t, i) => \A k \in 1 .. t[i].count : t[i].blocks[k] # b
  BY DEF Marked
<1> QED
  BY <1>1, UnreadBlock

\* Neither is one that is not in use.
LEMMA OverwriteStore ==
  ASSUME Safe, StoreInv, NEW b \in RawBlocks, Overwrite(b), ~spoiled'
  PROVE  StoreInv' /\ StoreStep
<1>1. /\ pc = "idle" /\ b \notin BlocksInUse /\ UNCHANGED <<super, inode, pc>>
      /\ \E w : data' = [data EXCEPT ![b] = [s \in 1 .. BlockSize |-> w]]
  BY DEF Overwrite
<1>2. data \in Disks /\ inode \in Tables /\ Sound(data, inode)
  BY TypeFacts DEF Safe, OpInv, Disk
<1>3. \A c \in Block : c # b => data'[c] = data[c]
  BY <1>1, <1>2 DEF Disks
<1>4. ASSUME NEW i \in Ino, Live(data, inode, i), NEW k \in 1 .. inode[i].count
      PROVE  inode[i].blocks[k] # b
  <2>1. i \in Linked \cup {0}
    BY <1>4, LinkedAreFiles DEF Safe, TypeInv, Live
  <2>2. <<i, k>> \in InUse
    BY <2>1 DEF InUse, Pointers
  <2>3. inode[i].blocks[k] \in BlocksInUse
    BY <2>2 DEF BlocksInUse
  <2> QED
    BY <1>1, <2>3
<1>5. /\ SameRoot(data, data', inode, inode)
      /\ \A i \in Ino \ {0} : IsFile(data, inode, i) => SameCells(data, data', inode, inode, i)
  BY <1>2, <1>3, <1>4, UnreadBlock
<1>6. \A n \in Name : FileIn(data', inode, n) = FileIn(data, inode, n)
  BY <1>2, <1>5, SameFiles
<1>7. StoreStep
  BY <1>1, <1>6, SameStore DEF Kept
<1>8. PackedDisk'
  BY <1>1, <1>5 DEF StoreInv, PackedDisk, Packed, SameRoot
<1> QED
  BY <1>1, <1>7, <1>8
  DEF StoreInv, Arguments, BlockContent, LinkContent, RootFiles, GrowFile, FillContent, Unformatted,
      Writing

LEMMA CreateBlockStore ==
  ASSUME Safe, StoreInv, CreateBlock
  PROVE  StoreInv' /\ StoreStep
<1> DEFINE b == First(FreeBlocks)
<1>1. /\ Sound(data, inode) /\ Marked(data, inode, bmap, imap)
      /\ inode \in Tables /\ data \in Disks /\ node \in InodeRec
      /\ pc = "block" /\ UNCHANGED <<super, inode>>
  BY CreateFacts DEF CreateBlock
<1>2. CASE FreeBlocks = {}
  <2>1. StoreStep /\ PackedDisk' /\ Return
    BY <1>2, NothingWritten DEF CreateBlock, StoreInv
  <2> QED
    BY <1>1, <2>1, OverStore DEF StoreInv, Unformatted
<1>3. CASE FreeBlocks # {}
  <2>1. /\ node' = [node EXCEPT !.blocks[at + 1] = b]
        /\ data' = [data EXCEPT ![b] = Piece]
        /\ at' = at + 1 /\ at < node.count
        /\ UNCHANGED <<pc, name, content, ino>>
    BY <1>3 DEF CreateBlock, args
  <2>2. b \in Block /\ b \notin bmap
    BY <1>3, FreeBlockType DEF Safe, TypeInv
  <2>3. at \in Nat /\ at + 1 \in Ptr
    BY <1>1, <2>1, TypeFacts, RecordTypes, Sizes DEF Safe, Ptr
  <2> HIDE DEF b
  <2>4. node'.blocks = [node.blocks EXCEPT ![at + 1] = b] /\ node.blocks \in [Ptr -> Block]
    BY <1>1, <2>1 DEF InodeRec
  <2>5. /\ SameRoot(data, data', inode, inode)
        /\ \A i \in Ino \ {0} : IsFile(data, inode, i) => SameCells(data, data', inode, inode, i)
    <3>1. \A c \in Block : c # b => data'[c] = data[c]
      BY <1>1, <2>1 DEF Disks
    <3> QED
      BY <1>1, <2>2, <3>1, FreshBlock
  <2>6. StoreStep
    <3>1. \A n \in Name : FileIn(data', inode, n) = FileIn(data, inode, n)
      BY <1>1, <2>5, SameFiles
    <3> QED
      BY <1>1, <3>1, SameStore DEF Kept
  <2>7. PackedDisk'
    BY <1>1, <2>5 DEF StoreInv, PackedDisk, Packed, SameRoot
  <2>8. BlockContent'
    <3> SUFFICES ASSUME NEW k \in 1 .. Len(content), Row(k - 1) <= at + 1
                 PROVE  At(data', node', k - 1) = content[k]
      BY <2>1 DEF BlockContent
    <3>1. Len(content) \in Nat
      BY TypeFacts DEF Safe
    <3>2. k - 1 \in Nat
      BY <3>1
    <3>3. /\ Row(k - 1) \in Nat \ {0} /\ Col(k - 1) \in 1 .. BlockSize
          /\ k - 1 = BlockSize * (Row(k - 1) - 1) + Col(k - 1) - 1
      BY <3>2, Places
    <3>4. CASE Row(k - 1) <= at
      <4>1. At(data, node, k - 1) = content[k]
        BY <1>1, <3>4 DEF StoreInv, BlockContent
      <4>2. Row(k - 1) \in 1 .. at /\ Row(k - 1) \in Ptr /\ Row(k - 1) # at + 1
        BY <2>3, <3>3, <3>4, Sizes DEF Ptr
      <4>3. node.blocks[Row(k - 1)] \in bmap
        BY <1>1, <4>2 DEF Safe, OpInv, BlockOp, Spare
      <4>4. node'.blocks[Row(k - 1)] = node.blocks[Row(k - 1)]
        BY <2>4, <4>2
      <4>5. data'[node.blocks[Row(k - 1)]] = data[node.blocks[Row(k - 1)]]
        <5>1. node.blocks[Row(k - 1)] # b /\ node.blocks[Row(k - 1)] \in Block
          BY <2>2, <2>4, <4>2, <4>3
        <5> QED
          BY <1>1, <2>1, <5>1 DEF Disks
      <4> QED
        BY <4>1, <4>4, <4>5 DEF At
    <3>5. CASE Row(k - 1) = at + 1
      <4>1. node'.blocks[Row(k - 1)] = b
        BY <2>3, <2>4, <3>5
      <4>2. data'[b] = Piece
        BY <1>1, <2>1, <2>2 DEF Disks
      <4>3. at * BlockSize + Col(k - 1) = k
        <5>1. PICK r \in Nat : r = Row(k - 1) - 1 /\ r = at
          BY <2>3, <3>5
        <5>2. BlockSize * at = at * BlockSize /\ at * BlockSize \in Nat
          BY <2>3, Sizes
        <5> QED
          BY <3>1, <3>3, <5>1, <5>2, Sizes
      <4>4. Piece[Col(k - 1)] = content[k]
        BY <3>1, <3>3, <4>3 DEF Piece
      <4> QED
        BY <4>1, <4>2, <4>4 DEF At
    <3> QED
      BY <2>3, <3>3, <3>4, <3>5
  <2> QED
    BY <1>1, <2>1, <2>6, <2>7, <2>8
    DEF StoreInv, Arguments, LinkContent, RootFiles, GrowFile, FillContent, Unformatted, Writing
<1> QED
  BY <1>2, <1>3

LEMMA CreateInodeStore ==
  ASSUME Safe, StoreInv, CreateInode
  PROVE  StoreInv' /\ StoreStep
<1>1. /\ inode \in Tables /\ node \in InodeRec /\ ino \in Ino /\ ino # 0
      /\ ~IsFile(data, inode, ino)
      /\ node.magic /\ node.size = Len(content) /\ node.count = BlocksFor(node.size)
      /\ pc = "block" /\ at = node.count /\ pc' = "link"
      /\ inode' = [inode EXCEPT ![ino] = node]
      /\ UNCHANGED <<super, data, name, content, ino>>
  BY CreateFacts DEF CreateInode, opVars, args, Safe, TypeInv, BlockCounts, OpInv, CreateOp, BlockOp
<1>2. /\ inode'[0] = inode[0] /\ inode'[ino] = node
      /\ \A i \in Ino : i # ino => inode'[i] = inode[i]
  BY <1>1, Sizes DEF Tables
<1>3. StoreStep
  <2>1. ASSUME NEW i \in Ino \ {0}, IsFile(data, inode, i)
        PROVE  SameCells(data, data, inode, inode', i)
    <3>1. inode'[i] = inode[i]
      BY <1>1, <1>2, <2>1
    <3> QED
      BY <3>1 DEF SameCells
  <2>2. SameRoot(data, data, inode, inode')
    BY <1>2 DEF SameRoot
  <2>3. \A n \in Name : FileIn(data, inode', n) = FileIn(data, inode, n)
    <3>1. inode \in Tables
      BY <1>1
    <3> QED
      BY <2>1, <2>2, <3>1, SameFiles
  <2> QED
    BY <1>1, <2>3, SameStore DEF Kept
<1>4. PackedDisk'
  BY <1>1, <1>2 DEF StoreInv, PackedDisk
<1>5. LinkContent'
  <2>1. content \in Seq(Byte) /\ Len(content) \in Nat
    BY TypeFacts DEF Safe
  <2>2. ASSUME NEW k \in 1 .. Len(content) PROVE At(data, node, k - 1) = content[k]
    <3>1. Row(k - 1) \in 1 .. BlocksFor(Len(content))
      BY <2>1, SizePlace
    <3>2. Row(k - 1) <= at
      BY <1>1, <3>1
    <3> QED
      BY <1>1, <3>2 DEF StoreInv, BlockContent
  <2>3. ReadIn(data, inode', ino) = [k \in 1 .. Len(content) |-> At(data, inode'[ino], k - 1)]
    BY <1>1, <1>2 DEF ReadIn
  <2>4. ReadIn(data, inode', ino) = [k \in 1 .. Len(content) |-> content[k]]
    BY <1>2, <2>2, <2>3
  <2>5. content = [k \in 1 .. Len(content) |-> content[k]]
    BY <2>1
  <2> QED
    BY <1>1, <2>4, <2>5 DEF LinkContent
<1> QED
  BY <1>1, <1>3, <1>4, <1>5
  DEF StoreInv, Arguments, BlockContent, RootFiles, GrowFile, FillContent, Unformatted, Writing

LEMMA LinkRootStore ==
  ASSUME Safe, StoreInv, LinkRoot
  PROVE  StoreInv' /\ StoreStep
<1>1. /\ pc = "root" /\ Return /\ inode' = After /\ UNCHANGED <<super, data>>
      /\ inode \in Tables
  BY CreateFacts DEF LinkRoot, After
<1>2. inode'[0] = node
  BY <1>1, Sizes DEF After, Tables
<1>3. PackedDisk'
  BY <1>1, <1>2 DEF StoreInv, RootFiles, PackedDisk
<1>4. StoreStep
  <2>1. name \in Kept /\ content \in Contents
    BY <1>1 DEF StoreInv, Arguments, Writing
  <2>2. CASE RootNothing
    BY <1>1, <2>2, SameStore DEF RootNothing
  <2>3. CASE RootAdds
    BY <1>1, <2>1, <2>3, CreateStep DEF RootAdds
  <2> QED
    BY <1>1, <2>2, <2>3 DEF StoreInv, RootFiles
<1> QED
  BY <1>1, <1>3, <1>4, OverStore DEF StoreInv, Unformatted

LEMMA LinkInSlotStore ==
  ASSUME Safe, StoreInv, LinkInSlot
  PROVE  StoreInv' /\ StoreStep
<1> DEFINE j == First(FreeSlots)
           R == inode[0].blocks[Row(j)]
<1>1. /\ Sound(data, inode) /\ Marked(data, inode, bmap, imap)
      /\ inode \in Tables /\ data \in Disks /\ inode[0] \in InodeRec
      /\ ino \in Ino /\ ino # 0 /\ ino \in imap /\ ~IsFile(data, inode, ino)
      /\ inode[ino].magic /\ inode[ino].count = BlocksFor(inode[ino].size)
      /\ Spare(inode[ino], 1, inode[ino].count, data, inode, bmap)
      /\ NewEntry # Zero
  BY LinkFacts DEF LinkInSlot
<1>2. /\ data' = [data EXCEPT ![R][Col(j)] = NewEntry]
      /\ node' = [inode[0] EXCEPT !.size = @ + 1]
      /\ pc = "link" /\ pc' = "root"
      /\ UNCHANGED <<super, inode, name, content, ino>>
  BY DEF LinkInSlot, args, Row, Col
<1>3. /\ j \in Offsets(inode[0]) /\ At(data, inode[0], j) = Zero
      /\ \A k \in Offsets(inode[0]) : At(data, inode[0], k) = Zero => j <= k
  <2>1. j \in FreeSlots /\ \A k \in FreeSlots : j <= k
    BY FirstSlot DEF LinkInSlot, Safe
  <2>2. FreeSlots = {k \in Offsets(inode[0]) : CellAt(inode[0], k) = Zero}
    BY <1>1, FreeIsZero DEF Safe, Sound
  <2> QED
    BY <2>1, <2>2 DEF CellAt, At, Row, Col
<1> HIDE DEF j
<1>4. /\ inode[0].count \in Nat /\ j \in Nat /\ Row(j) \in 1 .. inode[0].count
      /\ Col(j) \in 1 .. BlockSize
  BY <1>1, <1>3, RecordTypes, OffsetPlace
<1>5. R \in Block
  BY <1>1, <1>4, RecordTypes
<1>6. name \in Name /\ name \in Kept /\ content \in Contents
  BY <1>2 DEF StoreInv, Arguments, Writing
<1>7. NewEntry = [name |-> name, ino |-> ino]
  BY DEF NewEntry
<1>8. /\ \A c \in Block : c # R => data'[c] = data[c]
      /\ \A s \in 1 .. BlockSize : data'[R][s] = IF s = Col(j) THEN NewEntry ELSE data[R][s]
  BY <1>1, <1>2, <1>4, <1>5 DEF Disks
<1> HIDE DEF R
<1>9. Live(data, inode, 0) /\ 0 \in Ino
  BY Sizes DEF Live
<1>10. ASSUME NEW k \in Offsets(inode[0])
       PROVE  At(data', inode[0], k) = IF k = j THEN NewEntry ELSE At(data, inode[0], k)
  <2>1. k \in Nat /\ Row(k) \in 1 .. inode[0].count /\ Col(k) \in 1 .. BlockSize
    BY <1>4, OffsetPlace
  <2>2. CASE Row(k) = Row(j)
    <3>1. k = j <=> Col(k) = Col(j)
      BY <1>4, <2>1, <2>2, SamePlace
    <3> QED
      BY <1>8, <2>1, <2>2, <3>1 DEF At, R
  <2>3. CASE Row(k) # Row(j)
    <3>1. inode[0].blocks[Row(k)] # R
      BY <1>1, <1>4, <1>9, <2>1, <2>3 DEF Sound, BlocksApart, R
    <3>2. inode[0].blocks[Row(k)] \in Block
      BY <1>1, <2>1, RecordTypes
    <3>3. data'[inode[0].blocks[Row(k)]] = data[inode[0].blocks[Row(k)]]
      BY <1>8, <3>1, <3>2
    <3> QED
      BY <2>3, <3>3 DEF At
  <2> QED
    BY <2>2, <2>3
<1>11. ASSUME NEW i \in Ino \ {0}, IsFile(data, inode, i) \/ i = ino, NEW k \in 1 .. inode[i].size
       PROVE  At(data', inode[i], k - 1) = At(data, inode[i], k - 1)
  <2>1. inode[i] \in InodeRec /\ inode[i].count = BlocksFor(inode[i].size) /\ inode[i].size \in Nat
    BY <1>1, <1>11, RecordTypes DEF Tables, Sound, FilesWritten
  <2>2. Row(k - 1) \in 1 .. inode[i].count
    BY <2>1, SizePlace
  <2>3. inode[i].blocks[Row(k - 1)] # R
    <3>1. CASE i = ino
      BY <1>1, <1>4, <1>9, <2>2, <3>1 DEF Spare, R
    <3>2. CASE IsFile(data, inode, i)
      BY <1>1, <1>4, <1>9, <2>2, <3>2 DEF Sound, BlocksApart, Live, R
    <3> QED
      BY <1>11, <3>1, <3>2
  <2>4. inode[i].blocks[Row(k - 1)] \in Block
    BY <2>1, <2>2, RecordTypes
  <2> QED
    BY <1>8, <2>3, <2>4 DEF At
<1>12. /\ \A n \in Name :
            n # name \/ MatchesIn(data, inode, n) # {} =>
              FileIn(data', inode, n) = FileIn(data, inode, n)
       /\ MatchesIn(data, inode, name) = {} =>
            FileIn(data', inode, name) = ReadIn(data, inode, ino)
  <2>1. \A k \in Offsets(inode[0]) : At(data, inode[0], k) # Zero => k < j
    <3> SUFFICES ASSUME NEW k \in Offsets(inode[0]), ~(k < j)
                 PROVE  At(data, inode[0], k) = Zero
      OBVIOUS
    <3>1. k \in Nat
      BY <1>4, OffsetPlace
    <3>2. k = j \/ j < k
      BY <1>4, <3>1
    <3> QED
      BY <1>3, <3>2 DEF StoreInv, PackedDisk, Packed
  <2>2. EntryAdded(data, data', inode, inode, j, [name |-> name, ino |-> ino])
    BY <1>3, <1>7, <1>10, <2>1 DEF EntryAdded
  <2>3. \A i \in Ino \ {0} : IsFile(data, inode, i) \/ i = ino => SameCells(data, data', inode, inode, i)
    BY <1>11 DEF SameCells
  <2>4. ino \in Ino \ {0} /\ name \in Name
    BY <1>1, <1>6
  <2> QED
    BY <1>1, <2>2, <2>3, <2>4, NewFile
<1>13. StoreStep
  <2>1. ReadIn(data, inode, ino) = content
    BY <1>2 DEF StoreInv, LinkContent
  <2>2. \/ \A n \in Kept : FileIn(data', inode, n) = FileIn(data, inode, n)
        \/ /\ FileIn(data, inode, name) = Absent
           /\ FileIn(data', inode, name) = content
           /\ \A n \in Kept : n # name => FileIn(data', inode, n) = FileIn(data, inode, n)
    <3>1. CASE MatchesIn(data, inode, name) # {}
      BY <1>12, <3>1 DEF Kept
    <3>2. CASE MatchesIn(data, inode, name) = {}
      BY <1>12, <2>1, <3>2 DEF Kept, FileIn
    <3> QED
      BY <3>1, <3>2
  <2> QED
    BY <1>2, <1>6, <2>2, SameStore, CreateStep
<1>14. Packed(data', inode[0])
  <2> SUFFICES ASSUME NEW k \in Offsets(inode[0]), NEW m \in Offsets(inode[0]), k < m,
                      At(data', inode[0], k) = Zero
               PROVE  At(data', inode[0], m) = Zero
    BY DEF Packed
  <2>1. NewEntry # Zero
    BY <1>1
  <2>2. k # j /\ At(data, inode[0], k) = Zero
    BY <1>10, <2>1
  <2>3. j <= k /\ k \in Nat /\ m \in Nat
    BY <1>3, <1>4, <2>2, OffsetPlace
  <2>4. m # j
    BY <1>4, <2>3
  <2> QED
    BY <1>10, <2>2, <2>4 DEF StoreInv, PackedDisk, Packed
<1>15. node'.count = inode[0].count /\ node'.blocks = inode[0].blocks
  BY <1>1, <1>2 DEF InodeRec
<1>16. RootFiles'
  <2>1. Packed(data', node')
    BY <1>14, <1>15 DEF Packed, Offsets, At
  <2>2. /\ After'[0] = node' /\ \A i \in Ino \ {0} : After'[i] = inode[i]
    BY <1>1, <1>2, Sizes DEF After, Tables
  <2>3. \A n \in Name : FileIn(data', After', n) = FileIn(data', inode, n)
    <3>1. SameRoot(data', data', inode, After')
      BY <1>15, <2>2 DEF At, SameRoot
    <3>2. \A i \in Ino \ {0} : SameCells(data', data', inode, After', i)
      BY <2>2 DEF SameCells
    <3> QED
      BY <1>1, <3>1, <3>2, SameFiles
  <2> QED
    BY <1>2, <2>1, <2>3 DEF RootFiles, RootNothing, Kept
<1> QED
  BY <1>2, <1>13, <1>14, <1>16
  DEF StoreInv, Arguments, BlockContent, LinkContent, PackedDisk, GrowFile, FillContent, Unformatted,
      Writing

LEMMA LinkInBlockStore ==
  ASSUME Safe, StoreInv, LinkInBlock
  PROVE  StoreInv' /\ StoreStep
<1> DEFINE b == First(FreeBlocks)
           c == inode[0].count
           j == c * BlockSize
           New == [BlankBlock EXCEPT ![1] = NewEntry]
<1>1. /\ Sound(data, inode) /\ Marked(data, inode, bmap, imap)
      /\ inode \in Tables /\ data \in Disks /\ inode[0] \in InodeRec
      /\ ino \in Ino /\ ino # 0
      /\ inode[ino].magic /\ inode[ino].count = BlocksFor(inode[ino].size)
      /\ Spare(inode[ino], 1, inode[ino].count, data, inode, bmap)
      /\ NewEntry # Zero
  BY LinkFacts DEF LinkInBlock
<1>2. /\ data' = [data EXCEPT ![b] = New]
      /\ pc = "link" /\ pc' = "root"
      /\ UNCHANGED <<super, inode, name, content, ino>>
  BY DEF LinkInBlock, args
<1>3. b \in Block /\ b \notin bmap
  BY FreeBlockType DEF LinkInBlock, Safe, TypeInv
<1>4. name \in Name /\ name \in Kept /\ content \in Contents
  BY <1>2 DEF StoreInv, Arguments, Writing
<1>5. NewEntry = [name |-> name, ino |-> ino] /\ NewEntry # Zero
  BY <1>1 DEF NewEntry
<1>6. /\ New[1] = NewEntry /\ 1 \in 1 .. BlockSize
      /\ \A s \in 1 .. BlockSize : s # 1 => New[s] = Zero
  BY <1>2, NewBlock DEF Safe, Writing
<1>7. /\ c \in Nat /\ c + 1 \in Ptr
      /\ node' \in InodeRec /\ node'.count = c + 1 /\ node'.blocks[c + 1] = b
      /\ \A k \in Ptr : k # c + 1 => node'.blocks[k] = inode[0].blocks[k]
  BY RootBlockAdded DEF Safe
<1> HIDE DEF b, New
<1>8. data'[b] = New /\ \A x \in Block : x # b => data'[x] = data[x]
  BY <1>1, <1>2, <1>3 DEF Disks
<1>10. After'[0] = node' /\ \A i \in Ino \ {0} : After'[i] = inode[i]
  BY <1>1, <1>2, <1>7, Sizes DEF After, Tables
<1>11. /\ SameRoot(data, data', inode, inode)
       /\ \A i \in Ino \ {0} : IsFile(data, inode, i) => SameCells(data, data', inode, inode, i)
  BY <1>1, <1>3, <1>8, FreshBlock
<1>12. \A n \in Name : FileIn(data', inode, n) = FileIn(data, inode, n)
  BY <1>1, <1>11, SameFiles
<1>13. StoreStep
  BY <1>2, <1>12, SameStore DEF Kept
<1>14. PackedDisk'
  BY <1>2, <1>11 DEF StoreInv, PackedDisk, Packed, SameRoot
<1>15. \A k \in Offsets(inode[0]) : At(data, inode[0], k) # Zero
  <2>1. FreeSlots = {k \in Offsets(inode[0]) : CellAt(inode[0], k) = Zero}
    BY <1>1, FreeIsZero DEF Safe, Sound
  <2> QED
    BY <2>1 DEF LinkInBlock, CellAt, At, Row, Col
<1>16. /\ j \in Nat /\ Row(j) = c + 1 /\ Col(j) = 1
       /\ (c + 1) * BlockSize \in Nat /\ (c + 1) * BlockSize = j + BlockSize
  BY <1>7, BlockStart, Sizes
<1> HIDE DEF j
<1>17. /\ \A k \in Offsets(inode[0]) : k \in Nat /\ k < j
       /\ \A k : k \in Offsets(node') <=> k \in Nat /\ k < j + BlockSize
       /\ Offsets(inode[0]) \subseteq Offsets(node') /\ j \in Offsets(node')
       /\ \A k \in Offsets(node') : k \in Offsets(inode[0]) \/ j <= k
  <2>1. Offsets(inode[0]) = 0 .. j - 1
    BY DEF Offsets, j
  <2>2. Offsets(node') = 0 .. (j + BlockSize) - 1
    BY <1>7, <1>16 DEF Offsets
  <2> QED
    BY <1>16, <2>1, <2>2, Sizes
<1>18. ASSUME NEW k \in Offsets(inode[0]) PROVE At(data', node', k) = At(data, inode[0], k)
  <2>1. Row(k) \in 1 .. c
    BY <1>7, OffsetPlace
  <2>2. Row(k) \in Ptr /\ Row(k) # c + 1
    BY <1>7, <2>1, Sizes DEF Ptr
  <2>3. node'.blocks[Row(k)] = inode[0].blocks[Row(k)]
    BY <1>7, <2>2
  <2>4. At(data', inode[0], k) = At(data, inode[0], k)
    BY <1>11 DEF SameRoot
  <2> QED
    BY <2>3, <2>4 DEF At
<1>19. ASSUME NEW k \in Offsets(node'), j <= k
       PROVE  At(data', node', k) = IF k = j THEN NewEntry ELSE Zero
  <2>1. k \in Nat /\ Row(k) \in 1 .. c + 1 /\ Col(k) \in 1 .. BlockSize
    BY <1>7, OffsetPlace
  <2>2. Row(j) <= Row(k)
    BY <1>16, <1>19, <2>1, RowsGrow
  <2>3. Row(k) = c + 1
    BY <1>7, <1>16, <2>1, <2>2
  <2>4. At(data', node', k) = New[Col(k)]
    BY <1>7, <1>8, <2>3 DEF At
  <2>5. CASE k = j
    BY <1>6, <1>16, <2>4, <2>5
  <2>6. CASE k # j
    <3>1. Col(k) # 1
      BY <1>16, <2>1, <2>3, <2>6, SamePlace
    <3> QED
      BY <1>6, <2>1, <2>4, <2>6, <3>1
  <2> QED
    BY <2>5, <2>6
<1>20. EntryAdded(data, data', inode, After', j, [name |-> name, ino |-> ino])
  <2>1. At(data', node', j) = [name |-> name, ino |-> ino]
    BY <1>5, <1>16, <1>17, <1>19
  <2>2. \A k \in Offsets(node') : k \notin Offsets(inode[0]) /\ k # j => At(data', node', k) = Zero
    BY <1>17, <1>19
  <2>3. j \notin Offsets(inode[0])
    BY <1>16, <1>17
  <2> QED
    BY <1>10, <1>17, <1>18, <2>1, <2>2, <2>3 DEF EntryAdded
<1>21. ASSUME NEW i \in Ino \ {0}, IsFile(data, inode, i) \/ i = ino
       PROVE  SameCells(data, data', inode, After', i)
  <2>1. SameCells(data, data', inode, inode, i)
    <3>1. CASE IsFile(data, inode, i)
      BY <1>11, <3>1
    <3>2. CASE i = ino
      <4> SUFFICES ASSUME NEW k \in 1 .. inode[i].size
                   PROVE  At(data', inode[i], k - 1) = At(data, inode[i], k - 1)
        BY DEF SameCells
      <4>1. inode[i] \in InodeRec /\ inode[i].size \in Nat
        BY <1>1, RecordTypes DEF Tables
      <4>2. Row(k - 1) \in 1 .. inode[i].count
        BY <1>1, <3>2, <4>1, SizePlace
      <4>3. inode[i].blocks[Row(k - 1)] \in bmap /\ inode[i].blocks[Row(k - 1)] \in Block
        BY <1>1, <3>2, <4>1, <4>2, RecordTypes DEF Spare
      <4> QED
        BY <1>3, <1>8, <4>3 DEF At
    <3> QED
      BY <1>21, <3>1, <3>2
  <2>2. After'[i] = inode[i]
    BY <1>10
  <2> QED
    BY <2>1, <2>2 DEF SameCells
<1>22. /\ \A n \in Name :
            n # name \/ MatchesIn(data, inode, n) # {} =>
              FileIn(data', After', n) = FileIn(data, inode, n)
       /\ MatchesIn(data, inode, name) = {} =>
            FileIn(data', After', name) = ReadIn(data, inode, ino)
  <2>1. After' \in Tables
    BY <1>1, <1>2, <1>7, Sizes DEF After, Tables
  <2>2. ino \in Ino \ {0} /\ name \in Name
    BY <1>1, <1>4
  <2> QED
    <3>1. inode \in Tables
      BY <1>1
    <3> QED
      BY <1>20, <1>21, <2>1, <2>2, <3>1, NewFile
<1>23. RootNothing' \/ RootAdds'
  <2>1. ReadIn(data, inode, ino) = content
    BY <1>2 DEF StoreInv, LinkContent
  <2>2. \/ \A n \in Kept : FileIn(data', After', n) = FileIn(data, inode, n)
        \/ /\ FileIn(data, inode, name) = Absent
           /\ FileIn(data', After', name) = content
           /\ \A n \in Kept : n # name => FileIn(data', After', n) = FileIn(data, inode, n)
    <3>1. CASE MatchesIn(data, inode, name) # {}
      BY <1>22, <3>1 DEF Kept
    <3>2. CASE MatchesIn(data, inode, name) = {}
      BY <1>22, <2>1, <3>2 DEF Kept, FileIn
    <3> QED
      BY <3>1, <3>2
  <2> QED
    BY <1>2, <1>4, <1>12, <2>2 DEF RootNothing, RootAdds, Kept
<1>24. Packed(data', node')
  <2> SUFFICES ASSUME NEW k \in Offsets(node'), NEW m \in Offsets(node'), k < m,
                      At(data', node', k) = Zero
               PROVE  At(data', node', m) = Zero
    BY DEF Packed
  <2>1. j <= k /\ k \in Nat /\ m \in Nat
    BY <1>15, <1>17, <1>18
  <2>2. j < m
    <3>1. k # j
      BY <1>5, <1>19, <2>1
    <3> QED
      BY <1>16, <2>1, <3>1
  <2> QED
    BY <1>16, <1>19, <2>1, <2>2
<1>25. RootFiles'
  BY <1>23, <1>24 DEF RootFiles
<1> QED
  BY <1>2, <1>13, <1>14, <1>25
  DEF StoreInv, Arguments, BlockContent, LinkContent, GrowFile, FillContent, Unformatted, Writing

\* No block of the inode that grows is in two places.
LEMMA GrowingApart ==
  ASSUME Safe, pc \in {"grow", "fill"}, NEW k \in 1 .. node.count
  PROVE  /\ \A m \in 1 .. node.count : node.blocks[k] = node.blocks[m] => k = m
         /\ \A i \in Ino : i # ino /\ Live(data, inode, i) =>
              \A m \in 1 .. inode[i].count : node.blocks[k] # inode[i].blocks[m]
<1>1. /\ BlocksApart(data, inode) /\ ino \in Ino /\ Live(data, inode, ino)
      /\ \A p \in 1 .. inode[ino].count : node.blocks[p] = inode[ino].blocks[p]
      /\ Spare(node, inode[ino].count + 1, node.count, data, inode, bmap)
      /\ node.count \in Nat /\ inode[ino].count \in Nat
  BY GrowFacts DEF Sound, Live
<1>2. \A p \in 1 .. node.count :
        p \in 1 .. inode[ino].count \/ p \in inode[ino].count + 1 .. node.count
  BY <1>1
<1>3. ASSUME NEW m \in 1 .. node.count, node.blocks[k] = node.blocks[m] PROVE k = m
  BY <1>1, <1>2, <1>3 DEF Spare, BlocksApart
<1>4. ASSUME NEW i \in Ino, i # ino, Live(data, inode, i), NEW m \in 1 .. inode[i].count
      PROVE  node.blocks[k] # inode[i].blocks[m]
  BY <1>1, <1>2, <1>4 DEF Spare, BlocksApart
<1> QED
  BY <1>3, <1>4

\* Until it is complete it reads as the file does.
LEMMA GrowingCells ==
  ASSUME Safe, pc \in {"grow", "fill"}, NEW k \in 1 .. inode[ino].size
  PROVE  /\ k - 1 \in Nat /\ Row(k - 1) \in 1 .. inode[ino].count
         /\ Row(k - 1) \in 1 .. node.count
         /\ node.blocks[Row(k - 1)] = inode[ino].blocks[Row(k - 1)]
<1>1. /\ ino \in Ino /\ inode[ino] \in InodeRec /\ IsFile(data, inode, ino) /\ Sound(data, inode)
      /\ node.count \in Nat /\ inode[ino].count \in Nat /\ inode[ino].count <= node.count
      /\ \A p \in 1 .. inode[ino].count : node.blocks[p] = inode[ino].blocks[p]
  BY GrowFacts
<1>2. inode[ino].size \in Nat /\ inode[ino].count = BlocksFor(inode[ino].size)
  BY <1>1, RecordTypes DEF Sound, FilesWritten
<1>3. k - 1 \in Nat /\ Row(k - 1) \in 1 .. inode[ino].count
  BY <1>2, SizePlace
<1> QED
  BY <1>1, <1>3

LEMMA FillStore ==
  ASSUME Safe, StoreInv, Fill
  PROVE  StoreInv' /\ StoreStep
<1> DEFINE j == node.size + at
           R == node.blocks[Row(j)]
<1>1. /\ pc = "fill" /\ at < Len(content) /\ at' = at + 1
      /\ data' = [data EXCEPT ![R][Col(j)] = content[at + 1]]
      /\ UNCHANGED <<super, inode, pc, name, content, ino, node>>
  BY DEF Fill, args, Row, Col
<1>2. /\ data \in Disks /\ inode \in Tables /\ node \in InodeRec /\ at \in Nat /\ ino \in Ino
      /\ node.size \in Nat /\ Len(content) \in Nat /\ node.count \in Nat
      /\ ino # 0 /\ node.size = inode[ino].size /\ Sound(data, inode)
  BY <1>1, GrowFacts, TypeFacts DEF Safe
<1>3. node.count = BlocksFor(NewSize)
  BY <1>1 DEF Safe, TypeInv, GrowCounts
<1>4. j \in Nat /\ Row(j) \in 1 .. node.count /\ Col(j) \in 1 .. BlockSize
  <2>1. j \in Nat /\ j < NewSize /\ NewSize \in Nat
    BY <1>1, <1>2 DEF NewSize
  <2>2. Row(j) \in 1 .. BlocksFor(NewSize)
    BY <2>1, PositionInSize DEF Row
  <2>3. Col(j) \in 1 .. BlockSize
    BY <2>1, Places
  <2> QED
    BY <1>3, <2>1, <2>2, <2>3
<1>5. R \in Block
  BY <1>2, <1>4, RecordTypes
<1>6. /\ \A x \in Block : x # R => data'[x] = data[x]
      /\ \A s \in 1 .. BlockSize : data'[R][s] = IF s = Col(j) THEN content[at + 1] ELSE data[R][s]
  BY <1>1, <1>2, <1>4, <1>5 DEF Disks
<1>7. ASSUME NEW i \in Ino, i # ino, Live(data, inode, i), NEW m \in 1 .. inode[i].count
      PROVE  data'[inode[i].blocks[m]] = data[inode[i].blocks[m]]
  <2>1. R # inode[i].blocks[m]
    BY <1>1, <1>4, <1>7, GrowingApart
  <2>2. inode[i].blocks[m] \in Block
    BY <1>2, RecordTypes DEF Tables
  <2> QED
    BY <1>6, <2>1, <2>2
<1>8. ASSUME NEW k \in Nat, Row(k) \in 1 .. node.count
      PROVE  At(data', node, k) = IF k = j THEN content[at + 1] ELSE At(data, node, k)
  <2>1. Col(k) \in 1 .. BlockSize
    BY Places
  <2>2. CASE Row(k) = Row(j)
    <3>1. k = j <=> Col(k) = Col(j)
      BY <1>4, <2>2, SamePlace
    <3> QED
      BY <1>6, <2>1, <2>2, <3>1 DEF At
  <2>3. CASE Row(k) # Row(j)
    <3>1. node.blocks[Row(k)] # R
      BY <1>1, <1>4, <1>8, <2>3, GrowingApart
    <3>2. node.blocks[Row(k)] \in Block
      BY <1>2, <1>8, RecordTypes
    <3>3. data'[node.blocks[Row(k)]] = data[node.blocks[Row(k)]]
      BY <1>6, <3>1, <3>2
    <3> QED
      BY <2>3, <3>3 DEF At
  <2> QED
    BY <2>2, <2>3
<1> HIDE DEF R
<1>9. SameRoot(data, data', inode, inode)
  <2>1. 0 \in Ino /\ 0 # ino /\ Live(data, inode, 0)
    BY <1>2, Sizes DEF Live
  <2>2. inode[0].count \in Nat
    BY <1>2, <2>1, RecordTypes DEF Tables
  <2>3. ASSUME NEW k \in Offsets(inode[0]) PROVE At(data', inode[0], k) = At(data, inode[0], k)
    <3>1. Row(k) \in 1 .. inode[0].count
      BY <2>2, OffsetPlace
    <3> QED
      BY <1>7, <2>1, <3>1 DEF At
  <2> QED
    BY <2>3 DEF SameRoot
<1>10. ASSUME NEW i \in Ino \ {0}, IsFile(data, inode, i)
       PROVE  SameCells(data, data', inode, inode, i)
  <2> SUFFICES ASSUME NEW k \in 1 .. inode[i].size
               PROVE  At(data', inode[i], k - 1) = At(data, inode[i], k - 1)
    BY DEF SameCells
  <2>1. CASE i = ino
    <3>1. /\ k - 1 \in Nat /\ Row(k - 1) \in 1 .. node.count
          /\ node.blocks[Row(k - 1)] = inode[i].blocks[Row(k - 1)]
      BY <1>1, <2>1, GrowingCells
    <3>2. k - 1 # j
      BY <1>2, <2>1, <3>1 DEF j
    <3>3. At(data', node, k - 1) = At(data, node, k - 1)
      BY <1>8, <3>1, <3>2
    <3> QED
      BY <3>1, <3>3 DEF At
  <2>2. CASE i # ino
    <3>1. inode[i].size \in Nat /\ inode[i].count = BlocksFor(inode[i].size)
      BY <1>2, <1>10, RecordTypes DEF Tables, Sound, FilesWritten
    <3>2. Row(k - 1) \in 1 .. inode[i].count
      BY <3>1, SizePlace
    <3>3. Live(data, inode, i)
      BY <1>10 DEF Live
    <3> QED
      BY <1>7, <2>2, <3>2, <3>3 DEF At
  <2> QED
    BY <2>1, <2>2
<1>11. \A n \in Name :
         /\ MatchesIn(data', inode, n) = MatchesIn(data, inode, n)
         /\ MatchesIn(data, inode, n) # {} => LookupIn(data', inode, n) = LookupIn(data, inode, n)
         /\ FileIn(data', inode, n) = FileIn(data, inode, n)
  BY <1>2, <1>9, <1>10, SameFiles
<1>12. StoreStep
  BY <1>1, <1>11, SameStore DEF Kept
<1>13. PackedDisk'
  BY <1>1, <1>9 DEF StoreInv, PackedDisk, Packed, SameRoot
<1>14. GrowFile'
  <2>1. name \in Name
    BY <1>1 DEF StoreInv, Arguments, Writing
  <2> QED
    BY <1>1, <1>11, <2>1 DEF StoreInv, GrowFile
<1>15. FillContent'
  <2> SUFFICES ASSUME NEW k \in 1 .. at + 1 PROVE At(data', node, node.size + k - 1) = content[k]
    BY <1>1 DEF FillContent
  <2>1. PICK m \in Nat : m = node.size + k - 1 /\ m < NewSize
    <3>1. node.size + k - 1 \in Nat /\ node.size + k - 1 < NewSize
      BY <1>1, <1>2 DEF NewSize
    <3> QED
      BY <3>1
  <2>2. Row(m) \in 1 .. node.count
    <3>1. NewSize \in Nat
      BY <1>2 DEF NewSize
    <3> QED
      BY <1>3, <2>1, <3>1, PositionInSize DEF Row
  <2>3. CASE k = at + 1
    <3>1. m = j
      BY <1>2, <2>1, <2>3 DEF j
    <3> QED
      BY <1>8, <2>1, <2>2, <2>3, <3>1
  <2>4. CASE k # at + 1
    <3>1. k \in 1 .. at /\ m # j
      BY <1>2, <2>1, <2>4 DEF j
    <3>2. At(data, node, m) = content[k]
      BY <1>1, <2>1, <3>1 DEF StoreInv, FillContent
    <3> QED
      BY <1>8, <2>1, <2>2, <3>1, <3>2
  <2> QED
    BY <2>3, <2>4
<1> QED
  BY <1>1, <1>12, <1>13, <1>14, <1>15
  DEF StoreInv, Arguments, BlockContent, LinkContent, RootFiles, Unformatted, Writing

LEMMA AppendInodeStore ==
  ASSUME Safe, StoreInv, AppendInode
  PROVE  StoreInv' /\ StoreStep
<1> DEFINE nd == [node EXCEPT !.size = NewSize]
<1>1. /\ pc = "fill" /\ at = Len(content) /\ Return
      /\ inode' = [inode EXCEPT ![ino] = nd] /\ UNCHANGED <<super, data>>
  BY DEF AppendInode
<1>2. /\ inode \in Tables /\ data \in Disks /\ node \in InodeRec /\ ino \in Ino /\ ino # 0
      /\ Sound(data, inode) /\ IsFile(data, inode, ino)
      /\ node.magic /\ node.size = inode[ino].size /\ node.count \in Nat
      /\ content \in Seq(Byte)
  BY <1>1, GrowFacts, TypeFacts DEF Safe
<1>3. nd.magic /\ nd.size = inode[ino].size + Len(content) /\ nd.blocks = node.blocks
  BY <1>2 DEF InodeRec, NewSize
<1> HIDE DEF nd
<1>4. name \in Name /\ content \in Contents
  BY <1>1 DEF StoreInv, Arguments, Writing
<1>5. MatchesIn(data, inode, name) # {} /\ ino = LookupIn(data, inode, name)
  BY <1>1 DEF StoreInv, GrowFile
<1>6. ASSUME NEW k \in 1 .. inode[ino].size
      PROVE  At(data, nd, k - 1) = At(data, inode[ino], k - 1) /\ At(data, nd, k - 1) \in Cell
  <2>1. /\ k - 1 \in Nat /\ Row(k - 1) \in 1 .. node.count
        /\ node.blocks[Row(k - 1)] = inode[ino].blocks[Row(k - 1)]
    BY <1>1, GrowingCells
  <2>2. Col(k - 1) \in 1 .. BlockSize /\ node.blocks[Row(k - 1)] \in Block
    BY <1>2, <2>1, Places, RecordTypes
  <2>3. data[node.blocks[Row(k - 1)]][Col(k - 1)] \in Cell
    BY <1>2, <2>2 DEF Disks
  <2> QED
    BY <1>3, <2>1, <2>3 DEF At
<1>7. ASSUME NEW k \in 1 .. Len(content)
      PROVE  At(data, nd, inode[ino].size + k - 1) = content[k]
  <2>1. At(data, node, node.size + k - 1) = content[k]
    BY <1>1 DEF StoreInv, FillContent
  <2> QED
    BY <1>2, <1>3, <2>1 DEF At
<1>8. inode[ino].magic
  BY <1>2 DEF Sound, FilesWritten
<1>9. /\ \A n \in Name : n # name => FileIn(data, inode', n) = FileIn(data, inode, n)
      /\ FileIn(data, inode', name) = FileIn(data, inode, name) \o content
      /\ FileIn(data, inode, name) \in Seq(Cell)
  <2>1. EntriesApart(data, inode) /\ ino \in Ino \ {0} /\ name \in Name
    BY <1>2, <1>4 DEF Sound
  <2> QED
    <3>1. inode'[ino] = nd /\ \A i \in Ino : i # ino => inode'[i] = inode[i]
      BY <1>1, <1>2 DEF Tables
    <3>2. Longer(data, inode'[ino], inode[ino], content)
      BY <1>3, <1>6, <1>7, <3>1 DEF Longer
    <3> QED
      BY <1>2, <1>5, <1>8, <2>1, <3>1, <3>2, LongerFile
<1>10. StoreStep
  <2>1. CASE name \notin Kept
    BY <1>1, <1>9, <2>1, SameStore DEF Kept
  <2>2. CASE name \in Kept
    <3>1. FileIn(data, inode, name) # Absent
      BY <1>9, ValuesDiffer
    <3> QED
      BY <1>1, <1>4, <1>9, <2>2, <3>1, ExtendStep DEF Kept
  <2> QED
    BY <2>1, <2>2
<1>11. PackedDisk'
  <2>1. inode'[0] = inode[0]
    BY <1>1, <1>2, Sizes DEF Tables
  <2> QED
    BY <1>1, <2>1 DEF StoreInv, PackedDisk
<1> QED
  BY <1>1, <1>10, <1>11, OverStore DEF StoreInv, Unformatted

LEMMA StepStore == Safe /\ StoreInv /\ [Next]_vars /\ ~spoiled' => StoreInv' /\ StoreStep
<1> SUFFICES ASSUME Safe, StoreInv, [Next]_vars, ~spoiled' PROVE StoreInv' /\ StoreStep
  OBVIOUS
<1>1. CASE Boot \/ Format \/ FormatRoot \/ PowerFails
  BY <1>1, BootStore
<1>2. ASSUME NEW b \in RawBlocks, Overwrite(b) PROVE StoreInv' /\ StoreStep
  BY <1>2, OverwriteStore
<1>3. ASSUME NEW n \in Name, NEW c \in Contents, Create(n, c) \/ AppendTo(n, c)
      PROVE  StoreInv' /\ StoreStep
  BY <1>3, CreateStore, AppendToStore
<1>4. CASE Write
  BY <1>4, CreateBlockStore, CreateInodeStore, LinkInSlotStore, LinkInBlockStore, LinkRootStore,
     GrowStore, FillStore, AppendInodeStore DEF Write
<1>5. CASE UNCHANGED vars
  <2>1. StoreStep
    BY <1>5, SameStore DEF vars, disk
  <2>2. StoreInv'
    BY <1>5 DEF vars, disk, opVars, args, StoreInv, Arguments, BlockContent, LinkContent, PackedDisk,
       RootFiles, RootNothing, RootAdds, After, GrowFile, FillContent, Unformatted, Writing
  <2> QED
    BY <2>1, <2>2
<1> QED
  BY <1>1, <1>2, <1>3, <1>4, <1>5 DEF Next

\* A spoiled disk holds what it holds: spoiling it is the store's loss.
StoreIInv == IInv /\ (~spoiled => StoreInv)

Stored == [n \in Kept |-> IF Exists(n) THEN ReadInode(Lookup(n)) ELSE Absent]

LEMMA StoreIStep == StoreIInv /\ [Next]_vars => StoreIInv' /\ [Store!Next]_<<Stored, spoiled>>
<1> SUFFICES ASSUME StoreIInv, [Next]_vars
             PROVE  StoreIInv' /\ [Store!Next]_<<Stored, spoiled>>
  OBVIOUS
<1>1. IInv' /\ spoiled \in BOOLEAN /\ spoiled' \in BOOLEAN
  BY StepInv DEF StoreIInv, IInv, TypeInv, TypeOK
<1>2. CASE spoiled'
  BY <1>1, <1>2 DEF StoreIInv, Store!Next, Store!Lose
<1>3. CASE ~spoiled'
  <2>1. ~spoiled
    BY <1>3, SpoiledStays
  <2>2. StoreInv' /\ StoreStep
    BY <1>3, <2>1, StepStore DEF StoreIInv, IInv, Safe
  <2>3. Stored = Files /\ Stored' = Files' /\ spoiled' = spoiled
    BY <1>1, <1>3, <2>1, FilesAreStore, NextFilesAreStore DEF Stored
  <2>4. ASSUME NEW n \in Kept, NEW c \in Contents, Added(n, c) PROVE Store!Create(n, c)
    BY <2>3, <2>4 DEF Added, Store!Create, Stored
  <2>5. ASSUME NEW n \in Kept, NEW c \in Contents, Extended(n, c) PROVE Store!Extend(n, c)
    BY <2>3, <2>5 DEF Extended, Store!Extend, Stored
  <2> QED
    BY <1>1, <2>2, <2>3, <2>4, <2>5 DEF StoreIInv, StoreStep, Store!Next
<1> QED
  BY <1>2, <1>3

-----------------------------------------------------------------------------

\* On a disk of any size, for any contents and names, with power failures
\* between any two sectors: what a reader finds changes only as FileStore says,
\* and nothing is lost before the disk is spoiled.
THEOREM FileStoreImplemented == Spec => ImplementsFileStore
<1>1. Init => StoreIInv /\ Store!Init
  BY InitStore, InitInv DEF StoreIInv
<1>2. StoreIInv /\ [Next]_vars => StoreIInv' /\ [Store!Next]_<<Stored, spoiled>>
  BY StoreIStep
<1> QED
  BY <1>1, <1>2, PTL DEF Spec, ImplementsFileStore, Store!Spec, Stored

=============================================================================
