---------------------------- MODULE MCSovereignFS ----------------------------
(***************************************************************************)
(* Instances of SovereignFS for TLC.                                       *)
(***************************************************************************)
EXTENDS SovereignFS, TLC

CONSTANTS x, y, a, long

\* Nothing, less than a block, a block and a half, and more than an inode
\* with two blocks of two cells can hold.
MCContents == {<<>>, <<x>>, <<y, x, y>>, <<x, x, y, y, x>>}

\* The first 24 bytes of one name are another.
MCClip == [n \in Name |-> IF n = long THEN a ELSE n]

MCRawBlocks == {1}

\* Once the disk is spoiled only its type is claimed.
Unspoiled == ~spoiled

=============================================================================
