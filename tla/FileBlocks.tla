------------------------------ MODULE FileBlocks ------------------------------
(***************************************************************************)
(* Where read_data (student-distrib/file.c) takes the bytes of a file      *)
(* from, which is kept in blocks.                                          *)
(***************************************************************************)
EXTENDS Integers

CONSTANT BLOCK   \* BLOCK_LENGTH (4096)

ASSUME BlockAssumption == BLOCK \in Nat \ {0}

\* The place in the file of the byte after the first i, if a read starts at
\* offset.  It turns to the next block whenever cur_byte reaches the end of one,
\* but then lets cur_byte start at offset % BLOCK again: so every
\* BLOCK - offset % BLOCK bytes.
Position(offset, i) ==
  LET start == offset % BLOCK
      turns == i \div (BLOCK - start) IN
  (offset \div BLOCK + turns) * BLOCK
    + IF turns = 0 THEN start + i ELSE i % (BLOCK - start)

\* A place is past the blocks of a file: what the inode holds there is no block
\* number of the file's, and may be none at all.
PastBlocks(place, length) == place \div BLOCK > (length - 1) \div BLOCK
=============================================================================
