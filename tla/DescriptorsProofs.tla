-------------------------- MODULE DescriptorsProofs ---------------------------
(***************************************************************************)
(* Theorems about Descriptors, for every number of programs and of         *)
(* descriptors, every block length and every directory, while programs     *)
(* take turns in alloc_file (SharedOpen = FALSE) and, where it matters, in *)
(* listing the directory (SharedListing = FALSE).                          *)
(***************************************************************************)
EXTENDS Descriptors, SequenceTheorems, TLAPS

-----------------------------------------------------------------------------
(* Blocks.                                                                 *)

\* Quotients and remainders.
LEMMA DivFacts ==
  ASSUME NEW d \in Nat \ {0}, NEW i \in Nat
  PROVE  /\ i \div d \in Nat /\ i % d \in 0..(d - 1)
         /\ i = (i \div d) * d + (i % d)
         /\ i < d => i \div d = 0
         /\ d <= i /\ i < 2 * d => i \div d = 1 /\ i % d = i - d
<1>1. i \div d \in Nat
  OBVIOUS
<1>2. i % d \in 0..(d - 1) /\ i = (i \div d) * d + (i % d)
  OBVIOUS
<1>3. i < d => i \div d = 0
  OBVIOUS
<1>4. d <= i /\ i < 2 * d => i \div d = 1 /\ i % d = i - d
  OBVIOUS
<1> QED
  BY <1>1, <1>2, <1>3, <1>4

\* Up to the second turn to a next block, read_data takes the byte that comes next.
LEMMA BlockIsPositive == BLOCK \in Nat \ {0}
BY BlockAssumption

LEMMA PositionIsNext ==
  ASSUME NEW offset \in Nat, NEW i \in Nat, i < 2 * (BLOCK - (offset % BLOCK))
  PROVE  Position(offset, i) = offset + i
<1>1. PICK q \in Nat, r \in 0..(BLOCK - 1) : q = offset \div BLOCK /\ r = offset % BLOCK
  BY DivFacts, BlockIsPositive
<1>2. offset = q * BLOCK + r
  BY <1>1, DivFacts, BlockIsPositive
<1>3. PICK d \in Nat \ {0} : d = BLOCK - r
  BY <1>1, BlockIsPositive
<1>4. Position(offset, i) =
        (q + (i \div d)) * BLOCK + IF i \div d = 0 THEN r + i ELSE i % d
  BY <1>1, <1>3, BlockIsPositive DEF Position
<1>5. i < 2 * d
  BY <1>1, <1>3, BlockIsPositive
<1>6. CASE i < d
  <2>1. i \div d = 0
    BY <1>6, DivFacts, BlockIsPositive
  <2>2. Position(offset, i) = (q + 0) * BLOCK + (r + i)
    BY <1>4, <2>1, BlockIsPositive
  <2> QED
    BY <1>2, <2>2, BlockIsPositive
<1>7. CASE d <= i
  <2>1. i \div d = 1 /\ i % d = i - d
    BY <1>5, <1>7, DivFacts, BlockIsPositive
  <2>2. Position(offset, i) = (q + 1) * BLOCK + (i - d)
    BY <1>4, <2>1, BlockIsPositive
  <2>3. (q + 1) * BLOCK = q * BLOCK + BLOCK
    BY BlockIsPositive
  <2> QED
    BY <1>1, <1>2, <1>3, <2>2, <2>3, BlockIsPositive
<1> QED
  BY <1>6, <1>7, BlockIsPositive

\* From a multiple of a unit that fits a block, two units end before that turn.
LEMMA RoomInBlocks ==
  ASSUME NEW unit \in Nat \ {0}, BLOCK % unit = 0, NEW a \in Nat
  PROVE  2 * unit <= 2 * (BLOCK - ((a * unit) % BLOCK))
<1>1. PICK b \in Nat : BLOCK = b * unit
  <2>1. PICK b \in Nat : b = BLOCK \div unit
    BY DivFacts, BlockIsPositive
  <2>2. BLOCK = b * unit + 0
    BY <2>1, DivFacts, BlockIsPositive
  <2>3. b * unit \in Int
    BY BlockIsPositive
  <2>4. BLOCK = b * unit
    BY <2>2, <2>3, BlockIsPositive
  <2> QED
    BY <2>4, BlockIsPositive
<1>2. PICK x \in Nat : x = a * unit
  BY BlockIsPositive
<1>3. PICK q \in Nat, r \in 0..(BLOCK - 1) :
        q = x \div BLOCK /\ r = x % BLOCK
  BY DivFacts, BlockIsPositive
<1>4. x = q * BLOCK + r
  BY <1>3, DivFacts, BlockIsPositive
<1>5. BLOCK - r = unit * (b + q * b - a)
  BY <1>1, <1>2, <1>4, BlockIsPositive
<1>6. PICK k \in Int : k = b + q * b - a
  BY BlockIsPositive
<1>7. unit * k > 0
  BY <1>3, <1>5, <1>6, BlockIsPositive
<1>8. unit * k >= unit
  BY <1>7, BlockIsPositive
<1> QED
  BY <1>2, <1>3, <1>5, <1>6, <1>8, BlockIsPositive

-----------------------------------------------------------------------------
(* Types.                                                                  *)

CellType ==
  [fotp : {"none", "rtc", "dir", "file"}, inode : 0..LASTENTRY, file_pos : Int, flags : {0, 1}]

\* Setting a number in a cell.
LEMMA CellUpdates ==
  ASSUME NEW c \in CellType
  PROVE  /\ [c EXCEPT !.inode = 0] \in CellType
         /\ \A n \in Int : [c EXCEPT !.file_pos = n] \in CellType
         /\ [c EXCEPT !.flags = 0] \in CellType
         /\ [c EXCEPT !.flags = 0].flags = 0
         /\ [c EXCEPT !["file_pos"] = 0] \in CellType
<1>1. [c EXCEPT !.inode = 0] \in CellType
  BY DescriptorsAssumption DEF CellType
<1>2. \A n \in Int : [c EXCEPT !.file_pos = n] \in CellType
  BY DEF CellType
<1>3. [c EXCEPT !.flags = 0] \in CellType /\ [c EXCEPT !.flags = 0].flags = 0
  BY DEF CellType
<1>4. [c EXCEPT !["file_pos"] = 0] \in CellType
  BY DEF CellType
<1> QED
  BY <1>1, <1>2, <1>3, <1>4

USE DescriptorsAssumption, BlockAssumption

Allocating == {"search", "fotp", "inode", "file_pos", "flags", "return"}

DTypes ==
  /\ fds \in [Procs -> [Cells -> CellType]]
  /\ cur \in [Procs -> 0..LASTENTRY]
  /\ location \in Cells
  /\ dentry_index \in Int
  /\ pc \in [Procs -> Allocating \cup {"user", "listed"}]
  /\ opening \in [Procs -> Entries]
  /\ stream \in [Procs -> [Cells -> Seq(Int)]]
  /\ listing \in [Procs -> Seq(0..LASTENTRY)]

LEMMA DirectoryFacts ==
  /\ 0 \in Entries
  /\ \A e \in Entries : /\ e \in 0..LASTENTRY
                        /\ Directory[e].type \in {"rtc", "dir", "file"}
                        /\ Directory[e].length \in Nat
                        /\ Inode(e) \in 0..LASTENTRY
  /\ Cells \subseteq Nat /\ FIRST \in Cells /\ NFD \in Cells
  /\ \A fd \in FIRST..(NFD - 1) : fd \in Cells /\ fd # NFD
  /\ \A fd \in Cells : fd # NFD => fd \in FIRST..(NFD - 1)
BY DEF Entries, Inode, Cells, FIRST

LEMMA InAllocIsAllocating ==
  ASSUME DTypes, NEW p \in Procs
  PROVE  InAlloc(p) <=> pc[p] \in Allocating
BY DEF DTypes, InAlloc, Allocating

-----------------------------------------------------------------------------
(* The invariant of alloc_file: one program at a time is in it, location is *)
(* the cell it fills, and no lower cell is free.                           *)

\* What the cell holds when alloc_file has come to a point.
Filled(point, cell, e) ==
  /\ point \in {"fotp", "inode", "file_pos", "flags"} => cell.flags = 0
  /\ point \in {"inode", "file_pos", "flags", "return"} => cell.fotp = Directory[e].type
  /\ point \in {"file_pos", "flags", "return"} => cell.inode = Inode(e)
  /\ point \in {"flags", "return"} => cell.file_pos = 0
  /\ point = "return" => cell.flags = 1

AllocInv(p) ==
  /\ pc[p] \in Allocating =>
       \A fd \in FIRST..(NFD - 1) : fd < location => fds[p][fd].flags = 1
  /\ pc[p] \in Allocating \ {"search"} => location < NFD
  /\ Filled(pc[p], fds[p][location], opening[p])

\* A descriptor in use leads to an object, and is not past the end of a file.
CellInv(cell) ==
  cell.flags = 1 =>
    /\ cell.fotp \in {"rtc", "dir", "file"}
    /\ cell.fotp = "file" => /\ cell.inode \in Entries
                             /\ Directory[cell.inode].type = "file"
                             /\ cell.file_pos \in 0..Directory[cell.inode].length

OpenInv ==
  /\ DTypes
  /\ \A p, q \in Procs : pc[p] \in Allocating /\ pc[q] \in Allocating => p = q
  /\ \A p \in Procs : AllocInv(p)
  /\ \A p \in Procs : fds[p][NFD].flags = 0
  /\ \A p \in Procs : \A fd \in Cells : CellInv(fds[p][fd])

LEMMA OpenInvInit == Init => OpenInv
<1> SUFFICES ASSUME Init PROVE OpenInv
  OBVIOUS
<1>1. NoCell \in CellType
  BY DEF NoCell, CellType
<1>2. <<>> \in Seq(Int) /\ <<>> \in Seq(0..LASTENTRY)
  OBVIOUS
<1>3. \A p \in Procs : cur[p] \in 0..LASTENTRY
  BY DEF Init, Entries
<1>4. DTypes
  BY <1>1, <1>2, <1>3, DirectoryFacts DEF Init, DTypes, Allocating
<1>5. \A p \in Procs : pc[p] = "user" /\ \A fd \in Cells : fds[p][fd].flags = 0
  BY DEF Init, NoCell
<1>6. \A p \in Procs : AllocInv(p)
  BY <1>5 DEF AllocInv, Filled, Allocating
<1> QED
  BY <1>4, <1>5, <1>6, DirectoryFacts DEF OpenInv, CellInv, Allocating

\* What a statement of alloc_file changes.
LEMMA StoreChanges ==
  ASSUME OpenInv, NEW p \in Procs, NEW here \in Allocating, NEW next \in Allocating,
         NEW field \in {"fotp", "inode", "file_pos", "flags"}, NEW value,
         Store(p, here, next, field, value)
  PROVE  /\ pc[p] = here /\ pc'[p] = next
         /\ pc' \in [Procs -> Allocating \cup {"user", "listed"}]
         /\ \A q \in Procs \ {p} : pc'[q] = pc[q] /\ pc[q] \notin Allocating /\ fds'[q] = fds[q]
         /\ fds' = [fds EXCEPT ![p] = [fds[p] EXCEPT ![location] = [fds[p][location] EXCEPT ![field] = value]]]
         /\ fds'[p][location] = [fds[p][location] EXCEPT ![field] = value]
         /\ \A fd \in Cells \ {location} : fds'[p][fd] = fds[p][fd]
         /\ UNCHANGED <<cur, location, dentry_index, opening, stream, listing>>
<1>1. /\ pc[p] = here
      /\ pc' = [pc EXCEPT ![p] = next]
      /\ fds' = [fds EXCEPT ![p] = [fds[p] EXCEPT ![location] = [fds[p][location] EXCEPT ![field] = value]]]
      /\ UNCHANGED <<cur, location, dentry_index, opening, stream, listing>>
  BY DEF Store, globals, delivered
<1>2. /\ fds'[p] = [fds[p] EXCEPT ![location] = [fds[p][location] EXCEPT ![field] = value]]
      /\ \A q \in Procs \ {p} : fds'[q] = fds[q]
  <2>1. fds \in [Procs -> [Cells -> CellType]]
    BY DEF OpenInv, DTypes
  <2>2. PICK table : table = [fds[p] EXCEPT ![location] = [fds[p][location] EXCEPT ![field] = value]]
    OBVIOUS
  <2>3. fds' = [fds EXCEPT ![p] = table]
    BY <1>1, <2>2
  <2> QED
    BY <2>1, <2>2, <2>3
<1>3. /\ fds'[p][location] = [fds[p][location] EXCEPT ![field] = value]
      /\ \A fd \in Cells \ {location} : fds'[p][fd] = fds[p][fd]
  <2>1. fds[p] \in [Cells -> CellType] /\ location \in Cells
    BY DEF OpenInv, DTypes
  <2> QED
    BY <1>2, <2>1
<1>4. /\ pc'[p] = next
      /\ pc' \in [Procs -> Allocating \cup {"user", "listed"}]
      /\ \A q \in Procs \ {p} : pc'[q] = pc[q] /\ pc[q] \notin Allocating
  BY <1>1 DEF OpenInv, DTypes
<1> QED
  BY <1>1, <1>2, <1>3, <1>4

\* After it, the invariant follows from what it says of the cell that is filled.
LEMMA StoreKeepsOpenInv ==
  ASSUME OpenInv, NEW p \in Procs, NEW here \in Allocating, NEW next \in Allocating,
         here # "search", next # "search",
         NEW field \in {"fotp", "inode", "file_pos", "flags"}, NEW value,
         Store(p, here, next, field, value),
         NEW cell \in CellType, cell = [fds[p][location] EXCEPT ![field] = value],
         CellInv(cell), Filled(next, cell, opening[p])
  PROVE  OpenInv'
<1>1. /\ pc[p] = here /\ pc'[p] = next
      /\ pc' \in [Procs -> Allocating \cup {"user", "listed"}]
      /\ \A q \in Procs \ {p} : pc'[q] = pc[q] /\ pc[q] \notin Allocating /\ fds'[q] = fds[q]
      /\ fds' = [fds EXCEPT ![p] = [fds[p] EXCEPT ![location] = cell]]
      /\ fds'[p][location] = cell
      /\ \A fd \in Cells \ {location} : fds'[p][fd] = fds[p][fd]
      /\ UNCHANGED <<cur, location, dentry_index, opening, stream, listing>>
  BY StoreChanges
<1>2. location < NFD /\ location \in Cells
  BY <1>1 DEF OpenInv, AllocInv, DTypes
<1>3. DTypes'
  <2>1. [fds[p] EXCEPT ![location] = cell] \in [Cells -> CellType]
    BY DEF OpenInv, DTypes
  <2>2. fds' \in [Procs -> [Cells -> CellType]]
    BY <1>1, <2>1 DEF OpenInv, DTypes
  <2> QED
    BY <1>1, <2>2 DEF OpenInv, DTypes
<1>4. AllocInv(p)'
  <2>1. \A fd \in FIRST..(NFD - 1) : fd < location => fds'[p][fd].flags = 1
    BY <1>1, <1>2, DirectoryFacts DEF OpenInv, AllocInv
  <2> QED
    BY <1>1, <1>2, <2>1 DEF AllocInv
<1>5. ASSUME NEW q \in Procs, q # p PROVE AllocInv(q)'
  <2>1. pc'[q] \notin Allocating
    BY <1>1, <1>5
  <2> QED
    BY <2>1 DEF AllocInv, Filled, Allocating
<1>6. \A q \in Procs : fds'[q][NFD].flags = 0
  BY <1>1, <1>2, DirectoryFacts DEF OpenInv
<1>7. \A q \in Procs : \A fd \in Cells : CellInv(fds'[q][fd])
  BY <1>1 DEF OpenInv
<1>8. \A q, r \in Procs : pc'[q] \in Allocating /\ pc'[r] \in Allocating => q = r
  BY <1>1
<1> QED
  BY <1>3, <1>4, <1>5, <1>6, <1>7, <1>8 DEF OpenInv, CellInv

\* The four statements, in their order.
LEMMA StoresKeepOpenInv ==
  ASSUME OpenInv, NEW p \in Procs,
         StoreFotp(p) \/ StoreInode(p) \/ StorePos(p) \/ StoreFlags(p)
  PROVE  OpenInv'
<1> DEFINE cell == fds[p][location]
           e == opening[p]
<1>1. cell \in CellType /\ e \in Entries /\ AllocInv(p)
  BY DEF OpenInv, DTypes
<1>2. CASE StoreFotp(p)
  <2>1. Store(p, "fotp", "inode", "fotp", Directory[e].type) /\ pc[p] = "fotp"
    BY <1>2 DEF StoreFotp, Store
  <2>2. [cell EXCEPT !["fotp"] = Directory[e].type] \in CellType
    BY <1>1, DirectoryFacts DEF CellType
  <2>3. PICK c \in CellType : c = [cell EXCEPT !["fotp"] = Directory[e].type]
    BY <2>2
  <2>4. c.fotp = Directory[e].type /\ c.inode = cell.inode /\ c.file_pos = cell.file_pos /\ c.flags = cell.flags
    BY <1>1, <2>3 DEF CellType
  <2>5. Filled("inode", c, e) /\ CellInv(c)
    BY <1>1, <2>1, <2>4, DirectoryFacts DEF AllocInv, Filled, CellInv, Inode
  <2>6. /\ "fotp" \in Allocating /\ "inode" \in Allocating
        /\ "fotp" # "search" /\ "inode" # "search"
    BY DEF Allocating
  <2> QED
    BY <2>1, <2>3, <2>5, <2>6, StoreKeepsOpenInv
<1>3. CASE StoreInode(p)
  <2>1. Store(p, "inode", "file_pos", "inode", Inode(e)) /\ pc[p] = "inode"
    BY <1>3 DEF StoreInode, Store
  <2>2. [cell EXCEPT !["inode"] = Inode(e)] \in CellType
    BY <1>1, DirectoryFacts DEF CellType
  <2>3. PICK c \in CellType : c = [cell EXCEPT !["inode"] = Inode(e)]
    BY <2>2
  <2>4. c.inode = Inode(e) /\ c.fotp = cell.fotp /\ c.file_pos = cell.file_pos /\ c.flags = cell.flags
    BY <1>1, <2>3 DEF CellType
  <2>5. Filled("file_pos", c, e) /\ CellInv(c)
    BY <1>1, <2>1, <2>4, DirectoryFacts DEF AllocInv, Filled, CellInv, Inode
  <2>6. /\ "inode" \in Allocating /\ "file_pos" \in Allocating
        /\ "inode" # "search" /\ "file_pos" # "search"
    BY DEF Allocating
  <2> QED
    BY <2>1, <2>3, <2>5, <2>6, StoreKeepsOpenInv
<1>4. CASE StorePos(p)
  <2>1. Store(p, "file_pos", "flags", "file_pos", 0) /\ pc[p] = "file_pos"
    BY <1>4 DEF StorePos, Store
  <2>2. [cell EXCEPT !["file_pos"] = 0] \in CellType
    BY <1>1, CellUpdates
  <2>3. PICK c \in CellType : c = [cell EXCEPT !["file_pos"] = 0]
    BY <2>2
  <2>4. c.file_pos = 0 /\ c.fotp = cell.fotp /\ c.inode = cell.inode /\ c.flags = cell.flags
    BY <1>1, <2>3 DEF CellType
  <2>5. Filled("flags", c, e) /\ CellInv(c)
    BY <1>1, <2>1, <2>4, DirectoryFacts DEF AllocInv, Filled, CellInv, Inode
  <2>6. /\ "file_pos" \in Allocating /\ "flags" \in Allocating
        /\ "file_pos" # "search" /\ "flags" # "search"
    BY DEF Allocating
  <2> QED
    BY <2>1, <2>3, <2>5, <2>6, StoreKeepsOpenInv
<1>5. CASE StoreFlags(p)
  <2>1. Store(p, "flags", "return", "flags", 1) /\ pc[p] = "flags"
    BY <1>5 DEF StoreFlags, Store
  <2>2. [cell EXCEPT !["flags"] = 1] \in CellType
    BY <1>1, DirectoryFacts DEF CellType
  <2>3. PICK c \in CellType : c = [cell EXCEPT !["flags"] = 1]
    BY <2>2
  <2>4. c.flags = 1 /\ c.fotp = cell.fotp /\ c.inode = cell.inode /\ c.file_pos = cell.file_pos
    BY <1>1, <2>3 DEF CellType
  <2>5. Filled("return", c, e) /\ CellInv(c)
    BY <1>1, <2>1, <2>4, DirectoryFacts DEF AllocInv, Filled, CellInv, Inode
  <2>6. /\ "flags" \in Allocating /\ "return" \in Allocating
        /\ "flags" # "search" /\ "return" # "search"
    BY DEF Allocating
  <2> QED
    BY <2>1, <2>3, <2>5, <2>6, StoreKeepsOpenInv
<1> QED
  BY <1>2, <1>3, <1>4, <1>5

\* open gives location to one program, and only then.
LEMMA OpenKeepsOpenInv ==
  ASSUME OpenInv, ~SharedOpen, NEW p \in Procs, NEW e \in Entries, Open(p, e)
  PROVE  OpenInv'
<1>1. /\ pc[p] = "user"
      /\ opening' = [opening EXCEPT ![p] = e]
      /\ location' = FIRST
      /\ pc' = [pc EXCEPT ![p] = "search"]
      /\ UNCHANGED <<fds, cur, dentry_index, stream, listing>>
  BY DEF Open, tables, delivered
<1>2. \A q \in Procs \ {p} : pc[q] \notin Allocating
  BY InAllocIsAllocating DEF Open, MayAllocate, OpenInv
<1>3. /\ pc' \in [Procs -> Allocating \cup {"user", "listed"}]
      /\ opening' \in [Procs -> Entries]
  BY <1>1 DEF OpenInv, DTypes, Allocating
<1>4. pc'[p] = "search" /\ \A q \in Procs \ {p} : pc'[q] \notin Allocating
  BY <1>1, <1>2 DEF OpenInv, DTypes
<1>5. DTypes'
  BY <1>1, <1>3, DirectoryFacts DEF OpenInv, DTypes
<1>6. \A fd \in FIRST..(NFD - 1) : ~(fd < FIRST)
  BY DEF FIRST
<1>7. ASSUME NEW q \in Procs PROVE AllocInv(q)'
  BY <1>1, <1>4, <1>6 DEF AllocInv, Filled, Allocating
<1> QED
  BY <1>1, <1>4, <1>5, <1>7 DEF OpenInv, CellInv

\* The search passes only cells in use, and stops at a free one or after the
\* last.
LEMMA SearchKeepsOpenInv ==
  ASSUME OpenInv, NEW p \in Procs, Search(p)
  PROVE  OpenInv'
<1>1. /\ pc[p] = "search" /\ UNCHANGED <<fds, cur, dentry_index, stream, listing>>
      /\ location \in Cells
      /\ \A fd \in FIRST..(NFD - 1) : fd < location => fds[p][fd].flags = 1
  BY DEF Search, tables, delivered, OpenInv, DTypes, AllocInv, Allocating
<1>2. \A q \in Procs \ {p} : pc[q] \notin Allocating
  BY <1>1 DEF OpenInv, Allocating
<1>3. CASE /\ ~InArray(location)
           /\ pc' = [pc EXCEPT ![p] = "user"]
           /\ opening' = [opening EXCEPT ![p] = 0]
           /\ UNCHANGED location
  <2>1. DTypes'
    BY <1>1, <1>3, DirectoryFacts DEF OpenInv, DTypes
  <2>2. \A q \in Procs : pc'[q] \notin Allocating
    BY <1>2, <1>3 DEF OpenInv, DTypes, Allocating
  <2>3. ASSUME NEW q \in Procs PROVE AllocInv(q)'
    BY <2>2 DEF AllocInv, Filled, Allocating
  <2> QED
    BY <1>1, <2>1, <2>2, <2>3 DEF OpenInv, CellInv
<1>4. CASE /\ InArray(location)
           /\ CellFree(fds[p][location])
           /\ pc' = [pc EXCEPT ![p] = "fotp"]
           /\ UNCHANGED <<location, opening>>
  <2>1. DTypes'
    BY <1>1, <1>4 DEF OpenInv, DTypes, Allocating
  <2>2. pc'[p] = "fotp" /\ \A q \in Procs \ {p} : pc'[q] \notin Allocating
    BY <1>2, <1>4 DEF OpenInv, DTypes
  <2>3. ASSUME NEW q \in Procs PROVE AllocInv(q)'
    BY <1>1, <1>4, <2>2 DEF AllocInv, Filled, Allocating, InArray, CellFree
  <2> QED
    BY <1>1, <2>1, <2>2, <2>3 DEF OpenInv, CellInv
<1>5. CASE /\ InArray(location)
           /\ ~CellFree(fds[p][location])
           /\ location' = location + 1
           /\ UNCHANGED control
  <2>1. location < NFD /\ fds[p][location].flags = 1
    BY <1>1, <1>5 DEF InArray, CellFree, OpenInv, DTypes, CellType
  <2>2. location' \in Cells
    BY <1>1, <1>5, <2>1 DEF Cells, FIRST
  <2>3. DTypes'
    BY <1>1, <1>5, <2>2 DEF OpenInv, DTypes, control
  <2>4. \A fd \in FIRST..(NFD - 1) : fd < location' => fd < location \/ fd = location
    BY <1>1, <1>5, DirectoryFacts DEF Cells
  <2>5. \A fd \in FIRST..(NFD - 1) : fd < location' => fds[p][fd].flags = 1
    BY <1>1, <2>1, <2>4
  <2>6. pc' = pc /\ opening' = opening
    BY <1>5 DEF control
  <2>7. ASSUME NEW q \in Procs PROVE AllocInv(q)'
    BY <1>1, <1>2, <2>5, <2>6 DEF AllocInv, Filled, Allocating
  <2> QED
    BY <1>1, <2>3, <2>6, <2>7 DEF OpenInv, CellInv
<1> QED
  BY <1>3, <1>4, <1>5 DEF Search

\* A step of a program that is not in alloc_file, or leaves it, and that changes
\* nobody's cells but its own.
LEMMA OutsideKeepsOpenInv ==
  ASSUME OpenInv, NEW p \in Procs,
         pc' \in [Procs -> Allocating \cup {"user", "listed"}],
         pc'[p] \notin Allocating,
         \A q \in Procs \ {p} : pc'[q] = pc[q] /\ opening'[q] = opening[q] /\ fds'[q] = fds[q],
         location' = location \/ (location' \in Cells /\ \A q \in Procs \ {p} : pc[q] \notin Allocating),
         fds' \in [Procs -> [Cells -> CellType]],
         fds'[p][NFD].flags = 0,
         \A fd \in Cells : CellInv(fds'[p][fd]),
         cur' \in [Procs -> 0..LASTENTRY], dentry_index' \in Int,
         opening' \in [Procs -> Entries],
         stream' \in [Procs -> [Cells -> Seq(Int)]],
         listing' \in [Procs -> Seq(0..LASTENTRY)]
  PROVE  OpenInv'
<1>1. DTypes'
  BY DEF OpenInv, DTypes
<1>2. ASSUME NEW q \in Procs PROVE AllocInv(q)'
  <2>1. CASE pc'[q] \notin Allocating
    BY <2>1 DEF AllocInv, Filled, Allocating
  <2>2. CASE pc'[q] \in Allocating
    <3>1. q # p /\ pc'[q] = pc[q] /\ opening'[q] = opening[q] /\ fds'[q] = fds[q] /\ location' = location
      BY <2>2
    <3> QED
      BY <3>1 DEF OpenInv, AllocInv
  <2> QED
    BY <2>1, <2>2
<1>3. \A q \in Procs : fds'[q][NFD].flags = 0 /\ \A fd \in Cells : CellInv(fds'[q][fd])
  BY DEF OpenInv
<1>4. \A q, r \in Procs : pc'[q] \in Allocating /\ pc'[r] \in Allocating => q = r
  BY DEF OpenInv
<1> QED
  BY <1>1, <1>2, <1>3, <1>4 DEF OpenInv, CellInv

LEMMA OpenDeviceKeepsOpenInv ==
  ASSUME OpenInv, NEW p \in Procs, OpenDevice(p)
  PROVE  OpenInv'
<1>1. /\ pc' = [pc EXCEPT ![p] = "user"] /\ opening' = [opening EXCEPT ![p] = 0]
      /\ cur' = cur \/ cur' = [cur EXCEPT ![p] = opening[p]]
      /\ dentry_index' \in {dentry_index, 0}
      /\ listing' = listing \/ listing' = [listing EXCEPT ![p] = <<>>]
      /\ UNCHANGED <<fds, location, stream>>
  BY DEF OpenDevice, FirstEntry
<1>2. /\ pc' \in [Procs -> Allocating \cup {"user", "listed"}]
      /\ pc'[p] \notin Allocating
      /\ \A q \in Procs \ {p} : pc'[q] = pc[q] /\ opening'[q] = opening[q]
  BY <1>1 DEF OpenInv, DTypes, Allocating
<1>3. opening' \in [Procs -> Entries]
  BY <1>1, DirectoryFacts DEF OpenInv, DTypes
<1>4. cur' \in [Procs -> 0..LASTENTRY]
  <2>1. opening[p] \in 0..LASTENTRY
    BY DirectoryFacts DEF OpenInv, DTypes
  <2> QED
    BY <1>1, <2>1 DEF OpenInv, DTypes
<1>5. dentry_index' \in Int
  BY <1>1 DEF OpenInv, DTypes
<1>6. listing' \in [Procs -> Seq(0..LASTENTRY)]
  <2>1. <<>> \in Seq(0..LASTENTRY)
    OBVIOUS
  <2> QED
    BY <1>1, <2>1 DEF OpenInv, DTypes
<1> QED
  BY <1>1, <1>2, <1>3, <1>4, <1>5, <1>6, OutsideKeepsOpenInv DEF OpenInv, DTypes

\* The programs' calls outside open, by what they do to a program's own table.
LEMMA OwnTableKeepsOpenInv ==
  ASSUME OpenInv, NEW p \in Procs, pc[p] = "user",
         NEW table \in [Cells -> CellType], fds' = [fds EXCEPT ![p] = table],
         table[NFD].flags = 0, \A fd \in Cells : CellInv(table[fd]),
         location' = location \/ (location' \in Cells /\ \A q \in Procs \ {p} : pc[q] \notin Allocating),
         cur' \in [Procs -> 0..LASTENTRY],
         stream' \in [Procs -> [Cells -> Seq(Int)]],
         listing' \in [Procs -> Seq(0..LASTENTRY)],
         UNCHANGED <<dentry_index, pc, opening>>
  PROVE  OpenInv'
<1>1. /\ fds' \in [Procs -> [Cells -> CellType]]
      /\ fds'[p] = table
      /\ \A q \in Procs \ {p} : fds'[q] = fds[q]
  BY DEF OpenInv, DTypes
<1>2. pc'[p] \notin Allocating
  BY DEF Allocating
<1> QED
  BY <1>1, <1>2, OutsideKeepsOpenInv DEF OpenInv, DTypes

LEMMA CloseKeepsOpenInv ==
  ASSUME OpenInv, NEW p \in Procs, NEW fd \in Cells, Close(p, fd)
  PROVE  OpenInv'
<1> DEFINE closed == [fds[p][fd] EXCEPT !.inode = 0, !.file_pos = 0, !.flags = 0]
           table == [fds[p] EXCEPT ![fd] = closed]
<1>1. /\ pc[p] = "user"
      /\ fds' = [fds EXCEPT ![p][fd] = closed]
      /\ stream' = [stream EXCEPT ![p][fd] = <<>>]
      /\ listing' \in {listing, [listing EXCEPT ![p] = <<>>]}
      /\ UNCHANGED <<cur, location, dentry_index, pc, opening>>
  BY DEF Close, globals, control
<1>2. closed \in CellType /\ closed.flags = 0
  <2>1. ASSUME NEW c \in CellType
        PROVE  /\ [c EXCEPT !.inode = 0, !.file_pos = 0, !.flags = 0] \in CellType
               /\ [c EXCEPT !.inode = 0, !.file_pos = 0, !.flags = 0].flags = 0
    <3>1. PICK c1 \in CellType : c1 = [c EXCEPT !.inode = 0]
      BY CellUpdates
    <3>2. PICK c2 \in CellType : c2 = [c1 EXCEPT !.file_pos = 0]
      BY CellUpdates
    <3>3. PICK c3 \in CellType : c3 = [c2 EXCEPT !.flags = 0]
      BY CellUpdates
    <3>4. [c EXCEPT !.inode = 0, !.file_pos = 0, !.flags = 0] = c3
      BY <3>1, <3>2, <3>3
    <3>5. c3.flags = 0
      BY <3>3, CellUpdates
    <3> QED
      BY <3>4, <3>5
  <2>2. fds[p][fd] \in CellType
    BY DEF OpenInv, DTypes
  <2> QED
    BY <2>1, <2>2
<1> HIDE DEF closed
<1>3. table \in [Cells -> CellType] /\ fds' = [fds EXCEPT ![p] = table]
  BY <1>1, <1>2 DEF OpenInv, DTypes
<1>4. \A x \in Cells : CellInv(table[x])
  BY <1>2 DEF OpenInv, DTypes, CellInv
<1>5. table[NFD].flags = 0
  BY <1>2, DirectoryFacts DEF OpenInv, DTypes
<1>6. <<>> \in Seq(Int) /\ <<>> \in Seq(0..LASTENTRY)
  OBVIOUS
<1>7. stream' \in [Procs -> [Cells -> Seq(Int)]] /\ listing' \in [Procs -> Seq(0..LASTENTRY)]
  <2>1. stream \in [Procs -> [Cells -> Seq(Int)]] /\ listing \in [Procs -> Seq(0..LASTENTRY)]
    BY DEF OpenInv, DTypes
  <2>2. stream' \in [Procs -> [Cells -> Seq(Int)]]
    BY <1>1, <1>6, <2>1
  <2>3. [listing EXCEPT ![p] = <<>>] \in [Procs -> Seq(0..LASTENTRY)]
    BY <1>6, <2>1
  <2> QED
    BY <1>1, <2>1, <2>2, <2>3
<1>8. PICK t \in [Cells -> CellType] : t = table
  BY <1>3
<1> QED
  BY <1>1, <1>3, <1>4, <1>5, <1>7, <1>8, OwnTableKeepsOpenInv DEF OpenInv, DTypes

LEMMA ExecuteKeepsOpenInv ==
  ASSUME OpenInv, ~SharedOpen, NEW p \in Procs, NEW e \in Entries, Execute(p, e)
  PROVE  OpenInv'
<1>1. /\ pc[p] = "user"
      /\ fds' = [fds EXCEPT ![p] = NewTable(p)]
      /\ location' = NFD
      /\ cur' = [cur EXCEPT ![p] = e]
      /\ stream' = [stream EXCEPT ![p] = [fd \in Cells |-> <<>>]]
      /\ listing' = [listing EXCEPT ![p] = <<>>]
      /\ UNCHANGED <<dentry_index, pc, opening>>
      /\ \A q \in Procs \ {p} : pc[q] \notin Allocating
  BY InAllocIsAllocating DEF Execute, control, MayAllocate, OpenInv
<1>2. NoCell \in CellType /\ NoCell.flags = 0
  BY DEF NoCell, CellType
<1>3. PICK t \in [Cells -> CellType] : t = NewTable(p)
  <2>1. \A fd \in Cells : (IF fd = NFD THEN fds[p][fd] ELSE NoCell) \in CellType
    BY <1>2 DEF OpenInv, DTypes
  <2>2. NewTable(p) \in [Cells -> CellType]
    BY <2>1 DEF NewTable
  <2> QED
    BY <2>2
<1>4. \A fd \in Cells : t[fd].flags = 0
  BY <1>2, <1>3 DEF NewTable, OpenInv
<1>5. <<>> \in Seq(Int) /\ <<>> \in Seq(0..LASTENTRY)
  OBVIOUS
<1>6. /\ stream' \in [Procs -> [Cells -> Seq(Int)]]
      /\ listing' \in [Procs -> Seq(0..LASTENTRY)]
      /\ cur' \in [Procs -> 0..LASTENTRY]
  BY <1>1, <1>5, DirectoryFacts DEF OpenInv, DTypes
<1>7. location' \in Cells /\ t[NFD].flags = 0 /\ \A fd \in Cells : CellInv(t[fd])
  BY <1>1, <1>4, DirectoryFacts DEF CellInv
<1>8. fds' = [fds EXCEPT ![p] = t]
  BY <1>1, <1>3
<1> QED
  BY <1>1, <1>6, <1>7, <1>8, OwnTableKeepsOpenInv

\* How many bytes a read delivers: never past the end of the file.
Wanted(e, offset, nbytes) ==
  LET left == Directory[e].length - offset IN IF nbytes <= left THEN nbytes ELSE left

LEMMA ReadDataLength ==
  ASSUME NEW e \in Entries, NEW offset \in 0..Directory[e].length, NEW nbytes \in Requests
  PROVE  /\ Wanted(e, offset, nbytes) \in Nat
         /\ offset + Wanted(e, offset, nbytes) \in 0..Directory[e].length
         /\ DOMAIN ReadData(e, offset, nbytes) = 1..Wanted(e, offset, nbytes)
         /\ Len(ReadData(e, offset, nbytes)) = Wanted(e, offset, nbytes)
         /\ \A i \in 1..Wanted(e, offset, nbytes) :
              ReadData(e, offset, nbytes)[i] = Position(offset, i - 1)
<1> DEFINE n == Wanted(e, offset, nbytes)
           S == {Position(offset, i - 1) : i \in 1..n}
<1>1. n \in Nat /\ offset + n \in 0..Directory[e].length
  BY DirectoryFacts DEF Wanted
<1>2. ReadData(e, offset, nbytes) = [i \in 1..n |-> Position(offset, i - 1)]
  BY DEF ReadData, Wanted
<1> HIDE DEF n
<1>3. ReadData(e, offset, nbytes) \in [1..n -> S]
  BY <1>2
<1>4. ReadData(e, offset, nbytes) \in Seq(S)
  <2>1. Seq(S) = UNION {[1..m -> S] : m \in Nat}
    BY SeqDef
  <2> QED
    BY <1>1, <1>3, <2>1
<1>5. Len(ReadData(e, offset, nbytes)) = n
  BY <1>1, <1>3, <1>4, LenProperties
<1> QED
  BY <1>1, <1>2, <1>5 DEF n

LEMMA PositionIsInt ==
  ASSUME NEW offset \in Nat, NEW i \in Nat
  PROVE  Position(offset, i) \in Int
<1> DEFINE start == offset % BLOCK
<1>1. start \in 0..(BLOCK - 1) /\ offset \div BLOCK \in Int
  OBVIOUS
<1>2. BLOCK - start \in Nat \ {0}
  BY <1>1
<1> HIDE DEF start
<1>3. PICK d \in Nat \ {0} : d = BLOCK - start
  BY <1>2
<1>4. i \div d \in Int /\ i % d \in Int
  BY <1>3
<1>5. \A x, y, z \in Int : (x + y) * BLOCK + z \in Int
  OBVIOUS
<1>6. (IF i \div d = 0 THEN start + i ELSE i % d) \in Int
  BY <1>1, <1>4
<1>7. Position(offset, i) =
        (offset \div BLOCK + i \div d) * BLOCK + IF i \div d = 0 THEN start + i ELSE i % d
  BY <1>3 DEF Position, start
<1> QED
  BY <1>1, <1>4, <1>5, <1>6, <1>7

\* A read moves one descriptor by what it delivered, and nothing else.
ReadFrom(p, fd, nbytes, e, offset) ==
  /\ pc[p] = "user" /\ fds[p][fd].flags = 1 /\ fds[p][fd].fotp = "file"
  /\ e = fds[p][fd].inode /\ offset = fds[p][fd].file_pos
  /\ Directory[e].type = "file" /\ offset \in 0..Directory[e].length
  /\ ReadData(e, offset, nbytes) \in Seq(Int)
  /\ fds' = [fds EXCEPT ![p] = [fds[p] EXCEPT ![fd] =
               [fds[p][fd] EXCEPT !.file_pos = offset + Wanted(e, offset, nbytes)]]]
  /\ stream' = [stream EXCEPT ![p] = [stream[p] EXCEPT ![fd] =
                  stream[p][fd] \o ReadData(e, offset, nbytes)]]
  /\ UNCHANGED <<cur, location, dentry_index, pc, opening, listing>>

LEMMA FileReadChanges ==
  ASSUME OpenInv, NEW p \in Procs, NEW fd \in FIRST..(NFD - 1), NEW nbytes \in Requests,
         FileRead(p, fd, nbytes)
  PROVE  \E e \in Entries, offset \in Nat : ReadFrom(p, fd, nbytes, e, offset)
<1> DEFINE entry == fds[p][fd].inode
           start == fds[p][fd].file_pos
           bytes == ReadData(entry, start, nbytes)
<1>1. /\ pc[p] = "user" /\ fds[p][fd].flags = 1 /\ fds[p][fd].fotp = "file"
      /\ fds' = [fds EXCEPT ![p] = [fds[p] EXCEPT ![fd] =
                   [fds[p][fd] EXCEPT !.file_pos = start + Advance(nbytes, Len(bytes))]]]
      /\ stream' = [stream EXCEPT ![p] = [stream[p] EXCEPT ![fd] = stream[p][fd] \o bytes]]
      /\ UNCHANGED <<cur, location, dentry_index, pc, opening, listing>>
  BY DEF FileRead, globals, control
<1>2. CellInv(fds[p][fd])
  BY DirectoryFacts DEF OpenInv
<1>3. entry \in Entries /\ Directory[entry].type = "file" /\ start \in 0..Directory[entry].length
  BY <1>1, <1>2 DEF CellInv
<1>4. start \in Nat
  BY <1>3, DirectoryFacts
<1>5. PICK e0 \in Entries, o0 \in Nat : e0 = entry /\ o0 = start
  BY <1>3, <1>4
<1> HIDE DEF entry, start, bytes
<1>6. /\ Wanted(e0, o0, nbytes) \in Nat
      /\ DOMAIN ReadData(e0, o0, nbytes) = 1..Wanted(e0, o0, nbytes)
      /\ Len(ReadData(e0, o0, nbytes)) = Wanted(e0, o0, nbytes)
      /\ \A i \in 1..Wanted(e0, o0, nbytes) : ReadData(e0, o0, nbytes)[i] = Position(o0, i - 1)
  <2>1. o0 \in 0..Directory[e0].length
    BY <1>3, <1>5
  <2> QED
    BY <2>1, ReadDataLength
<1>7. ReadData(e0, o0, nbytes) \in Seq(Int)
  <2>1. ReadData(e0, o0, nbytes) = [i \in 1..Wanted(e0, o0, nbytes) |-> Position(o0, i - 1)]
    BY DEF ReadData, Wanted
  <2>2. \A i \in 1..Wanted(e0, o0, nbytes) : Position(o0, i - 1) \in Int
    BY <1>6, PositionIsInt
  <2>3. ReadData(e0, o0, nbytes) \in [1..Wanted(e0, o0, nbytes) -> Int]
    BY <2>1, <2>2
  <2>4. Seq(Int) = UNION {[1..m -> Int] : m \in Nat}
    BY SeqDef
  <2> QED
    BY <1>6, <2>3, <2>4
<1>8. bytes = ReadData(e0, o0, nbytes)
  BY <1>5 DEF bytes
<1>9. Advance(nbytes, Len(bytes)) = Wanted(e0, o0, nbytes)
  BY <1>6, <1>8 DEF Advance
<1>10. /\ e0 = fds[p][fd].inode /\ o0 = fds[p][fd].file_pos
       /\ Directory[e0].type = "file" /\ o0 \in 0..Directory[e0].length
  BY <1>3, <1>5 DEF entry, start
<1>11. /\ fds' = [fds EXCEPT ![p] = [fds[p] EXCEPT ![fd] =
                   [fds[p][fd] EXCEPT !.file_pos = o0 + Wanted(e0, o0, nbytes)]]]
       /\ stream' = [stream EXCEPT ![p] = [stream[p] EXCEPT ![fd] =
                       stream[p][fd] \o ReadData(e0, o0, nbytes)]]
  BY <1>1, <1>5, <1>8, <1>9
<1>12. /\ pc[p] = "user" /\ fds[p][fd].flags = 1 /\ fds[p][fd].fotp = "file"
       /\ UNCHANGED <<cur, location, dentry_index, pc, opening, listing>>
  BY <1>1
<1>13. ReadFrom(p, fd, nbytes, e0, o0)
  BY <1>7, <1>10, <1>11, <1>12 DEF ReadFrom
<1> QED
  BY <1>13

LEMMA FileReadKeepsOpenInv ==
  ASSUME OpenInv, NEW p \in Procs, NEW fd \in FIRST..(NFD - 1), NEW nbytes \in Requests,
         FileRead(p, fd, nbytes)
  PROVE  OpenInv'
<1>1. PICK e \in Entries, offset \in Nat : ReadFrom(p, fd, nbytes, e, offset)
  BY FileReadChanges
<1>2. PICK pos \in 0..Directory[e].length : pos = offset + Wanted(e, offset, nbytes)
  BY <1>1, ReadDataLength DEF ReadFrom
<1>3. fd \in Cells /\ fd # NFD /\ fds[p][fd] \in CellType /\ pos \in Int
  BY DirectoryFacts DEF OpenInv, DTypes
<1>4. PICK cell \in CellType : cell = [fds[p][fd] EXCEPT !.file_pos = pos]
  BY <1>3, CellUpdates
<1>5. /\ cell.fotp = fds[p][fd].fotp /\ cell.inode = fds[p][fd].inode
      /\ cell.flags = fds[p][fd].flags /\ cell.file_pos = pos
  BY <1>3, <1>4 DEF CellType
<1>6. PICK table \in [Cells -> CellType] : table = [fds[p] EXCEPT ![fd] = cell]
  <2>1. [fds[p] EXCEPT ![fd] = cell] \in [Cells -> CellType]
    BY DEF OpenInv, DTypes
  <2> QED
    BY <2>1
<1>7. CellInv(cell)
  BY <1>1, <1>5 DEF CellInv, ReadFrom
<1>8. table[NFD].flags = 0 /\ \A x \in Cells : CellInv(table[x])
  BY <1>3, <1>6, <1>7, DirectoryFacts DEF OpenInv, DTypes
<1>9. fds' = [fds EXCEPT ![p] = table]
  BY <1>1, <1>2, <1>4, <1>6 DEF ReadFrom
<1>10. stream' \in [Procs -> [Cells -> Seq(Int)]]
  <2>1. stream[p][fd] \in Seq(Int)
    BY <1>3 DEF OpenInv, DTypes
  <2>2. PICK both \in Seq(Int) : both = stream[p][fd] \o ReadData(e, offset, nbytes)
    BY <1>1, <2>1, ConcatProperties DEF ReadFrom
  <2>3. [stream[p] EXCEPT ![fd] = both] \in [Cells -> Seq(Int)]
    BY DEF OpenInv, DTypes
  <2> QED
    BY <1>1, <2>2, <2>3 DEF ReadFrom, OpenInv, DTypes
<1> QED
  BY <1>1, <1>8, <1>9, <1>10, OwnTableKeepsOpenInv DEF ReadFrom, OpenInv, DTypes

LEMMA ListKeepsOpenInv ==
  ASSUME OpenInv, NEW p \in Procs,
         (\E fd \in FIRST..(NFD - 1) : ListEntry(p, fd)) \/ ListNext(p)
  PROVE  OpenInv'
<1>1. CASE \E fd \in FIRST..(NFD - 1) : ListEntry(p, fd)
  <2>1. /\ cur' = IF dentry_index \in 0..LASTENTRY
                  THEN [cur EXCEPT ![p] = dentry_index] ELSE cur
        /\ pc' = [pc EXCEPT ![p] = "listed"]
        /\ UNCHANGED <<fds, location, dentry_index, opening, stream, listing>>
    BY <1>1 DEF ListEntry, globals, delivered
  <2>2. /\ pc' \in [Procs -> Allocating \cup {"user", "listed"}]
        /\ pc'[p] \notin Allocating
        /\ \A q \in Procs \ {p} : pc'[q] = pc[q]
        /\ cur' \in [Procs -> 0..LASTENTRY]
    BY <2>1 DEF OpenInv, DTypes, Allocating
  <2> QED
    BY <2>1, <2>2, OutsideKeepsOpenInv DEF OpenInv, DTypes
<1>2. CASE ListNext(p)
  <2>1. /\ dentry_index' = dentry_index + 1
        /\ listing' = [listing EXCEPT ![p] = Append(listing[p], cur[p])]
        /\ pc' = [pc EXCEPT ![p] = "user"]
        /\ UNCHANGED <<fds, cur, location, opening, stream>>
    BY <1>2 DEF ListNext, tables
  <2>2. /\ pc' \in [Procs -> Allocating \cup {"user", "listed"}]
        /\ pc'[p] \notin Allocating
        /\ \A q \in Procs \ {p} : pc'[q] = pc[q]
    BY <2>1 DEF OpenInv, DTypes, Allocating
  <2>3. listing' \in [Procs -> Seq(0..LASTENTRY)] /\ dentry_index' \in Int
    BY <2>1 DEF OpenInv, DTypes
  <2> QED
    BY <2>1, <2>2, <2>3, OutsideKeepsOpenInv DEF OpenInv, DTypes
<1> QED
  BY <1>1, <1>2

LEMMA OpenInvNext ==
  ASSUME ~SharedOpen, OpenInv, [Next]_vars
  PROVE  OpenInv'
<1>1. CASE UNCHANGED vars
  <2>1. UNCHANGED <<fds, cur, location, dentry_index, pc, opening, stream, listing>>
    BY <1>1 DEF vars, tables, globals, control, delivered
  <2> QED
    BY <2>1 DEF OpenInv, DTypes, AllocInv, CellInv, Filled
<1>2. CASE Next
  <2>1. PICK p \in Procs :
    \/ \E e \in Entries : Open(p, e) \/ Execute(p, e)
    \/ Search(p)
    \/ StoreFotp(p)
    \/ StoreInode(p)
    \/ StorePos(p)
    \/ StoreFlags(p)
    \/ OpenDevice(p)
    \/ \E fd \in Cells : Close(p, fd)
    \/ \E fd \in FIRST..(NFD - 1) : ListEntry(p, fd)
    \/ \E fd \in FIRST..(NFD - 1), nbytes \in Requests : FileRead(p, fd, nbytes)
    \/ ListNext(p)
    BY <1>2 DEF Next
  <2> QED
    BY <2>1, OpenKeepsOpenInv, ExecuteKeepsOpenInv, SearchKeepsOpenInv, StoresKeepOpenInv,
       OpenDeviceKeepsOpenInv, CloseKeepsOpenInv, ListKeepsOpenInv, FileReadKeepsOpenInv
<1> QED
  BY <1>1, <1>2

-----------------------------------------------------------------------------
\* open: the descriptor a program gets back is one of its own that was free, set
\* up for the file it named from its beginning, in whatever order the programs of
\* the terminals make their other calls; it gets none only if all are in use.
THEOREM OpenAlwaysGivesFile ==
  ASSUME ~SharedOpen PROVE Spec => OpenGivesFile
<1> DEFINE Given(p) ==
             InAlloc(p) /\ pc'[p] = "user" =>
               IF pc[p] = "return"
               THEN /\ location < NFD
                    /\ fds[p][location] = [fotp |-> Directory[opening[p]].type,
                                           inode |-> Inode(opening[p]),
                                           file_pos |-> 0, flags |-> 1]
               ELSE \A fd \in FIRST..(NFD - 1) : fds[p][fd].flags = 1
<1>1. ASSUME OpenInv, [Next]_vars PROVE [\A p \in Procs : Given(p)]_vars
  <2> SUFFICES ASSUME Next, NEW p \in Procs, InAlloc(p), pc'[p] = "user" PROVE Given(p)
    BY <1>1
  <2>1. pc[p] \in Allocating /\ AllocInv(p) /\ location \in Cells /\ fds[p][location] \in CellType
    BY <1>1, InAllocIsAllocating DEF OpenInv, DTypes
  <2>2. CASE pc[p] = "return"
    <3>1. location < NFD /\ Filled("return", fds[p][location], opening[p])
      BY <2>1, <2>2 DEF AllocInv, Allocating
    <3>2. fds[p][location] = [fotp |-> fds[p][location].fotp, inode |-> fds[p][location].inode,
                              file_pos |-> fds[p][location].file_pos, flags |-> fds[p][location].flags]
      BY <2>1 DEF CellType
    <3> QED
      BY <2>2, <3>1, <3>2 DEF Filled
  <2>3. CASE pc[p] # "return"
    <3>1. Search(p) /\ ~InArray(location)
      <4>1. PICK q \in Procs :
        \/ \E e \in Entries : Open(q, e) \/ Execute(q, e)
        \/ Search(q)
        \/ StoreFotp(q)
        \/ StoreInode(q)
        \/ StorePos(q)
        \/ StoreFlags(q)
        \/ OpenDevice(q)
        \/ \E fd \in Cells : Close(q, fd)
        \/ \E fd \in FIRST..(NFD - 1) : ListEntry(q, fd)
        \/ \E fd \in FIRST..(NFD - 1), nbytes \in Requests : FileRead(q, fd, nbytes)
        \/ ListNext(q)
        BY DEF Next
      <4>2. pc' = pc \/ \E x : pc' = [pc EXCEPT ![q] = x]
        BY <4>1 DEF Open, Execute, Search, StoreFotp, StoreInode, StorePos, StoreFlags, Store,
                    OpenDevice, Close, ListEntry, FileRead, ListNext, control
      <4>3. pc[p] # "user" /\ pc[p] # "listed"
        BY <2>1 DEF Allocating
      <4>4. q = p
        BY <4>2, <4>3, <1>1 DEF OpenInv, DTypes
      <4>5. pc'[p] # pc[p] /\ pc'[p] = "user"
        BY <4>3
      <4> QED
        BY <1>1, <2>3, <4>1, <4>3, <4>4, <4>5
        DEF Open, Execute, Search, StoreFotp, StoreInode, StorePos, StoreFlags, Store, OpenDevice,
            Close, ListEntry, FileRead, ListNext, control, OpenInv, DTypes
    <3>2. ~(location < NFD)
      BY <3>1 DEF InArray
    <3>3. \A fd \in FIRST..(NFD - 1) : fd < location
      BY <2>1, <3>2 DEF Cells, FIRST
    <3> QED
      BY <2>1, <2>3, <3>3 DEF AllocInv
  <2> QED
    BY <2>2, <2>3
<1> QED
  BY <1>1, OpenInvInit, OpenInvNext, PTL DEF Spec, OpenGivesFile

-----------------------------------------------------------------------------
(* The tables, read as OpenFiles reads them.                               *)

Fds == FIRST..(NFD - 1)

View(cell) ==
  [object |-> IF cell.flags = 1 THEN <<cell.fotp, cell.inode>> ELSE <<"closed", 0>>,
   pos |-> IF cell.flags = 1 THEN cell.file_pos ELSE 0]

LEMMA TableIsView == Table = [p \in Procs |-> [fd \in Fds |-> View(fds[p][fd])]]
BY DEF Table, View, Fds

LEMMA TableIsViewNext == Table' = [p \in Procs |-> [fd \in Fds |-> View(fds'[p][fd])]]
BY DEF Table, View, Fds

\* A step that changes one cell changes one place of the table, or none.
LEMMA OneCellChanges ==
  ASSUME OpenInv, NEW p \in Procs, NEW fd \in Cells, NEW cell,
         fds' = [fds EXCEPT ![p] = [fds[p] EXCEPT ![fd] = cell]]
  PROVE  /\ fd \in Fds => Table' = [Table EXCEPT ![p] = [Table[p] EXCEPT ![fd] = View(cell)]]
         /\ View(cell) = View(fds[p][fd]) => Table' = Table
<1>1. fds \in [Procs -> [Cells -> CellType]] /\ Fds \subseteq Cells
  BY DirectoryFacts DEF OpenInv, DTypes, Fds
<1> HIDE DEF View
<1>2. /\ \A q \in Procs \ {p} : fds'[q] = fds[q]
      /\ fds'[p] = [fds[p] EXCEPT ![fd] = cell]
  BY <1>1
<1>3. \A x \in Cells : fds'[p][x] = IF x = fd THEN cell ELSE fds[p][x]
  BY <1>1, <1>2
<1>4. /\ Table = [q \in Procs |-> [x \in Fds |-> View(fds[q][x])]]
      /\ Table' = [q \in Procs |-> [x \in Fds |-> View(fds'[q][x])]]
  BY TableIsView, TableIsViewNext
<1>5. \A q \in Procs : \A x \in Fds :
        View(fds'[q][x]) = IF q = p /\ x = fd THEN View(cell) ELSE View(fds[q][x])
  BY <1>1, <1>2, <1>3
<1>6. ASSUME fd \in Fds
      PROVE  Table' = [Table EXCEPT ![p] = [Table[p] EXCEPT ![fd] = View(cell)]]
  <2>1. /\ \A q \in Procs \ {p} : Table'[q] = Table[q]
        /\ Table'[p] = [Table[p] EXCEPT ![fd] = View(cell)]
    <3>1. ASSUME NEW q \in Procs \ {p} PROVE Table'[q] = Table[q]
      <4>1. \A x \in Fds : View(fds'[q][x]) = View(fds[q][x])
        BY <1>5
      <4>2. Table'[q] = [x \in Fds |-> View(fds'[q][x])] /\ Table[q] = [x \in Fds |-> View(fds[q][x])]
        BY <1>4
      <4> QED
        BY <4>1, <4>2
    <3>2. Table'[p] = [x \in Fds |-> IF x = fd THEN View(cell) ELSE View(fds[p][x])]
      BY <1>4, <1>5
    <3>3. Table[p] = [x \in Fds |-> View(fds[p][x])]
      BY <1>4
    <3> QED
      BY <1>6, <3>1, <3>2, <3>3
  <2>2. Table \in [Procs -> {Table[q] : q \in Procs}] /\ DOMAIN Table' = Procs
    BY <1>4
  <2>3. Table' = [q \in Procs |-> Table'[q]]
    BY <1>4
  <2> QED
    BY <2>1, <2>2, <2>3
<1>7. ASSUME View(cell) = View(fds[p][fd])
      PROVE  Table' = Table
  <2>1. \A q \in Procs : \A x \in Fds : View(fds'[q][x]) = View(fds[q][x])
    BY <1>5, <1>7
  <2> QED
    BY <1>4, <2>1
<1> QED
  BY <1>6, <1>7

\* What is in use and what is free.
LEMMA FreeInTable ==
  ASSUME OpenInv, NEW p \in Procs, NEW fd \in Fds
  PROVE  fd \in Private!Free(p) <=> fds[p][fd].flags = 0
<1>1. /\ fd \in Cells /\ fds[p][fd] \in CellType /\ CellInv(fds[p][fd])
      /\ Table[p][fd] = View(fds[p][fd])
  <2>1. fd \in Cells
    BY DirectoryFacts DEF Fds
  <2>2. fds[p][fd] \in CellType /\ CellInv(fds[p][fd])
    BY <2>1 DEF OpenInv, DTypes
  <2>3. Table[p][fd] = View(fds[p][fd])
    BY TableIsView
  <2> QED
    BY <2>1, <2>2, <2>3
<1>2. CASE fds[p][fd].flags = 0
  <2>1. View(fds[p][fd]) = Private!Closed
    BY <1>2 DEF View, Private!Closed
  <2> QED
    BY <1>1, <1>2, <2>1 DEF Private!Free, Fds
<1>3. CASE fds[p][fd].flags = 1
  <2>1. fds[p][fd].fotp # "closed"
    BY <1>1, <1>3 DEF CellInv
  <2>2. View(fds[p][fd]).object = <<fds[p][fd].fotp, fds[p][fd].inode>>
    BY <1>3 DEF View
  <2>3. Private!Closed.object = <<"closed", 0>>
    BY DEF Private!Closed
  <2>4. <<fds[p][fd].fotp, fds[p][fd].inode>> # <<"closed", 0>>
    BY <2>1
  <2>5. Table[p][fd] # Private!Closed
    BY <1>1, <2>2, <2>3, <2>4
  <2> QED
    BY <1>3, <2>5 DEF Private!Free
<1> QED
  BY <1>1, <1>2, <1>3 DEF CellType
\* The last statement of alloc_file is where open happens.
LEMMA StoreFlagsOpens ==
  ASSUME OpenInv, NEW p \in Procs, StoreFlags(p)
  PROVE  Private!Open(p)
<1> DEFINE old == fds[p][location]
<1>1. Store(p, "flags", "return", "flags", 1) /\ pc[p] = "flags"
  BY DEF StoreFlags, Store
<1>2. /\ AllocInv(p) /\ old \in CellType /\ opening[p] \in Entries
      /\ location \in Cells /\ location < NFD
  BY <1>1 DEF OpenInv, DTypes, AllocInv, Allocating
<1>3. /\ old.flags = 0 /\ old.fotp = Directory[opening[p]].type
      /\ old.inode = Inode(opening[p]) /\ old.file_pos = 0
  BY <1>1, <1>2 DEF AllocInv, Filled
<1>4. [old EXCEPT !["flags"] = 1] \in CellType
  BY <1>2 DEF CellType
<1>5. PICK cell \in CellType : cell = [old EXCEPT !["flags"] = 1]
  BY <1>4
<1>6. cell.flags = 1 /\ cell.fotp = old.fotp /\ cell.inode = old.inode /\ cell.file_pos = 0
  BY <1>2, <1>3, <1>5 DEF CellType
<1>7. fds' = [fds EXCEPT ![p] = [fds[p] EXCEPT ![location] = cell]]
  BY <1>1, <1>5 DEF Store
<1>8. location \in Fds
  BY <1>2, DirectoryFacts DEF Fds
<1>9. Table' = [Table EXCEPT ![p] = [Table[p] EXCEPT ![location] = View(cell)]]
  BY <1>2, <1>7, <1>8, OneCellChanges
<1>10. PICK object \in Objects : object = <<cell.fotp, cell.inode>>
  <2>1. CASE Directory[opening[p]].type = "file"
    <3>1. <<"file", opening[p]>> \in Objects
      BY <1>2, <2>1 DEF Objects
    <3> QED
      BY <1>3, <1>6, <2>1, <3>1 DEF Inode
  <2>2. CASE Directory[opening[p]].type # "file"
    <3>1. cell.fotp \in {"rtc", "dir"} /\ cell.inode = 0
      BY <1>2, <1>3, <1>6, <2>2, DirectoryFacts DEF Inode
    <3> QED
      BY <3>1 DEF Objects
  <2> QED
    BY <2>1, <2>2
<1>11. View(cell) = [object |-> object, pos |-> 0]
  BY <1>6, <1>10 DEF View
<1>12. location \in Private!Free(p)
  BY <1>3, <1>8, FreeInTable
<1>13. ASSUME NEW other \in Private!Free(p) PROVE location <= other
  <2>1. other \in Fds
    BY DEF Private!Free, Fds
  <2>2. fds[p][other].flags = 0
    BY <2>1, FreeInTable
  <2>3. ~(other < location)
    BY <1>1, <2>1, <2>2, <1>2 DEF AllocInv, Allocating, Fds
  <2> QED
    BY <1>2, <2>1, <2>3, DirectoryFacts DEF Fds
<1>14. Table' = [Table EXCEPT ![p] = [Table[p] EXCEPT ![location] = [object |-> object, pos |-> 0]]]
  BY <1>9, <1>11
<1> QED
  BY <1>12, <1>13, <1>14 DEF Private!Open

\* The statements before it are not seen from outside: the cell is still free.
LEMMA FillingIsUnseen ==
  ASSUME OpenInv, NEW p \in Procs, StoreFotp(p) \/ StoreInode(p) \/ StorePos(p)
  PROVE  Table' = Table
<1>1. ASSUME NEW here \in {"fotp", "inode", "file_pos"}, NEW next, NEW value,
             Store(p, here, next, here, value)
      PROVE  Table' = Table
  <2> DEFINE old == fds[p][location]
  <2>1. PICK cell : cell = [old EXCEPT ![here] = value]
    OBVIOUS
  <2>2. pc[p] = here /\ fds' = [fds EXCEPT ![p] = [fds[p] EXCEPT ![location] = cell]]
    BY <1>1, <2>1 DEF Store
  <2>3. old \in CellType /\ old.flags = 0 /\ location \in Cells
    BY <2>2 DEF OpenInv, DTypes, AllocInv, Filled, Allocating
  <2>4. cell.flags = 0
    BY <2>1, <2>3 DEF CellType
  <2>5. View(cell) = View(old)
    BY <2>3, <2>4 DEF View
  <2>6. location \in Cells /\ fds' = [fds EXCEPT ![p] = [fds[p] EXCEPT ![location] = cell]]
    BY <2>2, <2>3
  <2> HIDE DEF View
  <2>7. View(cell) = View(old) => Table' = Table
    BY <2>6, OneCellChanges
  <2> QED
    BY <2>5, <2>7
<1> QED
  BY <1>1 DEF StoreFotp, StoreInode, StorePos

LEMMA CloseCloses ==
  ASSUME OpenInv, NEW p \in Procs, NEW fd \in Cells, Close(p, fd)
  PROVE  Private!Close(p)
<1>1. PICK cell : cell = [fds[p][fd] EXCEPT !.inode = 0, !.file_pos = 0, !.flags = 0]
  OBVIOUS
<1>2. /\ fds[p][fd].flags = 1
      /\ fds' = [fds EXCEPT ![p] = [fds[p] EXCEPT ![fd] = cell]]
  BY <1>1 DEF Close
<1>3. fd \in Fds
  BY <1>2, DirectoryFacts DEF OpenInv, Fds
<1>4. cell.flags = 0
  <2>1. fds[p][fd] \in CellType
    BY DEF OpenInv, DTypes
  <2> QED
    BY <1>1, <2>1 DEF CellType
<1>5. View(cell) = Private!Closed
  BY <1>4 DEF View, Private!Closed
<1>6. Table' = [Table EXCEPT ![p] = [Table[p] EXCEPT ![fd] = Private!Closed]]
  BY <1>2, <1>3, <1>5, OneCellChanges
<1> QED
  BY <1>3, <1>6 DEF Private!Close, Fds

LEMMA ExecuteRestarts ==
  ASSUME OpenInv, NEW p \in Procs, NEW e \in Entries, Execute(p, e)
  PROVE  Private!Restart(p)
<1>1. fds' = [fds EXCEPT ![p] = NewTable(p)]
  BY DEF Execute
<1>2. \A fd \in Fds : NewTable(p)[fd] = NoCell
  BY DirectoryFacts DEF NewTable, Fds
<1>3. View(NoCell) = Private!Closed
  BY DEF View, NoCell, Private!Closed
<1>4. \A q \in Procs : \A fd \in Fds :
        View(fds'[q][fd]) = IF q = p THEN Private!Closed ELSE View(fds[q][fd])
  BY <1>1, <1>2, <1>3 DEF OpenInv, DTypes
<1>5. Table' = [Table EXCEPT ![p] = [fd \in Fds |-> Private!Closed]]
  <2> HIDE DEF View
  <2> QED
    BY <1>4, TableIsView, TableIsViewNext
<1> QED
  BY <1>5 DEF Private!Restart, Fds
LEMMA FileReadReads ==
  ASSUME OpenInv, NEW p \in Procs, NEW fd \in FIRST..(NFD - 1), NEW nbytes \in Requests,
         FileRead(p, fd, nbytes)
  PROVE  Private!Read(p)
<1>1. PICK e \in Entries, offset \in Nat : ReadFrom(p, fd, nbytes, e, offset)
  BY FileReadChanges
<1>2. PICK pos : pos = offset + Wanted(e, offset, nbytes)
  OBVIOUS
<1>3. PICK cell : cell = [fds[p][fd] EXCEPT !.file_pos = pos]
  OBVIOUS
<1>4. /\ fds[p][fd].flags = 1 /\ fds[p][fd].fotp = "file"
      /\ fds[p][fd].inode = e /\ fds[p][fd].file_pos = offset
      /\ Directory[e].type = "file"
  BY <1>1 DEF ReadFrom
<1>5. fds' = [fds EXCEPT ![p] = [fds[p] EXCEPT ![fd] = cell]]
  BY <1>1, <1>2, <1>3 DEF ReadFrom
<1>6. /\ cell.flags = 1 /\ cell.fotp = "file" /\ cell.inode = e /\ cell.file_pos = pos
      /\ fd \in Cells /\ fd \in Fds
  <2>1. fds[p][fd] \in CellType /\ fd \in Cells
    BY DirectoryFacts DEF OpenInv, DTypes
  <2> QED
    BY <1>3, <1>4, <2>1 DEF CellType, Fds
<1>7. Table' = [Table EXCEPT ![p] = [Table[p] EXCEPT ![fd] = View(cell)]]
  <2> HIDE DEF View
  <2>1. fd \in Cells /\ fd \in Fds
    BY <1>6
  <2>2. fd \in Fds => Table' = [Table EXCEPT ![p] = [Table[p] EXCEPT ![fd] = View(cell)]]
    BY <1>5, <2>1, OneCellChanges
  <2> QED
    BY <2>1, <2>2
<1>8. /\ Table[p][fd] = [object |-> <<"file", e>>, pos |-> offset]
      /\ View(cell) = [object |-> <<"file", e>>, pos |-> pos]
  BY <1>4, <1>6, TableIsView DEF View
<1>9. View(cell) = [Table[p][fd] EXCEPT !.pos = pos]
  <2>1. ASSUME NEW object, NEW from, NEW to
        PROVE  [[object |-> object, pos |-> from] EXCEPT !.pos = to] = [object |-> object, pos |-> to]
    OBVIOUS
  <2>2. [[object |-> <<"file", e>>, pos |-> offset] EXCEPT !.pos = pos]
          = [object |-> <<"file", e>>, pos |-> pos]
    BY <2>1
  <2> QED
    BY <1>8, <2>2, Zenon
<1> DEFINE Length == [o \in Objects |-> IF o[1] = "file" THEN Directory[o[2]].length ELSE 0]
<1>10. Length[Table[p][fd].object] - Table[p][fd].pos = Directory[e].length - offset
  <2>1. <<"file", e>> \in Objects
    BY <1>4 DEF Objects
  <2>2. Length[<<"file", e>>] = Directory[e].length
    BY <2>1
  <2> QED
    BY <1>8, <2>2
<1> DEFINE left == Length[Table[p][fd].object] - Table[p][fd].pos
<1> HIDE DEF Length
<1>11. left = Directory[e].length - offset
  BY <1>10
<1> HIDE DEF left
<1>12. pos = Table[p][fd].pos + IF nbytes <= left THEN nbytes ELSE left
  BY <1>2, <1>8, <1>11 DEF Wanted
<1>13. fd \in Fds \ Private!Free(p)
  BY <1>4, <1>6, FreeInTable
<1>14. PICK old : old = Table[p][fd]
  OBVIOUS
<1>15. PICK new : new = [old EXCEPT !.pos = pos]
  OBVIOUS
<1>16. new = View(cell)
  BY <1>9, <1>14, <1>15
<1>17. Table' = [Table EXCEPT ![p] = [Table[p] EXCEPT ![fd] = new]]
  BY <1>7, <1>16
<1>18. new = [Table[p][fd] EXCEPT !.pos =
                Table[p][fd].pos + IF nbytes <= left THEN nbytes ELSE left]
  BY <1>12, <1>14, <1>15, Zenon
<1>19. Table' = [Table EXCEPT ![p][fd].pos = @ + IF nbytes <= left THEN nbytes ELSE left]
  BY <1>17, <1>18, Zenon
<1>20. fd \in Fds /\ fd \notin Private!Free(p)
  BY <1>13
<1>21. \E x \in Fds \ Private!Free(p), n \in Requests :
         LET l == Length[Table[p][x].object] - Table[p][x].pos IN
         Table' = [Table EXCEPT ![p][x].pos = @ + IF n <= l THEN n ELSE l]
  <2>1. Table' = [Table EXCEPT ![p][fd].pos = @ +
                    IF nbytes <= Length[Table[p][fd].object] - Table[p][fd].pos
                    THEN nbytes ELSE Length[Table[p][fd].object] - Table[p][fd].pos]
    BY <1>19, Zenon DEF left
  <2> QED
    BY <1>13, <2>1, Zenon
<1> QED
  BY <1>21, Zenon DEF Private!Read, Fds, Length

\* open, close and read give each program descriptors of its own, as OpenFiles
\* promises them: the lowest that is free, at the beginning of its object, moved
\* by its own reads only; whatever the programs of the terminals do in between.
THEOREM OpenFilesImplemented ==
  ASSUME ~SharedOpen PROVE Spec => ImplementsOpenFiles
<1>1. Init => Private!Init
  <2> SUFFICES ASSUME Init PROVE Private!Init
    OBVIOUS
  <2>1. View(NoCell) = Private!Closed
    BY DEF View, NoCell, Private!Closed
  <2>2. \A p \in Procs : \A fd \in Fds : View(fds[p][fd]) = Private!Closed
    BY <2>1, DirectoryFacts DEF Init, Fds
  <2>3. Table = [p \in Procs |-> [fd \in Fds |-> Private!Closed]]
    <3> HIDE DEF View
    <3> QED
      BY <2>2, TableIsView
  <2> QED
    BY <2>3 DEF Private!Init, Fds
<1>2. ASSUME OpenInv, [Next]_vars PROVE [Private!Next]_Table
  <2>1. fds' = fds => Table' = Table
    BY DEF Table
  <2>2. CASE UNCHANGED vars
    BY <2>1, <2>2 DEF vars, tables
  <2>3. CASE Next
    <3>1. PICK p \in Procs :
      \/ \E e \in Entries : Open(p, e) \/ Execute(p, e)
      \/ Search(p)
      \/ StoreFotp(p)
      \/ StoreInode(p)
      \/ StorePos(p)
      \/ StoreFlags(p)
      \/ OpenDevice(p)
      \/ \E fd \in Cells : Close(p, fd)
      \/ \E fd \in FIRST..(NFD - 1) : ListEntry(p, fd)
      \/ \E fd \in FIRST..(NFD - 1), nbytes \in Requests : FileRead(p, fd, nbytes)
      \/ ListNext(p)
      BY <2>3 DEF Next
    <3>2. CASE \/ \E e \in Entries : Open(p, e)
               \/ Search(p)
               \/ OpenDevice(p)
               \/ \E fd \in FIRST..(NFD - 1) : ListEntry(p, fd)
               \/ ListNext(p)
      BY <2>1, <3>2 DEF Open, Search, OpenDevice, ListEntry, ListNext, tables
    <3>3. CASE StoreFotp(p) \/ StoreInode(p) \/ StorePos(p)
      BY <1>2, <3>3, FillingIsUnseen
    <3>4. CASE StoreFlags(p)
      BY <1>2, <3>4, StoreFlagsOpens DEF Private!Next
    <3>5. CASE \E fd \in Cells : Close(p, fd)
      BY <1>2, <3>5, CloseCloses DEF Private!Next
    <3>6. CASE \E e \in Entries : Execute(p, e)
      BY <1>2, <3>6, ExecuteRestarts DEF Private!Next
    <3>7. CASE \E fd \in FIRST..(NFD - 1), nbytes \in Requests : FileRead(p, fd, nbytes)
      BY <1>2, <3>7, FileReadReads DEF Private!Next
    <3> QED
      BY <3>1, <3>2, <3>3, <3>4, <3>5, <3>6, <3>7
  <2> QED
    BY <1>2, <2>2, <2>3
<1> QED
  BY <1>1, <1>2, OpenInvInit, OpenInvNext, PTL DEF Spec, ImplementsOpenFiles, Private!Spec
-----------------------------------------------------------------------------
(* Listing the directory, by one program at a time.                        *)

\* The entry directory_read reads next is as far as the program that lists has
\* come, except between the store that opens the directory and its open.
ListOwn(p) ==
  /\ Listable(p) # {} /\ ~(pc[p] = "return" /\ Directory[opening[p]].type = "dir")
       => dentry_index = Len(listing[p])
  /\ pc[p] = "listed" =>
       /\ Listable(p) # {}
       /\ dentry_index \in 0..LASTENTRY => cur[p] = dentry_index
  /\ \A i \in 1..Len(listing[p]) : i <= LASTENTRY + 1 => listing[p][i] = i - 1

ListInv ==
  /\ \A p, q \in Procs : HasDirectory(p) /\ HasDirectory(q) => p = q
  /\ \A p \in Procs : ListOwn(p)

\* A step of p keeps it if p does not take the directory from another program
\* and moves the index only while the directory is its own.
LEMMA OwnStepKeepsListInv ==
  ASSUME ListInv, NEW p \in Procs,
         \A q \in Procs \ {p} : /\ fds'[q] = fds[q] /\ cur'[q] = cur[q] /\ pc'[q] = pc[q]
                                /\ opening'[q] = opening[q] /\ listing'[q] = listing[q],
         HasDirectory(p)' => HasDirectory(p) \/ \A q \in Procs \ {p} : ~HasDirectory(q),
         dentry_index' = dentry_index \/ HasDirectory(p),
         ListOwn(p)'
  PROVE  ListInv'
<1>1. ASSUME NEW q \in Procs \ {p}
      PROVE  /\ Listable(q)' = Listable(q)
             /\ HasDirectory(q)' <=> HasDirectory(q)
  BY <1>1 DEF Listable, HasDirectory, InAlloc
<1>2. \A q, r \in Procs : HasDirectory(q)' /\ HasDirectory(r)' => q = r
  <2> SUFFICES ASSUME NEW q \in Procs, NEW r \in Procs, HasDirectory(q)', HasDirectory(r)', q # r
               PROVE  FALSE
    OBVIOUS
  <2>1. CASE q # p /\ r # p
    BY <1>1, <2>1 DEF ListInv
  <2>2. CASE q = p
    BY <1>1, <2>2 DEF ListInv
  <2>3. CASE r = p
    BY <1>1, <2>3 DEF ListInv
  <2> QED
    BY <2>1, <2>2, <2>3
<1>3. ASSUME NEW q \in Procs, q # p PROVE ListOwn(q)'
  <2>1. ListOwn(q) /\ Listable(q)' = Listable(q)
    BY <1>1, <1>3 DEF ListInv
  <2>2. Listable(q) # {} => dentry_index' = dentry_index
    BY <1>3 DEF ListInv, HasDirectory
  <2> QED
    BY <1>3, <2>1, <2>2 DEF ListOwn
<1> QED
  BY <1>2, <1>3 DEF ListInv

\* The directories p can list after a step that sets one of its cells.
LEMMA ListableAfter ==
  ASSUME OpenInv, NEW p \in Procs, NEW fd \in Cells, NEW cell,
         fds' = [fds EXCEPT ![p] = [fds[p] EXCEPT ![fd] = cell]]
  PROVE  /\ cell.flags = 1 /\ cell.fotp = "dir" => Listable(p)' = Listable(p) \cup {fd}
         /\ ~(cell.flags = 1 /\ cell.fotp = "dir") => Listable(p)' = Listable(p) \ {fd}
         /\ \A q \in Procs \ {p} : fds'[q] = fds[q]
<1>1. /\ \A q \in Procs \ {p} : fds'[q] = fds[q]
      /\ \A x \in Cells : fds'[p][x] = IF x = fd THEN cell ELSE fds[p][x]
  BY DEF OpenInv, DTypes
<1> QED
  BY <1>1 DEF Listable

LEMMA ListInvInit == Init => ListInv
<1> SUFFICES ASSUME Init PROVE ListInv
  OBVIOUS
<1>1. \A p \in Procs : /\ pc[p] = "user" /\ listing[p] = <<>>
                       /\ \A fd \in Cells : fds[p][fd].flags = 0
  BY DEF Init, NoCell
<1>2. ASSUME NEW p \in Procs PROVE Listable(p) = {}
  <2>1. \A fd \in Cells : ~(fds[p][fd].fotp = "dir" /\ fds[p][fd].flags = 1)
    BY <1>1
  <2> QED
    BY <2>1 DEF Listable
<1> QED
  BY <1>1, <1>2 DEF ListInv, ListOwn, HasDirectory, InAlloc

LEMMA OpenKeepsListInv ==
  ASSUME OpenInv, ListInv, ~SharedListing, NEW p \in Procs, NEW e \in Entries, Open(p, e)
  PROVE  ListInv'
<1>1. /\ pc[p] = "user"
      /\ Directory[e].type = "dir" => \A q \in Procs \ {p} : ~HasDirectory(q)
      /\ opening' = [opening EXCEPT ![p] = e] /\ pc' = [pc EXCEPT ![p] = "search"]
      /\ UNCHANGED <<fds, cur, dentry_index, listing>>
  BY DEF Open, tables, delivered, MayList
<1>2. /\ pc'[p] = "search" /\ opening'[p] = e
      /\ \A q \in Procs \ {p} : pc'[q] = pc[q] /\ opening'[q] = opening[q]
  BY <1>1 DEF OpenInv, DTypes
<1>3. Listable(p)' = Listable(p)
  BY <1>1 DEF Listable
<1>4. ListOwn(p)'
  BY <1>1, <1>2, <1>3 DEF ListInv, ListOwn
<1>5. HasDirectory(p)' => HasDirectory(p) \/ \A q \in Procs \ {p} : ~HasDirectory(q)
  BY <1>1, <1>2, <1>3 DEF HasDirectory
<1> QED
  BY <1>1, <1>2, <1>4, <1>5, OwnStepKeepsListInv

LEMMA SearchKeepsListInv ==
  ASSUME OpenInv, ListInv, NEW p \in Procs, Search(p)
  PROVE  ListInv'
<1>1. /\ pc[p] = "search"
      /\ \/ pc' = [pc EXCEPT ![p] = "user"] /\ opening' = [opening EXCEPT ![p] = 0]
         \/ pc' = [pc EXCEPT ![p] = "fotp"] /\ opening' = opening
         \/ pc' = pc /\ opening' = opening
      /\ UNCHANGED <<fds, cur, dentry_index, listing>>
  BY DEF Search, tables, delivered, control
<1>2. /\ pc'[p] = "user" \/ (pc'[p] \in {"search", "fotp"} /\ opening'[p] = opening[p])
      /\ \A q \in Procs \ {p} : pc'[q] = pc[q] /\ opening'[q] = opening[q]
  BY <1>1 DEF OpenInv, DTypes
<1>3. Listable(p)' = Listable(p)
  BY <1>1 DEF Listable
<1>4. ListOwn(p)'
  BY <1>1, <1>2, <1>3 DEF ListInv, ListOwn
<1>5. HasDirectory(p)' => HasDirectory(p)
  BY <1>1, <1>2, <1>3 DEF HasDirectory, InAlloc
<1> QED
  BY <1>1, <1>2, <1>4, <1>5, OwnStepKeepsListInv

\* A cell becomes the directory's by the last store into it, and by then the
\* program that stores is the one that may list.
LEMMA StoresKeepListInv ==
  ASSUME OpenInv, ListInv, NEW p \in Procs,
         StoreFotp(p) \/ StoreInode(p) \/ StorePos(p) \/ StoreFlags(p)
  PROVE  ListInv'
<1>1. PICK here, next, value :
        /\ here \in Allocating /\ next \in Allocating
        /\ Store(p, here, next, here, value)
        /\ here = "flags" => next = "return" /\ value = 1
        /\ here # "flags" => next # "return"
        /\ here # "search" /\ here # "return"
  <2>1. CASE StoreFotp(p)
    BY <2>1 DEF StoreFotp, Allocating
  <2>2. CASE StoreInode(p)
    BY <2>2 DEF StoreInode, Allocating
  <2>3. CASE StorePos(p)
    BY <2>3 DEF StorePos, Allocating
  <2>4. CASE StoreFlags(p)
    BY <2>4 DEF StoreFlags, Allocating
  <2> QED
    BY <2>1, <2>2, <2>3, <2>4
<1> DEFINE old == fds[p][location]
<1>2. PICK cell : cell = [old EXCEPT ![here] = value]
  OBVIOUS
<1>3. /\ pc[p] = here /\ pc' = [pc EXCEPT ![p] = next]
      /\ fds' = [fds EXCEPT ![p] = [fds[p] EXCEPT ![location] = cell]]
      /\ UNCHANGED <<cur, dentry_index, opening, listing>>
  BY <1>1, <1>2 DEF Store, globals, delivered
<1>4. location \in Cells /\ old \in CellType /\ Filled(here, old, opening[p])
  BY <1>3 DEF OpenInv, DTypes, AllocInv
<1>5. pc'[p] = next /\ \A q \in Procs \ {p} : pc'[q] = pc[q]
  BY <1>3 DEF OpenInv, DTypes
<1>6. /\ \A q \in Procs \ {p} : fds'[q] = fds[q]
      /\ cell.flags = 1 /\ cell.fotp = "dir" => Listable(p)' = Listable(p) \cup {location}
      /\ ~(cell.flags = 1 /\ cell.fotp = "dir") => Listable(p)' = Listable(p) \ {location}
  BY <1>3, <1>4, ListableAfter
<1>7. location \notin Listable(p) /\ old.flags = 0
  BY <1>1, <1>4 DEF Listable, Filled, Allocating
<1>8. CASE here # "flags"
  <2>1. cell.flags = 0
    BY <1>1, <1>2, <1>4, <1>7, <1>8 DEF CellType
  <2>2. Listable(p)' = Listable(p)
    <3>1. Listable(p)' = Listable(p) \ {location}
      BY <1>6, <2>1
    <3> QED
      BY <1>7, <3>1
  <2>3. ListOwn(p)'
    BY <1>1, <1>3, <1>5, <1>8, <2>2 DEF ListInv, ListOwn, Allocating
  <2>4. HasDirectory(p)' => HasDirectory(p)
    BY <1>1, <1>3, <1>5, <2>2 DEF HasDirectory, InAlloc, Allocating
  <2> QED
    BY <1>3, <1>5, <1>6, <2>3, <2>4, OwnStepKeepsListInv
<1>9. CASE here = "flags"
  <2>1. cell.flags = 1 /\ cell.fotp = Directory[opening[p]].type
    BY <1>1, <1>2, <1>4, <1>9 DEF CellType, Filled
  <2>2. HasDirectory(p)' => HasDirectory(p)
    BY <1>1, <1>3, <1>5, <1>6, <1>7, <1>9, <2>1 DEF HasDirectory, InAlloc
  <2>3. ListOwn(p)'
    <3>1. CASE cell.fotp = "dir"
      BY <1>1, <1>3, <1>5, <1>9, <2>1, <3>1 DEF ListInv, ListOwn
    <3>2. CASE cell.fotp # "dir"
      <4>1. Listable(p)' = Listable(p)
        BY <1>6, <1>7, <3>2
      <4> QED
        BY <1>1, <1>3, <1>5, <1>9, <4>1 DEF ListInv, ListOwn
    <3> QED
      BY <3>1, <3>2
  <2> QED
    BY <1>3, <1>5, <1>6, <2>2, <2>3, OwnStepKeepsListInv
<1> QED
  BY <1>8, <1>9

LEMMA OpenDeviceKeepsListInv ==
  ASSUME OpenInv, ListInv, NEW p \in Procs, OpenDevice(p)
  PROVE  ListInv'
<1> DEFINE fotp == fds[p][location].fotp
<1>1. /\ pc[p] = "return"
      /\ fds[p][location].flags = 1 /\ fotp = Directory[opening[p]].type /\ location \in Cells
  BY DEF OpenDevice, OpenInv, DTypes, AllocInv, Filled
<1>2. /\ pc' = [pc EXCEPT ![p] = "user"] /\ opening' = [opening EXCEPT ![p] = 0]
      /\ cur' = cur \/ cur' = [cur EXCEPT ![p] = opening[p]]
      /\ fotp = "dir" => dentry_index' = 0 /\ listing' = [listing EXCEPT ![p] = <<>>]
      /\ fotp # "dir" => UNCHANGED <<dentry_index, listing>>
      /\ fds' = fds
  BY DEF OpenDevice, FirstEntry
<1>3. /\ pc'[p] = "user"
      /\ \A q \in Procs \ {p} : /\ pc'[q] = pc[q] /\ opening'[q] = opening[q]
                                /\ cur'[q] = cur[q] /\ listing'[q] = listing[q]
      /\ fotp = "dir" => listing'[p] = <<>>
  BY <1>2 DEF OpenInv, DTypes
<1>4. Listable(p)' = Listable(p)
  BY <1>2 DEF Listable
<1>5. HasDirectory(p)' => HasDirectory(p)
  BY <1>3, <1>4 DEF HasDirectory, InAlloc
<1>6. CASE fotp = "dir"
  <2>1. HasDirectory(p)
    BY <1>1, <1>6 DEF HasDirectory, InAlloc
  <2>2. ListOwn(p)'
    BY <1>2, <1>3, <1>6 DEF ListOwn
  <2> QED
    BY <1>2, <1>3, <2>1, <2>2, OwnStepKeepsListInv
<1>7. CASE fotp # "dir"
  <2>1. ListOwn(p)'
    BY <1>1, <1>2, <1>3, <1>4, <1>7 DEF ListInv, ListOwn
  <2> QED
    BY <1>2, <1>3, <1>5, <1>7, <2>1, OwnStepKeepsListInv
<1> QED
  BY <1>6, <1>7

LEMMA CloseKeepsListInv ==
  ASSUME OpenInv, ListInv, NEW p \in Procs, NEW fd \in Cells, Close(p, fd)
  PROVE  ListInv'
<1>1. PICK cell : cell = [fds[p][fd] EXCEPT !.inode = 0, !.file_pos = 0, !.flags = 0]
  OBVIOUS
<1>2. /\ pc[p] = "user"
      /\ fds' = [fds EXCEPT ![p] = [fds[p] EXCEPT ![fd] = cell]]
      /\ Listable(p) \subseteq {fd} => listing' = [listing EXCEPT ![p] = <<>>]
      /\ ~(Listable(p) \subseteq {fd}) => listing' = listing
      /\ UNCHANGED <<cur, dentry_index, pc, opening>>
  BY <1>1 DEF Close, globals, control
<1>3. cell.flags = 0
  <2>1. fds[p][fd] \in CellType
    BY DEF OpenInv, DTypes
  <2> QED
    BY <1>1, <2>1 DEF CellType
<1>4. /\ \A q \in Procs \ {p} : fds'[q] = fds[q]
      /\ Listable(p)' = Listable(p) \ {fd}
  <2>1. ~(cell.flags = 1 /\ cell.fotp = "dir")
    BY <1>3
  <2>2. fds' = [fds EXCEPT ![p] = [fds[p] EXCEPT ![fd] = cell]]
    BY <1>2
  <2>3. /\ cell.flags = 1 /\ cell.fotp = "dir" => Listable(p)' = Listable(p) \cup {fd}
        /\ ~(cell.flags = 1 /\ cell.fotp = "dir") => Listable(p)' = Listable(p) \ {fd}
        /\ \A q \in Procs \ {p} : fds'[q] = fds[q]
    BY <2>2, ListableAfter
  <2> QED
    BY <2>1, <2>3
<1>5. /\ \A q \in Procs \ {p} : listing'[q] = listing[q]
      /\ Listable(p) \subseteq {fd} => listing'[p] = <<>>
  BY <1>2 DEF OpenInv, DTypes
<1>6. HasDirectory(p)' => HasDirectory(p)
  BY <1>2, <1>4 DEF HasDirectory, InAlloc
<1>7. ListOwn(p)'
  <2>1. CASE Listable(p) \subseteq {fd}
    <3>1. Listable(p)' = {} /\ listing'[p] = <<>>
      BY <1>4, <1>5, <2>1
    <3> QED
      BY <1>2, <3>1 DEF ListOwn
  <2>2. CASE ~(Listable(p) \subseteq {fd})
    <3>1. listing' = listing /\ Listable(p) # {}
      BY <1>2, <2>2
    <3> QED
      BY <1>2, <3>1 DEF ListInv, ListOwn
  <2> QED
    BY <2>1, <2>2
<1> QED
  BY <1>2, <1>4, <1>5, <1>6, <1>7, OwnStepKeepsListInv

LEMMA ExecuteKeepsListInv ==
  ASSUME OpenInv, ListInv, NEW p \in Procs, NEW e \in Entries, Execute(p, e)
  PROVE  ListInv'
<1>1. /\ pc[p] = "user"
      /\ fds' = [fds EXCEPT ![p] = NewTable(p)]
      /\ cur' = [cur EXCEPT ![p] = e]
      /\ listing' = [listing EXCEPT ![p] = <<>>]
      /\ UNCHANGED <<dentry_index, pc, opening>>
  BY DEF Execute, control
<1>2. /\ \A q \in Procs \ {p} : fds'[q] = fds[q] /\ cur'[q] = cur[q] /\ listing'[q] = listing[q]
      /\ fds'[p] = NewTable(p) /\ listing'[p] = <<>>
  BY <1>1 DEF OpenInv, DTypes
<1>3. \A fd \in Cells : fds'[p][fd].flags = 0
  BY <1>2 DEF NewTable, NoCell, OpenInv
<1>4. \A fd \in Cells : ~(fds'[p][fd].fotp = "dir" /\ fds'[p][fd].flags = 1)
  BY <1>3
<1>5. Listable(p)' = {}
  BY <1>4 DEF Listable
<1>6. ~HasDirectory(p)'
  BY <1>1, <1>5 DEF HasDirectory, InAlloc
<1>7. ListOwn(p)'
  BY <1>1, <1>2, <1>5 DEF ListOwn
<1> QED
  BY <1>1, <1>2, <1>6, <1>7, OwnStepKeepsListInv

LEMMA FileReadKeepsListInv ==
  ASSUME OpenInv, ListInv, NEW p \in Procs, NEW fd \in FIRST..(NFD - 1), NEW nbytes \in Requests,
         FileRead(p, fd, nbytes)
  PROVE  ListInv'
<1>1. PICK e \in Entries, offset \in Nat : ReadFrom(p, fd, nbytes, e, offset)
  BY FileReadChanges
<1>2. PICK pos : pos = offset + Wanted(e, offset, nbytes)
  OBVIOUS
<1>3. PICK cell : cell = [fds[p][fd] EXCEPT !.file_pos = pos]
  OBVIOUS
<1>4. /\ fds[p][fd].fotp = "file" /\ fd \in Cells /\ fds[p][fd] \in CellType
      /\ fds' = [fds EXCEPT ![p] = [fds[p] EXCEPT ![fd] = cell]]
      /\ UNCHANGED <<cur, dentry_index, pc, opening, listing>>
  BY <1>1, <1>2, <1>3, DirectoryFacts DEF ReadFrom, OpenInv, DTypes
<1>5. cell.fotp = "file"
  BY <1>3, <1>4 DEF CellType
<1>6. /\ \A q \in Procs \ {p} : fds'[q] = fds[q]
      /\ Listable(p)' = Listable(p) \ {fd}
  <2>1. ~(cell.flags = 1 /\ cell.fotp = "dir") /\ fd \in Cells
    <3>1. fd \in Cells
      BY <1>4
    <3> QED
      BY <1>5, <3>1
  <2>2. /\ ~(cell.flags = 1 /\ cell.fotp = "dir") => Listable(p)' = Listable(p) \ {fd}
        /\ \A q \in Procs \ {p} : fds'[q] = fds[q]
    <3>1. fd \in Cells /\ fds' = [fds EXCEPT ![p] = [fds[p] EXCEPT ![fd] = cell]]
      BY <1>4
    <3> QED
      BY <3>1, ListableAfter
  <2> QED
    BY <2>1, <2>2
<1>7. fd \notin Listable(p)
  BY <1>4 DEF Listable
<1>8. Listable(p)' = Listable(p)
  BY <1>6, <1>7
<1>9. ListOwn(p)'
  BY <1>4, <1>8 DEF ListInv, ListOwn
<1>10. HasDirectory(p)' => HasDirectory(p)
  BY <1>4, <1>8 DEF HasDirectory, InAlloc
<1> QED
  BY <1>4, <1>6, <1>9, <1>10, OwnStepKeepsListInv

LEMMA ListEntryKeepsListInv ==
  ASSUME OpenInv, ListInv, NEW p \in Procs, NEW fd \in FIRST..(NFD - 1), ListEntry(p, fd)
  PROVE  ListInv'
<1>1. /\ pc[p] = "user" /\ fds[p][fd].flags = 1 /\ fds[p][fd].fotp = "dir"
      /\ dentry_index \in 0..LASTENTRY => cur' = [cur EXCEPT ![p] = dentry_index]
      /\ dentry_index \notin 0..LASTENTRY => cur' = cur
      /\ pc' = [pc EXCEPT ![p] = "listed"]
      /\ UNCHANGED <<fds, dentry_index, opening, listing>>
  BY DEF ListEntry, globals, delivered
<1>2. /\ pc'[p] = "listed"
      /\ \A q \in Procs \ {p} : pc'[q] = pc[q] /\ cur'[q] = cur[q]
      /\ dentry_index \in 0..LASTENTRY => cur'[p] = dentry_index
  BY <1>1 DEF OpenInv, DTypes
<1>3. Listable(p)' = Listable(p) /\ fd \in Listable(p)
  BY <1>1, DirectoryFacts DEF Listable
<1>4. Listable(p)' # {} /\ HasDirectory(p)
  BY <1>3 DEF HasDirectory
<1>5. ListOwn(p)'
  BY <1>1, <1>2, <1>3, <1>4 DEF ListInv, ListOwn
<1> QED
  BY <1>1, <1>2, <1>4, <1>5, OwnStepKeepsListInv

\* The entry in the PCB is the one the index names, and it is the next.
LEMMA ListNextKeepsListInv ==
  ASSUME OpenInv, ListInv, NEW p \in Procs, ListNext(p)
  PROVE  ListInv'
<1>1. /\ pc[p] = "listed"
      /\ dentry_index' = dentry_index + 1
      /\ listing' = [listing EXCEPT ![p] = Append(listing[p], cur[p])]
      /\ pc' = [pc EXCEPT ![p] = "user"]
      /\ UNCHANGED <<fds, cur, opening>>
  BY DEF ListNext, tables
<1>2. /\ pc'[p] = "user" /\ listing'[p] = Append(listing[p], cur[p])
      /\ \A q \in Procs \ {p} : pc'[q] = pc[q] /\ listing'[q] = listing[q]
      /\ listing[p] \in Seq(0..LASTENTRY) /\ cur[p] \in 0..LASTENTRY
  BY <1>1 DEF OpenInv, DTypes
<1>3. /\ Listable(p) # {} /\ dentry_index = Len(listing[p])
      /\ dentry_index \in 0..LASTENTRY => cur[p] = dentry_index
      /\ \A i \in 1..Len(listing[p]) : i <= LASTENTRY + 1 => listing[p][i] = i - 1
  BY <1>1 DEF ListInv, ListOwn
<1>4. /\ Len(listing'[p]) = Len(listing[p]) + 1
      /\ \A i \in 1..Len(listing[p]) : listing'[p][i] = listing[p][i]
      /\ listing'[p][Len(listing[p]) + 1] = cur[p]
      /\ Len(listing[p]) \in Nat
  BY <1>2, AppendProperties
<1>5. ASSUME NEW i \in 1..Len(listing'[p]), i <= LASTENTRY + 1
      PROVE  listing'[p][i] = i - 1
  <2>1. CASE i \in 1..Len(listing[p])
    BY <1>3, <1>4, <1>5, <2>1
  <2>2. CASE i = Len(listing[p]) + 1
    <3>1. dentry_index \in 0..LASTENTRY
      BY <1>3, <1>4, <1>5, <2>2
    <3> QED
      BY <1>3, <1>4, <2>2, <3>1
  <2>3. i \in 1..Len(listing[p]) \/ i = Len(listing[p]) + 1
    BY <1>4, <1>5
  <2> QED
    BY <2>1, <2>2, <2>3
<1>6. ListOwn(p)'
  BY <1>1, <1>2, <1>3, <1>4, <1>5 DEF ListOwn
<1>7. HasDirectory(p)
  BY <1>3 DEF HasDirectory
<1> QED
  BY <1>1, <1>2, <1>6, <1>7, OwnStepKeepsListInv

LEMMA ListInvNext ==
  ASSUME ~SharedListing, OpenInv, ListInv, [Next]_vars
  PROVE  ListInv'
<1>1. CASE UNCHANGED vars
  <2>1. UNCHANGED <<fds, cur, location, dentry_index, pc, opening, stream, listing>>
    BY <1>1 DEF vars, tables, globals, control, delivered
  <2> QED
    BY <2>1 DEF ListInv, ListOwn, HasDirectory, Listable, InAlloc
<1>2. CASE Next
  <2>1. PICK p \in Procs :
    \/ \E e \in Entries : Open(p, e) \/ Execute(p, e)
    \/ Search(p)
    \/ StoreFotp(p)
    \/ StoreInode(p)
    \/ StorePos(p)
    \/ StoreFlags(p)
    \/ OpenDevice(p)
    \/ \E fd \in Cells : Close(p, fd)
    \/ \E fd \in FIRST..(NFD - 1) : ListEntry(p, fd)
    \/ \E fd \in FIRST..(NFD - 1), nbytes \in Requests : FileRead(p, fd, nbytes)
    \/ ListNext(p)
    BY <1>2 DEF Next
  <2> QED
    BY <2>1, OpenKeepsListInv, ExecuteKeepsListInv, SearchKeepsListInv, StoresKeepListInv,
       OpenDeviceKeepsListInv, CloseKeepsListInv, ListEntryKeepsListInv, FileReadKeepsListInv,
       ListNextKeepsListInv
<1> QED
  BY <1>1, <1>2

\* read of the directory: the programs that list it, one at a time, each get
\* every entry once and in order, whatever the other terminals do with files.
THEOREM ListingInOrder ==
  ASSUME ~SharedOpen, ~SharedListing PROVE Spec => []ListsInOrder
<1>1. OpenInv /\ ListInv => ListsInOrder
  <2> SUFFICES ASSUME OpenInv, ListInv, NEW p \in Procs, NEW i \in DOMAIN listing[p],
                      i <= LASTENTRY + 1
               PROVE  listing[p][i] = i - 1
    BY DEF ListsInOrder
  <2>1. listing[p] \in Seq(0..LASTENTRY)
    BY DEF OpenInv, DTypes
  <2>2. i \in 1..Len(listing[p])
    BY <2>1
  <2> QED
    BY <2>2 DEF ListInv, ListOwn
<1> QED
  BY <1>1, OpenInvInit, OpenInvNext, ListInvInit, ListInvNext, PTL DEF Spec

-----------------------------------------------------------------------------
(* Reading a file in equal steps that fit a block.                         *)

\* Programs ask for one or two of a number of bytes that divides a block.
FitsBlocks(unit) == BLOCK % unit = 0 /\ Requests \subseteq {unit, 2 * unit}

\* A descriptor of a file has delivered what lies before its position, which is
\* whole steps from the beginning, or the end.
WholeSteps(e, offset, unit) ==
  (\E a \in Nat : offset = a * unit) \/ offset = Directory[e].length

CellStream(cell, delivery, unit) ==
  /\ cell.flags = 0 => delivery = <<>>
  /\ cell.flags = 1 /\ cell.fotp = "file" =>
       /\ delivery = [i \in 1..cell.file_pos |-> i - 1]
       /\ WholeSteps(cell.inode, cell.file_pos, unit)

StreamInv(unit) ==
  \A p \in Procs : \A fd \in Cells : CellStream(fds[p][fd], stream[p][fd], unit)

\* A read in such steps delivers the bytes after the position.
LEMMA ReadDataIsNext ==
  ASSUME NEW unit \in Nat \ {0}, FitsBlocks(unit),
         NEW e \in Entries, NEW offset \in 0..Directory[e].length, NEW nbytes \in Requests,
         WholeSteps(e, offset, unit)
  PROVE  /\ \A i \in 1..Wanted(e, offset, nbytes) : Position(offset, i - 1) = offset + (i - 1)
         /\ WholeSteps(e, offset + Wanted(e, offset, nbytes), unit)
<1>1. /\ Directory[e].length \in Nat /\ offset \in Nat
      /\ nbytes \in Nat /\ nbytes <= 2 * unit
      /\ nbytes = unit \/ nbytes = 2 * unit
  BY DirectoryFacts DEF FitsBlocks
<1>2. PICK n \in Nat : n = Wanted(e, offset, nbytes)
  BY ReadDataLength
<1>3. /\ n <= nbytes
      /\ n = nbytes \/ offset + n = Directory[e].length
  BY <1>1, <1>2 DEF Wanted
<1> DEFINE Whole(m) == \E a \in Nat : m = a * unit
<1>4. CASE offset = Directory[e].length
  <2>1. n = 0
    BY <1>1, <1>2, <1>4 DEF Wanted
  <2>2. offset + n = Directory[e].length
    BY <1>1, <1>4, <2>1
  <2>3. \A i \in 1..n : Position(offset, i - 1) = offset + (i - 1)
    BY <2>1
  <2> QED
    BY <1>2, <2>2, <2>3 DEF WholeSteps
<1>5. CASE \E a \in Nat : offset = a * unit
  <2>1. PICK a \in Nat : offset = a * unit
    BY <1>5
  <2>2. 2 * unit <= 2 * (BLOCK - (offset % BLOCK))
    BY <2>1, RoomInBlocks DEF FitsBlocks
  <2>3. offset % BLOCK \in Int
    BY <1>1, DivFacts
  <2>4. ASSUME NEW i \in 1..n PROVE Position(offset, i - 1) = offset + (i - 1)
    <3>1. i - 1 \in Nat /\ i - 1 < 2 * unit
      BY <1>1, <1>3
    <3>2. i - 1 < 2 * (BLOCK - (offset % BLOCK))
      BY <2>2, <2>3, <3>1
    <3> QED
      BY <1>1, <3>1, <3>2, PositionIsNext
  <2>5. ASSUME n = nbytes PROVE Whole(offset + n)
    <3>1. CASE n = unit
      <4>1. PICK m \in Nat : m = a + 1
        OBVIOUS
      <4>2. offset + n = m * unit
        BY <2>1, <3>1, <4>1
      <4> QED
        BY <4>2
    <3>2. CASE n = 2 * unit
      <4>1. PICK m \in Nat : m = a + 2
        OBVIOUS
      <4>2. offset + n = m * unit
        BY <2>1, <3>2, <4>1
      <4> QED
        BY <4>2
    <3> QED
      BY <1>1, <2>5, <3>1, <3>2
  <2> HIDE DEF Whole
  <2>6. Whole(offset + n) \/ offset + n = Directory[e].length
    BY <1>3, <2>5
  <2>7. /\ \A i \in 1..n : Position(offset, i - 1) = offset + (i - 1)
        /\ Whole(offset + n) \/ offset + n = Directory[e].length
    BY <2>4, <2>6
  <2> QED
    BY <1>2, <2>7 DEF Whole, WholeSteps
<1> QED
  BY <1>4, <1>5 DEF WholeSteps

LEMMA StreamInvInit ==
  ASSUME NEW unit PROVE Init => StreamInv(unit)
BY DEF Init, StreamInv, CellStream, NoCell

\* A step that sets one cell and what it has delivered.
LEMMA OneCellKeepsStreamInv ==
  ASSUME NEW unit, OpenInv, StreamInv(unit), NEW p \in Procs, NEW fd \in Cells, NEW cell, NEW delivery,
         fds' = [fds EXCEPT ![p] = [fds[p] EXCEPT ![fd] = cell]],
         stream' = [stream EXCEPT ![p] = [stream[p] EXCEPT ![fd] = delivery]],
         CellStream(cell, delivery, unit)
  PROVE  StreamInv(unit)'
<1>1. \A q \in Procs : \A x \in Cells :
        /\ fds'[q][x] = IF q = p /\ x = fd THEN cell ELSE fds[q][x]
        /\ stream'[q][x] = IF q = p /\ x = fd THEN delivery ELSE stream[q][x]
  BY DEF OpenInv, DTypes
<1> SUFFICES ASSUME NEW q \in Procs, NEW x \in Cells
             PROVE  CellStream(fds'[q][x], stream'[q][x], unit)
  BY DEF StreamInv, CellStream
<1>2. CASE q = p /\ x = fd
  BY <1>1, <1>2
<1>3. CASE ~(q = p /\ x = fd)
  BY <1>1, <1>3 DEF StreamInv
<1> QED
  BY <1>2, <1>3

LEMMA StoresKeepStreamInv ==
  ASSUME NEW unit \in Nat \ {0}, OpenInv, StreamInv(unit), NEW p \in Procs,
         StoreFotp(p) \/ StoreInode(p) \/ StorePos(p) \/ StoreFlags(p)
  PROVE  StreamInv(unit)'
<1>1. PICK here, next, value :
        /\ here \in {"fotp", "inode", "file_pos", "flags"}
        /\ Store(p, here, next, here, value)
        /\ here = "flags" => value = 1
  <2>1. CASE StoreFotp(p)
    BY <2>1 DEF StoreFotp
  <2>2. CASE StoreInode(p)
    BY <2>2 DEF StoreInode
  <2>3. CASE StorePos(p)
    BY <2>3 DEF StorePos
  <2>4. CASE StoreFlags(p)
    BY <2>4 DEF StoreFlags
  <2> QED
    BY <2>1, <2>2, <2>3, <2>4
<1> DEFINE old == fds[p][location]
<1>2. PICK cell : cell = [old EXCEPT ![here] = value]
  OBVIOUS
<1>3. /\ pc[p] = here /\ stream' = stream
      /\ fds' = [fds EXCEPT ![p] = [fds[p] EXCEPT ![location] = cell]]
  BY <1>1, <1>2 DEF Store, delivered
<1>4. location \in Cells /\ old \in CellType /\ Filled(here, old, opening[p])
  BY <1>3 DEF OpenInv, DTypes, AllocInv
<1>5. /\ old.flags = 0 /\ stream[p][location] = <<>>
      /\ here = "flags" => old.file_pos = 0
  BY <1>1, <1>4 DEF Filled, StreamInv, CellStream
<1>6. stream' = [stream EXCEPT ![p] = [stream[p] EXCEPT ![location] = <<>>]]
  BY <1>3, <1>4, <1>5 DEF OpenInv, DTypes
<1>7. cell.flags = 0 \/ cell.file_pos = 0
  BY <1>1, <1>2, <1>4, <1>5 DEF CellType
<1>8. /\ <<>> = [i \in 1..0 |-> i - 1]
      /\ WholeSteps(cell.inode, 0, unit)
  <2>1. 0 = 0 * unit
    OBVIOUS
  <2> QED
    BY <2>1 DEF WholeSteps
<1>9. CellStream(cell, <<>>, unit)
  <2>1. CASE cell.flags = 0
    BY <2>1 DEF CellStream
  <2>2. CASE cell.file_pos = 0
    BY <1>8, <2>2 DEF CellStream
  <2> QED
    BY <1>7, <2>1, <2>2
<1> QED
  BY <1>3, <1>4, <1>6, <1>9, OneCellKeepsStreamInv

LEMMA CloseKeepsStreamInv ==
  ASSUME NEW unit, OpenInv, StreamInv(unit), NEW p \in Procs, NEW fd \in Cells, Close(p, fd)
  PROVE  StreamInv(unit)'
<1>1. PICK cell : cell = [fds[p][fd] EXCEPT !.inode = 0, !.file_pos = 0, !.flags = 0]
  OBVIOUS
<1>2. /\ fds' = [fds EXCEPT ![p] = [fds[p] EXCEPT ![fd] = cell]]
      /\ stream' = [stream EXCEPT ![p] = [stream[p] EXCEPT ![fd] = <<>>]]
  BY <1>1 DEF Close
<1>3. cell.flags = 0
  <2>1. fds[p][fd] \in CellType
    BY DEF OpenInv, DTypes
  <2> QED
    BY <1>1, <2>1 DEF CellType
<1>4. CellStream(cell, <<>>, unit)
  BY <1>3 DEF CellStream
<1> QED
  BY <1>2, <1>4, OneCellKeepsStreamInv

LEMMA ExecuteKeepsStreamInv ==
  ASSUME NEW unit, OpenInv, StreamInv(unit), NEW p \in Procs, NEW e \in Entries, Execute(p, e)
  PROVE  StreamInv(unit)'
<1>1. /\ fds' = [fds EXCEPT ![p] = NewTable(p)]
      /\ stream' = [stream EXCEPT ![p] = [fd \in Cells |-> <<>>]]
  BY DEF Execute
<1>2. /\ \A q \in Procs \ {p} : fds'[q] = fds[q] /\ stream'[q] = stream[q]
      /\ fds'[p] = NewTable(p) /\ stream'[p] = [fd \in Cells |-> <<>>]
  BY <1>1 DEF OpenInv, DTypes
<1>3. \A fd \in Cells : fds'[p][fd].flags = 0 /\ stream'[p][fd] = <<>>
  BY <1>2 DEF NewTable, NoCell, OpenInv
<1>4. \A fd \in Cells : CellStream(fds'[p][fd], stream'[p][fd], unit)
  BY <1>3 DEF CellStream
<1> QED
  BY <1>2, <1>4 DEF StreamInv

LEMMA FileReadKeepsStreamInv ==
  ASSUME NEW unit \in Nat \ {0}, FitsBlocks(unit),
         OpenInv, StreamInv(unit), NEW p \in Procs, NEW fd \in FIRST..(NFD - 1), NEW nbytes \in Requests,
         FileRead(p, fd, nbytes)
  PROVE  StreamInv(unit)'
<1>1. PICK e \in Entries, offset \in Nat : ReadFrom(p, fd, nbytes, e, offset)
  BY FileReadChanges
<1> DEFINE bytes == ReadData(e, offset, nbytes)
           before == stream[p][fd]
<1>2. PICK n \in Nat : n = Wanted(e, offset, nbytes)
  BY <1>1, ReadDataLength DEF ReadFrom
<1>3. PICK pos \in Nat : pos = offset + n
  OBVIOUS
<1>4. PICK cell : cell = [fds[p][fd] EXCEPT !.file_pos = pos]
  OBVIOUS
<1>5. PICK delivery : delivery = before \o bytes
  OBVIOUS
<1>6. /\ fds[p][fd].flags = 1 /\ fds[p][fd].fotp = "file" /\ fds[p][fd].inode = e
      /\ fds[p][fd].file_pos = offset /\ offset \in 0..Directory[e].length
      /\ fd \in Cells /\ fds[p][fd] \in CellType
      /\ before \in Seq(Int) /\ bytes \in Seq(Int)
  BY <1>1, DirectoryFacts DEF ReadFrom, OpenInv, DTypes
<1>7. /\ fds' = [fds EXCEPT ![p] = [fds[p] EXCEPT ![fd] = cell]]
      /\ stream' = [stream EXCEPT ![p] = [stream[p] EXCEPT ![fd] = delivery]]
  BY <1>1, <1>2, <1>3, <1>4, <1>5 DEF ReadFrom
<1>8. cell.flags = 1 /\ cell.inode = e /\ cell.file_pos = pos
  BY <1>4, <1>6 DEF CellType
<1>9. /\ before = [i \in 1..offset |-> i - 1]
      /\ WholeSteps(e, offset, unit)
  BY <1>6 DEF StreamInv, CellStream
<1>10. /\ \A i \in 1..n : Position(offset, i - 1) = offset + (i - 1)
       /\ WholeSteps(e, pos, unit)
  <2>1. /\ \A i \in 1..Wanted(e, offset, nbytes) : Position(offset, i - 1) = offset + (i - 1)
        /\ WholeSteps(e, offset + Wanted(e, offset, nbytes), unit)
    BY <1>6, <1>9, ReadDataIsNext
  <2> QED
    BY <1>2, <1>3, <2>1
<1>11. /\ Len(bytes) = n
       /\ \A i \in 1..n : bytes[i] = Position(offset, i - 1)
  BY <1>2, <1>6, ReadDataLength
<1> HIDE DEF bytes, before
<1>12. Len(before) = offset /\ \A i \in 1..offset : before[i] = i - 1
  BY <1>6, <1>9, LenProperties
<1>13. /\ delivery \in Seq(Int) /\ Len(delivery) = pos
       /\ \A i \in 1..pos : delivery[i] = IF i <= offset THEN before[i] ELSE bytes[i - offset]
  <2>1. /\ before \o bytes \in Seq(Int)
        /\ Len(before \o bytes) = Len(before) + Len(bytes)
        /\ \A i \in 1..(Len(before) + Len(bytes)) :
             (before \o bytes)[i] = IF i <= Len(before) THEN before[i] ELSE bytes[i - Len(before)]
    BY <1>6, ConcatProperties
  <2> QED
    BY <1>3, <1>5, <1>11, <1>12, <2>1
<1>14. ASSUME NEW i \in 1..pos PROVE delivery[i] = i - 1
  <2>1. CASE i <= offset
    BY <1>12, <1>13, <2>1
  <2>2. CASE ~(i <= offset)
    <3>1. i - offset \in 1..n
      BY <1>3, <2>2
    <3>2. bytes[i - offset] = offset + (i - offset - 1)
      BY <1>10, <1>11, <3>1
    <3> QED
      BY <1>13, <2>2, <3>1, <3>2
  <2> QED
    BY <2>1, <2>2
<1>15. delivery = [i \in 1..pos |-> i - 1]
  <2>1. DOMAIN delivery = 1..pos /\ delivery \in [1..pos -> Int]
    BY <1>13, LenProperties
  <2> QED
    BY <1>14, <2>1
<1>16. CellStream(cell, delivery, unit)
  BY <1>8, <1>10, <1>15 DEF CellStream
<1> QED
  BY <1>6, <1>7, <1>16, OneCellKeepsStreamInv

LEMMA StreamInvNext ==
  ASSUME NEW unit \in Nat \ {0}, FitsBlocks(unit),
         OpenInv, StreamInv(unit), [Next]_vars
  PROVE  StreamInv(unit)'
<1>1. fds' = fds /\ stream' = stream => StreamInv(unit)'
  BY DEF StreamInv
<1>2. CASE UNCHANGED vars
  BY <1>1, <1>2 DEF vars, tables, delivered
<1>3. CASE Next
  <2>1. PICK p \in Procs :
    \/ \E e \in Entries : Open(p, e) \/ Execute(p, e)
    \/ Search(p)
    \/ StoreFotp(p)
    \/ StoreInode(p)
    \/ StorePos(p)
    \/ StoreFlags(p)
    \/ OpenDevice(p)
    \/ \E fd \in Cells : Close(p, fd)
    \/ \E fd \in FIRST..(NFD - 1) : ListEntry(p, fd)
    \/ \E fd \in FIRST..(NFD - 1), nbytes \in Requests : FileRead(p, fd, nbytes)
    \/ ListNext(p)
    BY <1>3 DEF Next
  <2>2. CASE \/ \E e \in Entries : Open(p, e)
             \/ Search(p)
             \/ OpenDevice(p)
             \/ \E fd \in FIRST..(NFD - 1) : ListEntry(p, fd)
             \/ ListNext(p)
    BY <1>1, <2>2 DEF Open, Search, OpenDevice, ListEntry, ListNext, tables, delivered
  <2> QED
    BY <2>1, <2>2, ExecuteKeepsStreamInv, StoresKeepStreamInv, CloseKeepsStreamInv,
       FileReadKeepsStreamInv
<1> QED
  BY <1>2, <1>3

\* read of files: if programs ask for one or two of a number of bytes that fits
\* a block a whole number of times (cat asks for 1024, of 4096), what a descriptor
\* has delivered is its file from the beginning, without a gap and without a byte
\* twice, up to its position; whatever the other descriptors and programs do.
THEOREM ReadingTheFile ==
  ASSUME ~SharedOpen,
         NEW unit \in Nat \ {0}, FitsBlocks(unit)
  PROVE  Spec => []ReadsTheFile
<1>1. Init => StreamInv(unit)
  BY StreamInvInit
<1>2. OpenInv /\ StreamInv(unit) /\ [Next]_vars => StreamInv(unit)'
  BY StreamInvNext
<1>3. StreamInv(unit) => ReadsTheFile
  BY DirectoryFacts DEF StreamInv, CellStream, ReadsTheFile
<1> QED
  BY <1>1, <1>2, <1>3, OpenInvInit, OpenInvNext, PTL DEF Spec
=============================================================================
