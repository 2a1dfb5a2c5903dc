----------------------------- MODULE Descriptors ------------------------------
(***************************************************************************)
(* File descriptors and the files behind them: open, close and read of     *)
(* student-distrib/syscalls.c, alloc_file and free_file of                 *)
(* syscall_helper.c, and the file system of file.c.                        *)
(*                                                                         *)
(* System calls run with interrupts on, so programs of different terminals *)
(* can be in them at once.  alloc_file works on a global index, location,  *)
(* and is modelled statement by statement; directory_read, which works on  *)
(* the global dentry_index, in two steps.  Whatever touches the PCB of its *)
(* own process only is one step.                                           *)
(*                                                                         *)
(* A file is named by its place in the directory, which is also its inode; *)
(* a byte that is read is named by its place in the file.                  *)
(***************************************************************************)
EXTENDS FileBlocks, Sequences

CONSTANTS
  Procs,          \* programs at work, one for each terminal
  NFD,            \* FD_ARRAY_LEN (8)
  LASTENTRY,      \* MAX_NUM_OF_FILES, the last index of the directory (62)
  Directory,      \* its entries: what each is, and how long
  Requests,       \* the nbytes programs pass to read
  MaxListed,      \* bound on the entries read from the directory
  SharedOpen,     \* may two programs be in open or execute at once?
  SharedListing   \* may two programs have the directory open at once?

ASSUME DescriptorsAssumption ==
  /\ NFD \in Nat /\ NFD > 2
  /\ LASTENTRY \in Nat
  /\ Directory \in [0..LASTENTRY -> [type : {"rtc", "dir", "file", "unused"}, length : Nat]]
  /\ Directory[0].type = "dir"
  /\ Requests \subseteq Nat
  /\ MaxListed \in Nat
  /\ SharedOpen \in BOOLEAN
  /\ SharedListing \in BOOLEAN

FIRST == 2                     \* FIRST_FILE_OFFSET: 0 and 1 are the terminal's
Entries == {e \in 0..LASTENTRY : Directory[e].type # "unused"}
Cells == FIRST..NFD            \* the last one is the memory after the array

VARIABLES
  fds,           \* [Procs -> [Cells -> cell]], file_d_array of each PCB
  cur,           \* [Procs -> index], the entry in cur_file_dentry of each PCB
  location,      \* the index alloc_file and init_zero loop with
  dentry_index,  \* the entry directory_read reads next
  pc, opening,   \* where each program is, and the entry it is opening
  stream,        \* the bytes each open descriptor has delivered
  listing        \* the entries the directory has delivered since it was opened

tables == <<fds, cur>>
globals == <<location, dentry_index>>
control == <<pc, opening>>
delivered == <<stream, listing>>
vars == <<tables, globals, control, delivered>>

NoCell == [fotp |-> "none", inode |-> 0, file_pos |-> 0, flags |-> 0]

\* The program itself is the file that execute put into cur_file_dentry.
IsProgram(e) == Directory[e].type = "file"

Init ==
  /\ fds = [p \in Procs |-> [fd \in Cells |-> NoCell]]
  /\ cur \in [Procs -> {e \in Entries : IsProgram(e)}]
  /\ location = NFD
  /\ dentry_index = -1
  /\ pc = [p \in Procs |-> "user"]
  /\ opening = [p \in Procs |-> 0]
  /\ stream = [p \in Procs |-> [fd \in Cells |-> <<>>]]
  /\ listing = [p \in Procs |-> <<>>]

InAlloc(p) == pc[p] \notin {"user", "listed"}
MayAllocate(p) == SharedOpen \/ \A q \in Procs \ {p} : ~InAlloc(q)

Listable(p) == {fd \in Cells : fds[p][fd].fotp = "dir" /\ fds[p][fd].flags = 1}
HasDirectory(p) ==
  Listable(p) # {} \/ (InAlloc(p) /\ Directory[opening[p]].type = "dir")
MayList(p) == SharedListing \/ \A q \in Procs \ {p} : ~HasDirectory(q)

-----------------------------------------------------------------------------
(* open: read_dentry_by_name finds the file, alloc_file gives it a place.  *)

Open(p, e) ==
  /\ pc[p] = "user"
  /\ MayAllocate(p)
  /\ Directory[e].type = "dir" => MayList(p)
  /\ opening' = [opening EXCEPT ![p] = e]
  /\ location' = FIRST
  /\ pc' = [pc EXCEPT ![p] = "search"]
  /\ UNCHANGED <<tables, dentry_index, delivered>>

\* The cells alloc_file looks at: 2 to 7.
InArrayTooFar(i) == i <= NFD
InArray(i) == i < NFD

\* A cell is free by its flags; free_file leaves the jump table in it.
CellFreeByFotp(cell) == cell.fotp = "none"
CellFree(cell) == cell.flags = 0

\* One turn of the loop.
Search(p) ==
  /\ pc[p] = "search"
  /\ \/ /\ ~InArray(location)
        /\ pc' = [pc EXCEPT ![p] = "user"]
        /\ opening' = [opening EXCEPT ![p] = 0]
        /\ UNCHANGED location
     \/ /\ InArray(location)
        /\ CellFree(fds[p][location])
        /\ pc' = [pc EXCEPT ![p] = "fotp"]
        /\ UNCHANGED <<location, opening>>
     \/ /\ InArray(location)
        /\ ~CellFree(fds[p][location])
        /\ location' = location + 1
        /\ UNCHANGED control
  /\ UNCHANGED <<tables, dentry_index, delivered>>

\* A statement of alloc_file that stores into the cell.
Store(p, here, next, field, value) ==
  /\ pc[p] = here
  /\ pc' = [pc EXCEPT ![p] = next]
  /\ fds' = [fds EXCEPT ![p][location][field] = value]
  /\ UNCHANGED <<cur, globals, opening, delivered>>

StoreFotp(p) == Store(p, "fotp", "inode", "fotp", Directory[opening[p]].type)

\* Only a regular file keeps its inode.
Inode(e) == IF Directory[e].type = "file" THEN e ELSE 0
StoreInode(p) == Store(p, "inode", "file_pos", "inode", Inode(opening[p]))

StorePos(p) == Store(p, "file_pos", "flags", "file_pos", 0)
StoreFlags(p) == Store(p, "flags", "return", "flags", 1)

\* directory_open starts the one listing there is again.
FirstEntryKept == dentry_index
FirstEntry == 0

\* alloc_file returns, and the open of the cell it returned is called: of a
\* file and of the directory it reads the entry again, into the PCB.
OpenDevice(p) ==
  LET fotp == fds[p][location].fotp IN
  /\ pc[p] = "return"
  /\ cur' = IF fotp \in {"file", "dir"} THEN [cur EXCEPT ![p] = opening[p]] ELSE cur
  /\ dentry_index' = IF fotp = "dir" THEN FirstEntry ELSE dentry_index
  /\ listing' = IF fotp = "dir" THEN [listing EXCEPT ![p] = <<>>] ELSE listing
  /\ pc' = [pc EXCEPT ![p] = "user"]
  /\ opening' = [opening EXCEPT ![p] = 0]
  /\ UNCHANGED <<fds, location, stream>>

-----------------------------------------------------------------------------
(* close, and the end of a program.                                        *)

\* free_file; close lets the cell after the array pass.
Close(p, fd) ==
  /\ pc[p] = "user"
  /\ fds[p][fd].flags = 1
  /\ fds' = [fds EXCEPT ![p][fd] = [@ EXCEPT !.inode = 0, !.file_pos = 0, !.flags = 0]]
  /\ stream' = [stream EXCEPT ![p][fd] = <<>>]
  /\ listing' = IF Listable(p) \subseteq {fd} THEN [listing EXCEPT ![p] = <<>>] ELSE listing
  /\ UNCHANGED <<cur, globals, control>>

\* The table init_std_op and init_zero leave to a new program: flags are 0, and
\* of the other fields, which nothing reads before alloc_file sets them, NoCell
\* stands for what the kernel stack held.
NewTable(p) == [fd \in Cells |-> IF fd = NFD THEN fds[p][fd] ELSE NoCell]

\* The program ends (halt_help) and its terminal executes another one under its
\* pid: a new table, which init_zero has walked through with location.
Execute(p, e) ==
  /\ pc[p] = "user"
  /\ MayAllocate(p)
  /\ IsProgram(e)
  /\ fds' = [fds EXCEPT ![p] = NewTable(p)]
  /\ location' = NFD
  /\ cur' = [cur EXCEPT ![p] = e]
  /\ stream' = [stream EXCEPT ![p] = [fd \in Cells |-> <<>>]]
  /\ listing' = [listing EXCEPT ![p] = <<>>]
  /\ UNCHANGED <<dentry_index, control>>

-----------------------------------------------------------------------------
(* read.                                                                   *)

\* read_data: at most nbytes, and as many as are left at most.  A place past the
\* blocks of the file stands for what is found there, or for the -1 if that is no
\* block's number; Grep has both.
ReadData(e, offset, nbytes) ==
  LET left == Directory[e].length - offset
      count == IF nbytes <= left THEN nbytes ELSE left
  IN [i \in 1..count |-> Position(offset, i - 1)]

\* How far a read that asked for nbytes and got count moves the descriptor.
AdvanceByRequest(nbytes, count) == nbytes
Advance(nbytes, count) == count

\* file_read: it goes by the type of the entry in cur_file_dentry, and returns
\* -1, changing nothing, if that is not a file.
FileRead(p, fd, nbytes) ==
  LET cell == fds[p][fd]
      bytes == ReadData(cell.inode, cell.file_pos, nbytes) IN
  /\ pc[p] = "user"
  /\ cell.flags = 1 /\ cell.fotp = "file"
  /\ Directory[cur[p]].type = "file"
  /\ fds' = [fds EXCEPT ![p][fd].file_pos = @ + Advance(nbytes, Len(bytes))]
  /\ stream' = [stream EXCEPT ![p][fd] = @ \o bytes]
  /\ UNCHANGED <<cur, globals, control, listing>>

\* directory_read: an index past the directory leaves the last entry in place.
ListEntry(p, fd) ==
  /\ pc[p] = "user"
  /\ fds[p][fd].flags = 1 /\ fds[p][fd].fotp = "dir"
  /\ dentry_index < MaxListed
  /\ cur' = IF dentry_index \in 0..LASTENTRY
            THEN [cur EXCEPT ![p] = dentry_index] ELSE cur
  /\ pc' = [pc EXCEPT ![p] = "listed"]
  /\ UNCHANGED <<fds, globals, opening, delivered>>

\* num_dir_entries is never set, so the index does not start again.
ListNext(p) ==
  /\ pc[p] = "listed"
  /\ dentry_index' = dentry_index + 1
  /\ listing' = [listing EXCEPT ![p] = Append(@, cur[p])]
  /\ pc' = [pc EXCEPT ![p] = "user"]
  /\ UNCHANGED <<tables, location, opening, stream>>

Next ==
  \E p \in Procs :
    \/ \E e \in Entries : Open(p, e) \/ Execute(p, e)
    \/ Search(p)
    \/ StoreFotp(p)
    \/ StoreInode(p)
    \/ StorePos(p)
    \/ StoreFlags(p)
    \/ OpenDevice(p)
    \/ \E fd \in Cells : Close(p, fd)
    \/ \E fd \in FIRST..(NFD - 1) : ListEntry(p, fd)
    \/ \E fd \in FIRST..(NFD - 1), nbytes \in Requests : FileRead(p, fd, nbytes)
    \/ ListNext(p)

Spec == Init /\ [][Next]_vars
-----------------------------------------------------------------------------
(* Properties.                                                             *)

\* What open returns is a descriptor of the file it was asked for, at its
\* beginning, inside the array; and it returns -1 only if no cell is free.
OpenGivesFile ==
  [][\A p \in Procs :
       InAlloc(p) /\ pc'[p] = "user" =>
         IF pc[p] = "return"
         THEN /\ location < NFD
              /\ fds[p][location] = [fotp |-> Directory[opening[p]].type,
                                     inode |-> Inode(opening[p]),
                                     file_pos |-> 0, flags |-> 1]
         ELSE \A fd \in FIRST..(NFD - 1) : fds[p][fd].flags = 1]_vars

\* The reads of a descriptor, put together, are the file from its beginning,
\* whatever other descriptors and other programs do in between.
ReadsTheFile ==
  \A p \in Procs : \A fd \in FIRST..(NFD - 1) :
    fds[p][fd].flags = 1 /\ fds[p][fd].fotp = "file" /\ pc[p] = "user" =>
      stream[p][fd] = [i \in 1..fds[p][fd].file_pos |-> i - 1]

\* A program that lists the directory is given every entry, each once and in
\* order, up to the last.
ListsInOrder ==
  \A p \in Procs : \A i \in DOMAIN listing[p] :
    i <= LASTENTRY + 1 => listing[p][i] = i - 1

\* The tables, read as maps from descriptors to objects and positions.
Objects ==
  {<<"rtc", 0>>, <<"dir", 0>>}
  \cup {<<"file", e>> : e \in {e \in Entries : Directory[e].type = "file"}}

Table == [p \in Procs |-> [fd \in FIRST..(NFD - 1) |->
            LET cell == fds[p][fd] IN
            [object |-> IF cell.flags = 1 THEN <<cell.fotp, cell.inode>>
                                          ELSE <<"closed", 0>>,
             pos |-> IF cell.flags = 1 THEN cell.file_pos ELSE 0]]]

Private == INSTANCE OpenFiles WITH
             Fds <- FIRST..(NFD - 1), table <- Table,
             Length <- [o \in Objects |->
                          IF o[1] = "file" THEN Directory[o[2]].length ELSE 0]

\* The kernel's one location and its PCBs give each program descriptors of its
\* own, that no other program's calls change.
ImplementsOpenFiles == Private!Spec
=============================================================================
