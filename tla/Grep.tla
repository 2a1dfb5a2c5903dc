--------------------------------- MODULE Grep ---------------------------------
(***************************************************************************)
(* The program grep (syscalls/ece391grep.c): it asks for its argument and  *)
(* searches a file for it, through a buffer that holds a part of the file  *)
(* at a time.  A line cut by the end of the buffer is moved to its front   *)
(* and completed by the next read.                                         *)
(*                                                                         *)
(* One file stands for those of the directory: do_one_file starts anew for *)
(* each.  read takes as many bytes as were asked for or are left, from     *)
(* where read_data looks for them (module FileBlocks): that is not always  *)
(* in the file.  Bytes of the buffer nothing was read into hold what was   *)
(* on the stack.                                                           *)
(***************************************************************************)
EXTENDS Arguments, FileBlocks

CONSTANTS
  GREP,      \* the name of the file of grep, in Programs
  Texts,     \* the files it may find
  BUFSIZE,   \* 1024 in the program
  Residues,  \* what the buffer's bytes may hold at first
  Strays     \* what a read may find that leaves the file

NEWLINE == "NEWLINE"

ASSUME GrepAssumption ==
  /\ GREP \in Programs
  /\ Texts \subseteq Seq(Bytes \cup {NUL, NEWLINE})
  /\ BUFSIZE \in Nat \ {0}
  /\ Residues \subseteq Bytes \cup {NUL, NEWLINE}
  /\ Strays \subseteq Bytes \cup {NUL, NEWLINE} /\ Strays # {}

VARIABLES
  step,        \* "off", "read", "lines", "done" or "failed"
  text,        \* the file
  position,    \* how much of it was read
  data,        \* the buffer, positions 0 to BUFSIZE
  last,        \* how much of it is in use
  cnt,         \* what the last read returned
  line_start,  \* where the line searched next begins
  shown        \* the lines printed
grepVars == <<step, text, position, data, last, cnt, line_start, shown>>

-----------------------------------------------------------------------------
Between(i, k) == [n \in 1..(k - i) |-> data[i + n - 1]]

\* strcpy and fdputs go as far as the first NUL.
UpToNul(s) == SubSeq(s, 1, NameEnd(s, 1, Len(s) + 1) - 1)

\* The search of one line: strncmp at each position where the first byte agrees,
\* in a line that ends with a NUL.
Occurs(s, line) ==
  \E i \in DOMAIN line :
    i + Len(s) - 1 <= Len(line) /\ SubSeq(line, i, i + Len(s) - 1) = s

LineEnd ==
  CHOOSE k \in line_start..last :
    /\ k = last \/ data[k] = NEWLINE
    /\ \A i \in line_start..(k - 1) : data[i] # NEWLINE

\* A line without its newline is kept for the next read, unless it begins at the
\* front of the buffer or the file is at its end.  At the end of what was read the
\* byte looked at is none of the file's.
KeepNone == FALSE
KeepFromFront == data[LineEnd] # NEWLINE /\ cnt # 0
Keep == data[LineEnd] # NEWLINE /\ cnt # 0 /\ line_start # 0

-----------------------------------------------------------------------------
GrepInit ==
  /\ Init
  /\ step = "off"
  /\ text = <<>> /\ position = 0
  /\ data = [i \in 0..BUFSIZE |-> NUL]
  /\ last = 0 /\ cnt = 0 /\ line_start = 0
  /\ shown = <<>>

\* main: the search string is what getargs gave; then do_one_file opens the file.
Start ==
  /\ step = "off"
  /\ name = GREP
  /\ answer = "given"
  /\ step' = "read"
  /\ text' \in Texts
  /\ \E byte \in Residues : data' = [i \in 0..BUFSIZE |-> byte]
  /\ last' = 0
  /\ position' = 0
  /\ shown' = <<>>
  /\ UNCHANGED <<cnt, line_start, commandVars>>

\* How many bytes a read into the rest of the buffer returns, and those of them
\* that read_data looks for past the end of the file.
Count ==
  LET room == BUFSIZE - last
      left == Len(text) - position
  IN IF room < left THEN room ELSE left
Outside == {i \in 0..(Count - 1) : Position(position, i) >= Len(text)}

\* Past its end a file has the rest of its last block, and further on any block of
\* the disk that the inode happens to name.
Read ==
  LET count == Count
      outside == Outside
  IN
  /\ step = "read"
  /\ \E stray \in [outside -> Strays] :
       data' = [i \in 0..BUFSIZE |->
                 IF i \in last..(last + count - 1)
                 THEN IF i - last \in outside THEN stray[i - last]
                      ELSE text[Position(position, i - last) + 1]
                 ELSE data[i]]
  /\ position' = position + count
  /\ last' = last + count
  /\ cnt' = count
  /\ line_start' = 0
  /\ step' = "lines"
  /\ UNCHANGED <<text, shown, commandVars>>

\* The inode may also hold a number there that is no block's: read returns -1, and
\* the search of this file and of the others is over.
ReadFails ==
  /\ step = "read"
  /\ \E i \in 0..(Count - 1) : PastBlocks(Position(position, i), Len(text))
  /\ cnt' = -1
  /\ step' = "failed"
  /\ UNCHANGED <<text, position, data, last, line_start, shown, commandVars>>

\* The copy stops after the first NUL: one of the line, or the one just stored.
KeepLine ==
  LET kept == UpToNul(Between(line_start, LineEnd)) \o <<NUL>> IN
  /\ step = "lines"
  /\ Keep
  /\ data' = [i \in 0..BUFSIZE |->
                IF i < Len(kept) THEN kept[i + 1] ELSE IF i = LineEnd THEN NUL ELSE data[i]]
  /\ last' = last - line_start
  /\ step' = "read"
  /\ UNCHANGED <<text, position, cnt, line_start, shown, commandVars>>

SearchLine ==
  LET line == Between(line_start, LineEnd) IN
  /\ step = "lines"
  /\ ~Keep
  /\ data' = [data EXCEPT ![LineEnd] = NUL]
  /\ shown' = IF Occurs(buf, line) THEN Append(shown, UpToNul(line)) ELSE shown
  /\ line_start' = LineEnd + 1
  /\ IF line_start' < last THEN UNCHANGED <<step, last>>
     ELSE /\ last' = 0
          /\ step' = IF cnt = 0 THEN "done" ELSE "read"
  /\ UNCHANGED <<text, position, cnt, commandVars>>

\* The buffer's frame is gone; main returns, which halts the program.
Return ==
  /\ step \in {"done", "failed"}
  /\ Halt
  /\ step' = "off"
  /\ text' = <<>> /\ position' = 0
  /\ data' = [i \in 0..BUFSIZE |-> NUL]
  /\ last' = 0 /\ cnt' = 0 /\ line_start' = 0
  /\ shown' = <<>>

Search == Start \/ Read \/ ReadFails \/ KeepLine \/ SearchLine \/ Return

GrepNext ==
  \/ /\ step = "off"
     /\ (\E s \in Commands : Execute(s)) \/ Getargs \/ Halt
     /\ UNCHANGED grepVars
  \/ Search

GrepSpec == GrepInit /\ [][GrepNext]_<<commandVars, grepVars>>

\* The program runs on whenever it gets the processor.
GrepFairSpec == GrepSpec /\ WF_<<commandVars, grepVars>>(Read \/ ReadFails \/ KeepLine \/ SearchLine)

-----------------------------------------------------------------------------
(* Properties.                                                             *)

\* The lines of a text, by the positions of its newlines.
Starts == {i \in DOMAIN text : i = 1 \/ text[i - 1] = NEWLINE}
LineAt(i) ==
  SubSeq(text, i, (CHOOSE k \in i..(Len(text) + 1) :
                     /\ k = Len(text) + 1 \/ text[k] = NEWLINE
                     /\ \A n \in i..(k - 1) : text[n] # NEWLINE) - 1)
Matching == {i \in Starts : Occurs(buf, LineAt(i))}
FitBuffer == \A i \in Starts : Len(LineAt(i)) < BUFSIZE

\* grep prints each line that holds the argument, whole, once and in order, and no
\* other, wherever the end of its buffer cuts the file: if the file has one block,
\* all of it text, and no line is longer than the buffer.
OneBlockOfText == Len(text) <= BLOCK /\ \A i \in DOMAIN text : text[i] # NUL
Rank(i) == Cardinality({k \in Matching : k <= i})
PrintsMatches ==
  step = "done" /\ FitBuffer /\ OneBlockOfText =>
    /\ Len(shown) = Cardinality(Matching)
    /\ \A i \in Matching : shown[Rank(i)] = LineAt(i)

\* The search of every file ends, also if a line fills the buffer and no newline is
\* found in it: with as many bytes read as the file has, or with a read that
\* failed, which none does in a file of one block.
SearchEnds ==
  step = "read" ~> \/ step = "done" /\ position = Len(text)
                   \/ step = "failed" /\ Len(text) > BLOCK
=============================================================================
