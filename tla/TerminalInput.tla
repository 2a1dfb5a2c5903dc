---------------------------- MODULE TerminalInput ----------------------------
(***************************************************************************)
(* The line a user types and the line a program reads: keyboard_handler of *)
(* student-distrib/keyboard.c and terminal_read of terminal.c, which meet  *)
(* in the input buffer of a terminal.                                      *)
(*                                                                         *)
(* The keyboard interrupt is one step and writes the buffer of the         *)
(* terminal that is displayed.  terminal_read runs with interrupts on in a *)
(* program of the terminal that is scheduled: waiting, and the copy of     *)
(* each character, are steps of their own.                                 *)
(*                                                                         *)
(* The scan code is taken after its decoding, as a character or one of the *)
(* keys the handler treats specially; "typed" is what the echo of          *)
(* putc_key and removec_key leaves of the line on the screen.              *)
(*                                                                         *)
(* A user may type at any moment.  A key that changes the buffer while a   *)
(* program copies the line in it mixes two lines, and so does Up while a   *)
(* line waits to be read; "mixed" records that it happened on a terminal.  *)
(***************************************************************************)
EXTENDS Integers, Sequences

CONSTANTS
  NTerminals,   \* 3 in the kernel
  BUF,          \* MAX_BUF_SIZE, the size of keyboard_buffer (128)
  OLD,          \* the size of old_buffer (5 * 128)
  Letters,      \* characters other than the blank and the line feed
  Names,        \* the names that Tab completes, as sequences of letters
  Requests,     \* the nbytes programs pass to terminal_read
  MaxKeys,      \* bound on the keys pressed
  RecallEmpty   \* does a user press Up only on an empty line?

SPACE == " "
NL == "newline"
NUL == ""

ASSUME TerminalInputAssumption ==
  /\ NTerminals \in Nat \ {0}
  /\ BUF \in Nat \ {0}
  /\ OLD \in Nat /\ BUF <= OLD
  /\ {SPACE, NL, NUL} \cap Letters = {}
  /\ Names \subseteq Seq(Letters)
  /\ Requests \subseteq Nat
  /\ MaxKeys \in Nat
  /\ RecallEmpty \in BOOLEAN

Terminals == 0..(NTerminals - 1)
Chars == Letters \cup {SPACE, NL, NUL}
Cells == 0..(BUF - 1)
OldCells == 0..(OLD - 1)

VARIABLES
  active, scheduled,
  keyboard_buffer,     \* [Terminals -> [Cells -> Chars]]
  old_buffer,          \* [Terminals -> [OldCells -> Chars]]
  buffer_position,
  terminal_can_read,
  reader,    \* what terminal_read is doing on each terminal: pc, i and nbytes
  out,       \* the buffer of the program that reads
  typed,     \* the line on the screen, as its echo shows it
  line,      \* the line that Enter completed last
  mixed,     \* has the user typed into a line while it was read?
  keys       \* keys pressed so far

buffers == <<keyboard_buffer, old_buffer, buffer_position, terminal_can_read>>
program == <<reader, out>>
history == <<typed, line, mixed>>
vars == <<active, scheduled, buffers, program, history, keys>>

Shorter(m, n) == IF m <= n THEN m ELSE n

Init ==
  /\ active = 0
  /\ scheduled = NTerminals - 1
  /\ keyboard_buffer = [t \in Terminals |-> [i \in Cells |-> NUL]]
  /\ old_buffer = [t \in Terminals |-> [i \in OldCells |-> NUL]]
  /\ buffer_position = [t \in Terminals |-> 0]
  /\ terminal_can_read = [t \in Terminals |-> 0]
  /\ reader = [t \in Terminals |-> [pc |-> "none", i |-> 0, nbytes |-> 0]]
  /\ out = [t \in Terminals |-> <<>>]
  /\ typed = [t \in Terminals |-> <<>>]
  /\ line = [t \in Terminals |-> <<NL>>]
  /\ mixed = [t \in Terminals |-> FALSE]
  /\ keys = 0

-----------------------------------------------------------------------------
(* keyboard_handler, for the displayed terminal.                           *)

KeyPressed == keys < MaxKeys /\ keys' = keys + 1

\* What is typed into the buffer now is typed into a line that is being read.
Copied(t) == reader[t].pc = "copying"
Mixes(t, over) == mixed' = [mixed EXCEPT ![t] = @ \/ over]

\* The terminal whose buffer the keyboard writes.
TypedAt == active

\* Characters that are dropped: the last cell is kept for Enter.
RoomToTheEnd(t) == BUF - buffer_position[t]
Room(t) == BUF - 1 - buffer_position[t]

\* The characters of s that are put into the buffer at its position: all that
\* there is room for, and all of them once the position is past that limit.
Fitting(t, s) ==
  IF buffer_position[t] < BUF THEN SubSeq(s, 1, Shorter(Len(s), Room(t))) ELSE s

\* s is stored from the position on; the memory after keyboard_buffer is
\* old_buffer's.
Insert(t, s) ==
  LET pos == buffer_position[t]
      Stored(i) == pos <= i /\ i < pos + Len(s) IN
  /\ keyboard_buffer' = [keyboard_buffer EXCEPT ![t] =
       [i \in Cells |-> IF Stored(i) THEN s[i - pos + 1] ELSE @[i]]]
  /\ old_buffer' = [old_buffer EXCEPT ![t] =
       [i \in OldCells |-> IF Stored(BUF + i) THEN s[BUF + i - pos + 1] ELSE @[i]]]
  /\ buffer_position' = [buffer_position EXCEPT ![t] = pos + Len(s)]
  /\ typed' = [typed EXCEPT ![t] = @ \o s]
  /\ Mixes(t, Copied(t))

\* A character: it cancels the terminal_can_read of a line nobody has read yet.
Character(c) ==
  LET t == TypedAt
      s == Fitting(t, <<c>>) IN
  /\ KeyPressed
  /\ IF s = <<>>
     THEN UNCHANGED <<buffers, history>>
     ELSE /\ Insert(t, s)
          /\ terminal_can_read' = [terminal_can_read EXCEPT ![t] = 0]
          /\ UNCHANGED line
  /\ UNCHANGED <<active, scheduled, program>>

\* Tab that completes nothing: up to four blanks.
TabBlanks ==
  LET t == TypedAt
      s == Fitting(t, <<SPACE, SPACE, SPACE, SPACE>>) IN
  /\ KeyPressed
  /\ IF s = <<>>
     THEN UNCHANGED <<buffers, history>>
     ELSE /\ Insert(t, s)
          /\ terminal_can_read' = [terminal_can_read EXCEPT ![t] = 0]
          /\ UNCHANGED line
  /\ UNCHANGED <<active, scheduled, program>>

\* Tab that completes a word of f characters to a name.  What the two characters
\* before the position are decides; with one character on the line, the first
\* of them is outside the buffer.
TabCompletes(name, f) ==
  LET t == TypedAt
      pos == buffer_position[t]
      NotBlank(i) == i \in Cells => keyboard_buffer[t][i] # SPACE IN
  /\ KeyPressed
  /\ pos # 0 /\ NotBlank(pos - 1) /\ NotBlank(pos - 2)
  /\ pos + Len(name) <= BUF - 1
  /\ Insert(t, SubSeq(name, f + 1, Len(name)))
  /\ UNCHANGED <<active, scheduled, terminal_can_read, program, line>>

\* The next line starts in the first cell.
PositionAfterEnterKept(t) == buffer_position[t] + 1
PositionAfterEnter(t) == 0

Enter ==
  LET t == TypedAt
      pos == buffer_position[t] IN
  /\ KeyPressed
  /\ IF pos < BUF
     THEN /\ keyboard_buffer' = [keyboard_buffer EXCEPT ![t][pos] = NL]
          /\ UNCHANGED old_buffer
     ELSE /\ old_buffer' = [old_buffer EXCEPT ![t][pos - BUF] = NL]
          /\ UNCHANGED keyboard_buffer
  /\ terminal_can_read' = [terminal_can_read EXCEPT ![t] = 1]
  /\ buffer_position' = [buffer_position EXCEPT ![t] = PositionAfterEnter(t)]
  /\ line' = [line EXCEPT ![t] = Append(typed[t], NL)]
  /\ typed' = [typed EXCEPT ![t] = <<>>]
  /\ Mixes(t, Copied(t))
  /\ UNCHANGED <<active, scheduled, program>>

CanErase(t) == buffer_position[t] > 0

Backspace ==
  LET t == TypedAt IN
  /\ KeyPressed /\ CanErase(t)
  /\ buffer_position' = [buffer_position EXCEPT ![t] = @ - 1]
  /\ typed' = [typed EXCEPT ![t] = SubSeq(@, 1, Len(@) - 1)]
  /\ Mixes(t, Copied(t))
  /\ UNCHANGED <<active, scheduled, keyboard_buffer, old_buffer, terminal_can_read,
                 program, line>>

\* strlen(old_buffer)
IsOldLength(t, n) ==
  /\ \A i \in 0..(n - 1) : old_buffer[t][i] # NUL
  /\ n \in OldCells => old_buffer[t][n] = NUL

\* Up: the line read last, while the position leaves room, from the first cell
\* on wherever the position is.
RecallLimit(t, n) ==
  IF buffer_position[t] > BUF - 1 THEN 0 ELSE Shorter(n, BUF - buffer_position[t])

Recall ==
  LET t == TypedAt IN
  /\ KeyPressed
  /\ RecallEmpty => buffer_position[t] = 0
  /\ Mixes(t, Copied(t) \/ terminal_can_read[t] = 1)
  /\ \E n \in 0..OLD :
       /\ IsOldLength(t, n)
       /\ LET m == RecallLimit(t, n) IN
          /\ keyboard_buffer' = [keyboard_buffer EXCEPT ![t] =
               [i \in Cells |-> IF i < m THEN old_buffer[t][i] ELSE @[i]]]
          /\ old_buffer' = [old_buffer EXCEPT ![t] =
               [i \in OldCells |-> IF i < m THEN NUL ELSE @[i]]]
          /\ buffer_position' = [buffer_position EXCEPT ![t] = @ + m]
          /\ typed' = [typed EXCEPT ![t] = @ \o [i \in 1..m |-> old_buffer[t][i - 1]]]
  /\ UNCHANGED <<active, scheduled, terminal_can_read, program, line>>

\* Alt and a function key: terminal_switch.
Switch(t) ==
  /\ KeyPressed
  /\ active' = t
  /\ UNCHANGED <<scheduled, buffers, program, history>>

-----------------------------------------------------------------------------
(* The timer, and terminal_read of the program it lets run.                *)

\* set_next_scheduled
NextTerminalButLast == (scheduled + 1) % (NTerminals - 1)
NextTerminal == (scheduled + 1) % NTerminals

Tick ==
  /\ scheduled' = NextTerminal
  /\ UNCHANGED <<active, buffers, program, history, keys>>

\* terminal_read is called and looks for its terminal: the scheduled one.
Read(nbytes) ==
  LET t == scheduled IN
  /\ reader[t].pc = "none"
  /\ reader' = [reader EXCEPT ![t] =
       [pc |-> "waiting", i |-> 0, nbytes |-> Shorter(nbytes, BUF)]]
  /\ out' = [out EXCEPT ![t] = <<>>]
  /\ UNCHANGED <<active, scheduled, buffers, history, keys>>

\* The wait ends, and the old line is forgotten.
ReadWakes ==
  LET t == scheduled IN
  /\ reader[t].pc = "waiting"
  /\ terminal_can_read[t] # 0
  /\ old_buffer' = [old_buffer EXCEPT ![t] =
       [i \in OldCells |-> IF i < BUF THEN NUL ELSE @[i]]]
  /\ reader' = [reader EXCEPT ![t].pc = "copying"]
  /\ UNCHANGED <<active, scheduled, keyboard_buffer, buffer_position,
                 terminal_can_read, out, history, keys>>

\* One turn of the copying loop, and the return at a line feed.
ReadCopies ==
  LET t == scheduled
      i == reader[t].i
      c == keyboard_buffer[t][i] IN
  /\ reader[t].pc = "copying"
  /\ i < reader[t].nbytes
  /\ out' = [out EXCEPT ![t] = Append(@, c)]
  /\ keyboard_buffer' = [keyboard_buffer EXCEPT ![t][i] = NUL]
  /\ terminal_can_read' = [terminal_can_read EXCEPT ![t] = 0]
  /\ old_buffer' = IF c # NL THEN [old_buffer EXCEPT ![t][i] = c] ELSE old_buffer
  /\ reader' = [reader EXCEPT ![t].i = @ + 1,
                              ![t].pc = IF c = NL THEN "none" ELSE @]
  /\ UNCHANGED <<active, scheduled, buffer_position, history, keys>>

\* nbytes characters are there and no line feed among them.
ReadFull ==
  LET t == scheduled IN
  /\ reader[t].pc = "copying"
  /\ reader[t].i = reader[t].nbytes
  /\ terminal_can_read' = [terminal_can_read EXCEPT ![t] = 0]
  /\ reader' = [reader EXCEPT ![t].pc = "none"]
  /\ UNCHANGED <<active, scheduled, keyboard_buffer, old_buffer, buffer_position,
                 out, history, keys>>

Reading == ReadWakes \/ ReadCopies \/ ReadFull

Next ==
  \/ \E c \in Letters \cup {SPACE} : Character(c)
  \/ TabBlanks
  \/ \E name \in Names : \E f \in 0..Len(name) : TabCompletes(name, f)
  \/ Enter
  \/ Backspace
  \/ Recall
  \/ \E t \in Terminals \ {active} : Switch(t)
  \/ Tick
  \/ \E nbytes \in Requests : Read(nbytes)
  \/ Reading

\* The timer goes on (PIT_init), and a program that is given the processor in
\* terminal_read goes on in it before its terminal's turn is over.
Fairness ==
  /\ WF_vars(Tick)
  /\ \A t \in Terminals : SF_vars(scheduled = t /\ Reading)

Spec == Init /\ [][Next]_vars
FairSpec == Spec /\ Fairness

-----------------------------------------------------------------------------
(* Properties.                                                             *)

\* A line never grows beyond its buffer, and Enter always finds a cell: neither
\* typing, nor completing, nor recalling the old line passes the last cell,
\* whatever a program reads meanwhile.
LineFits == \A t \in Terminals : buffer_position[t] <= BUF - 1

\* What the user sees of the line being typed is what is in the buffer, through
\* any sequence of characters, backspaces, tabs and recalled lines, before and
\* after the line is read.
ShownIsBuffered ==
  \A t \in Terminals : ~mixed[t] =>
    /\ Len(typed[t]) = buffer_position[t]
    /\ \A i \in 1..Len(typed[t]) :
         i - 1 \in Cells => keyboard_buffer[t][i - 1] = typed[t][i]

\* terminal_read returns the line as it was entered last on its own terminal, up
\* to the length asked for, however timer and terminal switches fall and whatever
\* was typed and taken back before the program came to read.
DeliversLine ==
  [][\A t \in Terminals :
       ~mixed[t] /\ reader[t].pc = "copying" /\ reader'[t].pc = "none" =>
         out'[t] = SubSeq(line[t], 1, Shorter(Len(line[t]), reader[t].nbytes))]_vars

\* A program that waits for a line gets it once Enter was pressed, unless the user
\* types on before its turn comes, which takes the line back.
LineIsRead ==
  \A t \in Terminals :
    (reader[t].pc = "waiting" /\ terminal_can_read[t] = 1)
      ~> (\/ reader[t].pc = "none"
          \/ reader[t].pc = "waiting" /\ terminal_can_read[t] = 0)
=============================================================================
