-------------------------------- MODULE Display --------------------------------
(***************************************************************************)
(* Video memory and the pages that lead to it: terminal_write and the      *)
(* exceptions' messages (putc_term), the echo of the keyboard (putc_key,   *)
(* removec_key, clear_screen_term), the terminal switch with save_vid_mem  *)
(* and swap_vid_mem, the page of video memory that the scheduler maps for  *)
(* programs, and vidmap.                                                   *)
(*                                                                         *)
(* terminal_write and the kernel's messages run with interrupts off, the   *)
(* echo and the terminal switch inside the keyboard interrupt; a longer    *)
(* text is a sequence of writes of one character.  A program stores into   *)
(* its video page at any moment.                                           *)
(***************************************************************************)
EXTENDS Integers, Sequences, SequencesExt

CONSTANTS
  NTerminals,  \* 3 in the kernel
  NUM_ROWS, NUM_COLS,
  Glyphs,      \* what can be in a cell
  Blank,
  NewLine,     \* '\n' and '\r'
  Banner,      \* what swap_vid_mem prints
  LateStores,  \* may a program store after a switch, before the next tick?
  MaxWritten   \* bound on what is written, typed and stored

ASSUME DisplayAssumption ==
  /\ NTerminals \in Nat \ {0}
  /\ NUM_ROWS \in Nat \ {0} /\ NUM_COLS \in Nat \ {0}
  /\ Blank \in Glyphs /\ NewLine \notin Glyphs
  /\ Banner \in Seq(Glyphs \cup {NewLine})
  /\ LateStores \in BOOLEAN
  /\ MaxWritten \in Nat

Terminals == 0..(NTerminals - 1)

\* Page frames: the one at 1 MB + t * 4 KB keeps terminal t's screen while it
\* is not displayed, VIDEO is the one at 0xB8000 that the screen shows.
VIDEO == NTerminals
Frames == Terminals \cup {VIDEO}
NoFrame == NTerminals + 1  \* a page that nothing has set

NCells == NUM_ROWS * NUM_COLS
Cells == 0..(NCells - 1)

VARIABLES
  memory,              \* [Frames -> [Cells -> Glyphs]]
  screen_x, screen_y,  \* of each terminal
  active,              \* get_active_term()
  scheduled,           \* get_scheduled_term_idx()
  shell_exists,
  opened_before,
  page_table,          \* the frame of the kernel's page of video memory
  page_table_vid_mem,  \* the frame of the page at 200 MB ...
  mappers,             \* ... and the terminals whose programs have its address
  settled,             \* has a tick set that page since it became another one?
  cursor,              \* where the hardware shows the cursor
  written              \* how much was written, typed and stored

positions == <<screen_x, screen_y>>
pages == <<page_table, page_table_vid_mem, mappers, settled>>
terminals == <<active, scheduled, shell_exists, opened_before>>
vars == <<memory, positions, pages, terminals, cursor, written>>

Clear == [i \in Cells |-> Blank]

Init ==
  /\ memory = [f \in Frames |-> Clear]
  /\ screen_x = [t \in Terminals |-> 0]
  /\ screen_y = [t \in Terminals |-> 0]
  /\ active = 0
  /\ scheduled = NTerminals - 1
  /\ shell_exists = [t \in Terminals |-> FALSE]
  /\ opened_before = [t \in Terminals |-> t = 0]
  /\ page_table = VIDEO
  /\ page_table_vid_mem = NoFrame
  /\ mappers = {}
  /\ settled = FALSE
  /\ cursor = <<0, 0>>
  /\ written = 0

-----------------------------------------------------------------------------
(* The body of putc_term and putc_key: what becomes of a frame and of the  *)
(* position when c is printed.                                             *)

Scrolled(frame) ==
  [i \in Cells |-> IF i + NUM_COLS < NCells THEN frame[i + NUM_COLS] ELSE Blank]

PastLastRow(y) == y >= NUM_ROWS

\* The row after y, and whether the screen scrolls.
Down(s) ==
  IF PastLastRow(s.y + 1)
  THEN [frame |-> Scrolled(s.frame), x |-> 0, y |-> NUM_ROWS - 1]
  ELSE [frame |-> s.frame, x |-> 0, y |-> s.y + 1]

Putc(s, c) ==
  LET stored == [s EXCEPT !.frame[NUM_COLS * s.y + s.x] = c] IN
  IF c = NewLine THEN Down(s)
  ELSE IF s.x + 1 >= NUM_COLS THEN Down(stored)
  ELSE [stored EXCEPT !.x = @ + 1]

\* removec_key: one column back, never beyond the first.
Removec(s) ==
  LET x == IF s.x = 0 THEN 0 ELSE s.x - 1
  IN [s EXCEPT !.frame[NUM_COLS * s.y + x] = Blank, !.x = x]

Writes == written < MaxWritten /\ written' = written + 1

At(frame, t) == [frame |-> memory[frame], x |-> screen_x[t], y |-> screen_y[t]]

\* Frame and position of terminal t after printing or erasing gave s.
Becomes(frame, t, s) ==
  /\ memory' = [memory EXCEPT ![frame] = s.frame]
  /\ screen_x' = [screen_x EXCEPT ![t] = s.x]
  /\ screen_y' = [screen_y EXCEPT ![t] = s.y]

-----------------------------------------------------------------------------
(* Programs and the scheduler.                                             *)

\* The frame of a terminal's screen.
FrameOf(t) == IF t = active THEN VIDEO ELSE t

ShowsCursorAlways(t) == TRUE
ShowsCursor(t) == t = active

\* terminal_write of a character, or a message of the kernel, by the program
\* that runs: putc_term, which leaves the kernel's page where it wrote.
Write(c) ==
  LET s == Putc(At(FrameOf(scheduled), scheduled), c) IN
  /\ Writes
  /\ shell_exists[scheduled]
  /\ Becomes(FrameOf(scheduled), scheduled, s)
  /\ page_table' = FrameOf(scheduled)
  /\ cursor' = IF ShowsCursor(scheduled) THEN <<s.x, s.y>> ELSE cursor
  /\ UNCHANGED <<page_table_vid_mem, mappers, settled, terminals>>

\* vidmap: add_vid_mem_page maps the displayed screen, whoever asks.
Vidmap ==
  /\ shell_exists[scheduled]
  /\ mappers' = mappers \cup {scheduled}
  /\ settled' = (scheduled = active)
  /\ page_table_vid_mem' = VIDEO
  /\ UNCHANGED <<memory, positions, page_table, terminals, cursor, written>>

\* The program that runs stores into the page it mapped.
Store(i, c) ==
  /\ Writes
  /\ scheduled \in mappers
  /\ LateStores \/ settled
  /\ memory' = [memory EXCEPT ![page_table_vid_mem][i] = c]
  /\ UNCHANGED <<positions, pages, terminals, cursor>>

NextTerminal == (scheduled + 1) % NTerminals

\* The frame a tick maps for the programs of the terminal it schedules.
MappedAtTickVideo(t) == VIDEO
MappedAtTick(t) == FrameOf(t)

\* The display part of scheduler(): a terminal that gets its shell returns
\* before the page is set.
Tick ==
  /\ scheduled' = NextTerminal
  /\ \/ /\ ~shell_exists[NextTerminal]
        /\ shell_exists' = [shell_exists EXCEPT ![NextTerminal] = TRUE]
        /\ settled' = FALSE
        /\ UNCHANGED page_table_vid_mem
     \/ /\ shell_exists[NextTerminal]
        /\ page_table_vid_mem' = MappedAtTick(NextTerminal)
        /\ settled' = TRUE
        /\ UNCHANGED shell_exists
  /\ UNCHANGED <<memory, positions, page_table, mappers, active, opened_before,
                 cursor, written>>

-----------------------------------------------------------------------------
(* The keyboard interrupt.                                                 *)

\* The kernel's page while a key is echoed.
EchoFrameAsMapped == page_table
EchoFrame == VIDEO

\* What printing or erasing gave, s, on the displayed terminal.
Echo(s) ==
  /\ Writes
  /\ Becomes(EchoFrame, active, s)
  /\ cursor' = <<s.x, s.y>>
  /\ UNCHANGED <<pages, terminals>>

Key(c) == Echo(Putc(At(EchoFrame, active), c))

Backspace == Echo(Removec(At(EchoFrame, active)))

\* Control-L: clear_screen_term.
ControlL == Echo([frame |-> Clear, x |-> 0, y |-> 0])

\* save_vid_mem: which frame the old terminal's screen is copied to.
SavedToNew(old, new) == new
SavedTo(old, new) == old

\* swap_vid_mem: a terminal's saved screen; the first time, its screen is
\* cleared and given the first lines of its shell.
Swapped(saved, new) ==
  IF opened_before[new]
  THEN [frame |-> saved[new], x |-> screen_x[new], y |-> screen_y[new]]
  ELSE FoldLeft(Putc, [frame |-> Clear, x |-> 0, y |-> 0], Banner)

\* terminal_switch: the old screen is saved, the new one put in video memory.
Switch(new) ==
  LET saved == [memory EXCEPT ![SavedTo(active, new)] = memory[VIDEO]]
      s == Swapped(saved, new)
  IN
  /\ new # active
  /\ active' = new
  /\ opened_before' = [opened_before EXCEPT ![new] = TRUE]
  /\ memory' = [saved EXCEPT ![VIDEO] = s.frame]
  /\ screen_x' = [screen_x EXCEPT ![new] = s.x]
  /\ screen_y' = [screen_y EXCEPT ![new] = s.y]
  /\ cursor' = <<s.x, s.y>>
  /\ settled' = (settled /\ scheduled \notin {active, new})
  /\ UNCHANGED <<page_table, page_table_vid_mem, mappers, scheduled, shell_exists,
                 written>>

Next ==
  \/ \E c \in Glyphs \cup {NewLine} : Write(c) \/ Key(c)
  \/ Vidmap
  \/ \E i \in Cells, c \in Glyphs : Store(i, c)
  \/ Tick
  \/ Backspace
  \/ ControlL
  \/ \E new \in Terminals : Switch(new)

Spec == Init /\ [][Next]_vars

-----------------------------------------------------------------------------
(* Properties.                                                             *)

\* No position leaves the screen, and the hardware's cursor is where the displayed
\* terminal will write next, whatever the programs of hidden terminals write
\* (update_cursor).
CursorFollows ==
  /\ screen_x \in [Terminals -> 0..(NUM_COLS - 1)]
  /\ screen_y \in [Terminals -> 0..(NUM_ROWS - 1)]
  /\ cursor = <<screen_x[active], screen_y[active]>>

\* A terminal's screen as rows: in video memory if it is displayed, and in the
\* frame it was saved to if it is not.
Rows(t) ==
  [r \in 1..NUM_ROWS |->
    [k \in 1..NUM_COLS |-> memory[FrameOf(t)][NUM_COLS * (r - 1) + (k - 1)]]]

Private == INSTANCE Screens WITH
             ROWS <- NUM_ROWS, COLS <- NUM_COLS,
             screen <- [t \in Terminals |-> [rows |-> Rows(t),
                                             row |-> screen_y[t] + 1,
                                             col |-> screen_x[t] + 1]],
             fresh <- {t \in Terminals : ~opened_before[t]},
             shown <- active,
             running <- scheduled

\* One video memory, one page for the kernel and one for all programs give
\* every terminal a screen of its own.
ImplementsScreens == Private!Spec
=============================================================================
