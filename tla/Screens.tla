-------------------------------- MODULE Screens --------------------------------
(***************************************************************************)
(* What the three terminals look like to their users: a screen of rows and *)
(* a place to write for each, of which one is shown.  Text is printed on   *)
(* the screen of the program that runs, typed on the one shown; no screen  *)
(* changes while another is written on, or because it is shown or hidden.  *)
(*                                                                         *)
(* Display implements this.                                                *)
(***************************************************************************)
EXTENDS Integers, Sequences, SequencesExt

CONSTANTS
  Terminals,   \* 0..n-1, in the order of the rotation
  ROWS, COLS,
  Glyphs,
  Blank,
  NewLine,
  Banner       \* what a terminal shows when it is first shown

VARIABLES
  screen,      \* [Terminals -> rows of glyphs, row and column to write at]
  fresh,       \* terminals that were never shown
  shown,       \* the terminal on display
  running      \* the terminal whose program runs

vars == <<screen, fresh, shown, running>>

BlankRow == [c \in 1..COLS |-> Blank]
Empty == [rows |-> [r \in 1..ROWS |-> BlankRow], row |-> 1, col |-> 1]

\* The next row; at the bottom, all rows move up.
Feed(s) ==
  IF s.row < ROWS THEN [s EXCEPT !.row = @ + 1, !.col = 1]
  ELSE [s EXCEPT !.rows = Append(Tail(@), BlankRow), !.col = 1]

Put(s, c) ==
  LET written == [s EXCEPT !.rows[s.row][s.col] = c] IN
  IF c = NewLine THEN Feed(s)
  ELSE IF s.col = COLS THEN Feed(written)
  ELSE [written EXCEPT !.col = @ + 1]

\* Back one column, but not to the row before.
Rub(s) ==
  LET col == IF s.col = 1 THEN 1 ELSE s.col - 1
  IN [s EXCEPT !.rows[s.row][col] = Blank, !.col = col]

Init ==
  /\ screen = [t \in Terminals |-> Empty]
  /\ shown = 0
  /\ fresh = Terminals \ {0}
  /\ running = CHOOSE t \in Terminals : \A u \in Terminals : u <= t

Write ==
  /\ \E c \in Glyphs \cup {NewLine} :
       screen' = [screen EXCEPT ![running] = Put(@, c)]
  /\ UNCHANGED <<fresh, shown, running>>

\* A program that has the screen mapped stores into a cell of it.
Draw ==
  /\ \E r \in 1..ROWS, k \in 1..COLS, c \in Glyphs :
       screen' = [screen EXCEPT ![running].rows[r][k] = c]
  /\ UNCHANGED <<fresh, shown, running>>

Type ==
  /\ \/ \E c \in Glyphs \cup {NewLine} :
          screen' = [screen EXCEPT ![shown] = Put(@, c)]
     \/ screen' = [screen EXCEPT ![shown] = Rub(@)]
     \/ screen' = [screen EXCEPT ![shown] = Empty]
  /\ UNCHANGED <<fresh, shown, running>>

Show ==
  \E t \in Terminals :
    /\ shown' = t
    /\ fresh' = fresh \ {t}
    /\ screen' = IF t \in fresh
                 THEN [screen EXCEPT ![t] = FoldLeft(Put, Empty, Banner)]
                 ELSE screen
    /\ UNCHANGED running

Turn ==
  /\ running' \in Terminals
  /\ UNCHANGED <<screen, fresh, shown>>

Next == Write \/ Draw \/ Type \/ Show \/ Turn

Spec == Init /\ [][Next]_vars
=============================================================================
