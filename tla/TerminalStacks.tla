--------------------------- MODULE TerminalStacks ----------------------------
(***************************************************************************)
(* What the kernel promises its users, without process table, page tables  *)
(* or saved registers: each terminal is a stack of programs with a shell   *)
(* at the bottom.  The program on top of the scheduled terminal's stack    *)
(* runs; execute pushes a program, the end of a program pops it and hands  *)
(* its status to the program below, a shell at the bottom that ends is     *)
(* replaced, and the timer rotates over the terminals.                     *)
(*                                                                         *)
(* Processes implements this (ProcessesRefinement).                        *)
(***************************************************************************)
EXTENDS Integers, Sequences, SequencesExt

CONSTANTS Terminals,  \* 0..n-1, in the order of the rotation
          Programs,   \* identities of programs that are under way
          Status      \* what a program may pass to halt

VARIABLES
  stacks,     \* [Terminals -> Seq(Programs)], the shell first
  scheduled,  \* the terminal whose top program runs
  answer      \* the last value execute returned: to whom, what and why

vars == <<stacks, scheduled, answer>>

NextTerminal == (scheduled + 1) % (1 + CHOOSE t \in Terminals : \A u \in Terminals : u <= t)
InUse == UNION {ToSet(stacks[t]) : t \in Terminals}

Init ==
  /\ stacks = [t \in Terminals |-> <<>>]
  /\ scheduled = CHOOSE t \in Terminals : \A u \in Terminals : u <= t
  /\ answer = [to |-> 0, value |-> 0, cause |-> "none"]

\* The timer reaches a terminal that has no shell yet: one starts there.
Boot ==
  /\ scheduled' = NextTerminal
  /\ UNCHANGED answer
  /\ stacks[NextTerminal] = <<>>
  /\ \E p \in Programs \ InUse : stacks' = [stacks EXCEPT ![NextTerminal] = <<p>>]

Rotate ==
  /\ scheduled' = NextTerminal
  /\ UNCHANGED answer
  /\ stacks[NextTerminal] # <<>>
  /\ UNCHANGED stacks

Call ==
  /\ UNCHANGED <<scheduled, answer>>
  /\ stacks[scheduled] # <<>>
  /\ \E p \in Programs \ InUse :
       stacks' = [stacks EXCEPT ![scheduled] = Append(@, p)]

\* execute refuses the command, or there is no program left to give.
Refuse ==
  /\ UNCHANGED scheduled
  /\ \/ answer'.cause = "invalid" /\ answer'.value = -1
     \/ answer'.cause = "full" /\ answer'.value = 0 /\ InUse = Programs
  /\ stacks[scheduled] # <<>>
  /\ answer'.to = Last(stacks[scheduled])
  /\ UNCHANGED stacks

\* The program on top ends; the one below gets 256 if and only if an exception
\* ended it, and otherwise the value it passed to halt.
Return ==
  /\ UNCHANGED scheduled
  /\ \/ answer'.cause = "halt" /\ answer'.value \in Status
     \/ answer'.cause = "exception" /\ answer'.value = 256
  /\ Len(stacks[scheduled]) > 1
  /\ stacks' = [stacks EXCEPT ![scheduled] = Front(@)]
  /\ answer'.to = Last(stacks'[scheduled])

\* The shell at the bottom ends and is replaced, under its own identity.
Restart == UNCHANGED vars /\ Len(stacks[scheduled]) = 1

Next == Boot \/ Rotate \/ Call \/ Refuse \/ Return \/ Restart

Fairness == WF_vars(Boot \/ Rotate)

Spec == Init /\ [][Next]_vars /\ Fairness
=============================================================================
