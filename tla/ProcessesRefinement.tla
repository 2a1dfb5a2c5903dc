------------------------- MODULE ProcessesRefinement -------------------------
(***************************************************************************)
(* The process table, the PCBs and the terminal array implement the stacks *)
(* of programs of TerminalStacks: the stack of a terminal is read off the  *)
(* parent_pid fields, from the program on record down to its base shell.   *)
(***************************************************************************)
EXTENDS Processes, Sequences

\* The stack with p on top, read off the parents: p's callers, at most n of them,
\* the nearest one last, and p.
PathTo(parent) ==
  LET path[n \in PidOrNone] ==
        [p \in Pids |-> IF n = 0 \/ parent[p] = 0 THEN <<p>>
                        ELSE Append(path[n - 1][parent[p]], p)]
  IN path

StackOf == [t \in Terminals |->
              IF cur_term_pid[t] = 0 THEN <<>>
              ELSE PathTo(parent_pid)[NPids][cur_term_pid[t]]]

Stacks == INSTANCE TerminalStacks WITH
            Programs <- Pids, stacks <- StackOf

\* Seen through their stacks, the kernel's terminals behave as TerminalStacks
\* says, and under the timer's fairness rotate as it says.
ImplementsStacks == Stacks!Spec
=============================================================================
