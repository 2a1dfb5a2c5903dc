---------------------------- MODULE ContextSwitch ----------------------------
(***************************************************************************)
(* The frames on the kernel stacks, and the timer interrupts that arrive   *)
(* inside execute and halt: student-distrib/syscall_helper.c, scheduler.c, *)
(* halt.S, iret.S and schedule_switch.S.                                   *)
(*                                                                         *)
(* Processes takes execute and halt for atomic.  They are not: both turn   *)
(* interrupts on before they leave the kernel stack they run on, and the   *)
(* timer may save a context there.  A saved context is the place of a      *)
(* frame, <<pid of the stack, depth>>; a program that enters the kernel    *)
(* from user mode starts its stack anew and wipes out what was on it.      *)
(*                                                                         *)
(* The windows:                                                            *)
(*   "user"     user code, and the system calls that wait with interrupts  *)
(*              on                                                         *)
(*   "launch"   execute_help, from sti to the iret of jump_to_user         *)
(*   "boot"     the same when the scheduler started a shell                *)
(*   "halt"     halt_help, from sti to the leave of halt_asm               *)
(*   "restart"  halt_help for a base shell, from sti to the cli of execute *)
(* The boot window opens right after a timer interrupt, and the next one   *)
(* is 10 ms away: no run lets a tick come there.                           *)
(***************************************************************************)
EXTENDS Integers, Sequences

CONSTANTS
  NTerminals,  \* 3 in the kernel
  NPids,       \* 6 in the kernel
  TickIn       \* the windows in which a timer interrupt may come

Windows == {"user", "launch", "halt", "restart"}

ASSUME ContextSwitchAssumption ==
  /\ NTerminals \in Nat \ {0}
  /\ NPids \in Nat
  /\ NTerminals <= NPids
  /\ TickIn \subseteq Windows

Terminals == 0..(NTerminals - 1)
Pids == 1..NPids
PidOrNone == 0..NPids

NoFrame == <<0, 0>>  \* a saved frame pointer that was never written

VARIABLES
  pid_array, parent_pid, ebp, ebp_switch, current_pid, cur_term_pid,
  scheduled, shell_exists,
  frames,   \* [Pids -> Seq(frame)]: what is on each kernel stack, oldest first
  sp,       \* the pid whose kernel stack the processor is on, in the kernel
  pc,       \* the window the processor is in; "idle" is the boot loop
  answer,   \* the last value execute returned, to whom and why
  crashed

vars == <<pid_array, parent_pid, ebp, ebp_switch, current_pid, cur_term_pid,
          scheduled, shell_exists, frames, sp, pc, answer, crashed>>

\* A frame is left by the timer in a window, by execute, or by halt's own call.
TickFrame(window) == [kind |-> "tick", window |-> window]
ExecuteFrame == [kind |-> "execute", window |-> "user"]
HaltFrame == [kind |-> "halt", window |-> "user"]

FreePids(table) == {p \in PidOrNone : table[p] = 0}
IsNextPid(table, n) == n \in FreePids(table) /\ \A m \in FreePids(table) : n <= m
NextTerminal == (scheduled + 1) % NTerminals
Booted == \A t \in Terminals : shell_exists[t]
ParentOfAnyShell(file, n) == IF file = "shell" THEN 0 ELSE current_pid
ParentOf(file, n) ==
  IF file = "shell" /\ n \in 1..NTerminals THEN 0 ELSE current_pid

\* The stack the processor is on when the kernel is entered, and what is on it:
\* the current program's own and nothing, if it was in user mode.
EntryStack == IF pc = "user" THEN current_pid ELSE sp
OnEntryStackFresh == <<>>
OnEntryStack == IF pc \in {"user", "idle"} THEN <<>> ELSE frames[sp]

Init ==
  /\ pid_array = [p \in PidOrNone |-> IF p = 0 THEN 1 ELSE 0]
  /\ parent_pid = [p \in Pids |-> 0]
  /\ ebp = [p \in Pids |-> NoFrame]
  /\ ebp_switch = [p \in Pids |-> NoFrame]
  /\ current_pid = 0
  /\ cur_term_pid = [t \in Terminals |-> 0]
  /\ scheduled = NTerminals - 1
  /\ shell_exists = [t \in Terminals |-> FALSE]
  /\ frames = [p \in Pids |-> <<>>]
  /\ sp = 1
  /\ pc = "idle"
  /\ answer = [to |-> 0, value |-> 0, cause |-> "none"]
  /\ crashed = FALSE

-----------------------------------------------------------------------------
(* execute_help between its cli and its sti, on the stack s that holds "on" *)

\* The frame of execute stays on the caller's stack and its place goes into the
\* parent's PCB, unless a base shell is started.
StartProgram(table, file, n, t, s, on, window) ==
  LET parent == ParentOf(file, n)
      below == IF parent >= 1 THEN Append(on, ExecuteFrame) ELSE on IN
  /\ pid_array' = [table EXCEPT ![n] = 1]
  /\ parent_pid' = [parent_pid EXCEPT ![n] = parent]
  /\ ebp' = IF parent >= 1 THEN [ebp EXCEPT ![parent] = <<s, Len(below)>>] ELSE ebp
  /\ current_pid' = n
  /\ cur_term_pid' = [cur_term_pid EXCEPT ![t] = n]
  /\ frames' = [frames EXCEPT ![s] = below]
  /\ sp' = s
  /\ pc' = window

\* leave and ret through a saved frame pointer: right only if a frame of the
\* expected kind is there.  What lay above it on its stack is gone.
Reaches(place, kind, stacks) ==
  /\ place # NoFrame
  /\ place[2] <= Len(stacks[place[1]])
  /\ stacks[place[1]][place[2]].kind = kind

ReturnThrough(place, kind, stacks) ==
  IF Reaches(place, kind, stacks)
  THEN /\ frames' = [stacks EXCEPT ![place[1]] = SubSeq(@, 1, place[2] - 1)]
       /\ sp' = place[1]
       /\ pc' = stacks[place[1]][place[2]].window
       /\ UNCHANGED crashed
  ELSE /\ crashed' = TRUE
       /\ frames' = stacks
       /\ UNCHANGED <<sp, pc>>

-----------------------------------------------------------------------------
(* The timer.                                                              *)

\* The stack of the interrupted code with the frame of the timer interrupt.
Interrupted == Append(OnEntryStack, TickFrame(pc))

\* boot_flag is set by the first shell: from then on the context is saved.
SavedAfterRotation ==
  [ebp_switch EXCEPT ![cur_term_pid[NextTerminal]] = <<EntryStack, Len(Interrupted)>>]
SavedContexts ==
  IF current_pid = 0 THEN ebp_switch
  ELSE [ebp_switch EXCEPT ![cur_term_pid[scheduled]] = <<EntryStack, Len(Interrupted)>>]

TickBoot ==
  LET next == NextTerminal IN
  /\ ~crashed
  /\ pc \in TickIn \cup {"idle"}
  /\ ~shell_exists[next]
  /\ ebp_switch' = SavedContexts
  /\ scheduled' = next
  /\ shell_exists' = [shell_exists EXCEPT ![next] = TRUE]
  /\ \E n \in Pids :
       /\ IsNextPid(pid_array, n)
       /\ StartProgram(pid_array, "shell", n, next, EntryStack, Interrupted, "boot")
  /\ UNCHANGED <<answer, crashed>>

TickSwitch ==
  LET next == NextTerminal
      p == cur_term_pid[next] IN
  /\ ~crashed
  /\ pc \in TickIn
  /\ shell_exists[next]
  /\ ebp_switch' = SavedContexts
  /\ scheduled' = next
  /\ current_pid' = p
  /\ ReturnThrough(SavedContexts[p], "tick", [frames EXCEPT ![EntryStack] = Interrupted])
  /\ UNCHANGED <<pid_array, parent_pid, ebp, cur_term_pid, shell_exists, answer>>

Tick == TickBoot \/ TickSwitch

-----------------------------------------------------------------------------
(* execute and halt of the program that runs.  What execute refuses changes  *)
(* nothing here.                                                           *)

Calls == ~crashed /\ Booted /\ pc = "user"

\* An orderly shell: no program executes before the shells are up.
Execute(file) ==
  /\ Calls
  /\ \E n \in Pids :
       /\ IsNextPid(pid_array, n)
       /\ StartProgram(pid_array, file, n, scheduled, current_pid, <<>>, "launch")
  /\ UNCHANGED <<ebp_switch, scheduled, shell_exists, answer, crashed>>

\* jump_to_user
Launch ==
  /\ ~crashed
  /\ pc \in {"launch", "boot"}
  /\ pc' = "user"
  /\ UNCHANGED <<pid_array, parent_pid, ebp, ebp_switch, current_pid, cur_term_pid,
                 scheduled, shell_exists, frames, sp, answer, crashed>>

\* halt_help up to its sti, for a program with a parent: the parent is current
\* and the pid is free while the processor is still on the child's stack.
Halt ==
  LET q == parent_pid[current_pid] IN
  /\ Calls
  /\ q # 0
  /\ frames' = [frames EXCEPT ![current_pid] = <<HaltFrame>>]
  /\ sp' = current_pid
  /\ pc' = "halt"
  /\ pid_array' = [pid_array EXCEPT ![current_pid] = 0]
  /\ current_pid' = q
  /\ cur_term_pid' = [cur_term_pid EXCEPT ![scheduled] = q]
  /\ answer' = [to |-> q, value |-> 0, cause |-> "halt"]
  /\ UNCHANGED <<parent_pid, ebp, ebp_switch, scheduled, shell_exists, crashed>>

\* halt_asm
HaltReturns ==
  /\ ~crashed
  /\ pc = "halt"
  /\ ReturnThrough(ebp[current_pid], "execute", frames)
  /\ UNCHANGED <<pid_array, parent_pid, ebp, ebp_switch, current_pid, cur_term_pid,
                 scheduled, shell_exists, answer>>

\* halt_help up to its sti for a base shell whose terminal is displayed: the
\* pid is free while the shell still runs on its stack.
Restart ==
  /\ Calls
  /\ parent_pid[current_pid] = 0
  /\ frames' = [frames EXCEPT ![current_pid] = <<HaltFrame>>]
  /\ sp' = current_pid
  /\ pc' = "restart"
  /\ pid_array' = [pid_array EXCEPT ![scheduled + 1] = 0]
  /\ UNCHANGED <<parent_pid, ebp, ebp_switch, current_pid, cur_term_pid, scheduled,
                 shell_exists, answer, crashed>>

\* execute("shell") of halt_help.
RestartExecutes ==
  /\ ~crashed
  /\ pc = "restart"
  /\ \E n \in Pids :
       /\ IsNextPid(pid_array, n)
       /\ StartProgram(pid_array, "shell", n, scheduled, sp, frames[sp], "launch")
  /\ UNCHANGED <<ebp_switch, scheduled, shell_exists, answer, crashed>>

Next ==
  \/ Tick
  \/ \E file \in {"shell", "program"} : Execute(file)
  \/ Launch
  \/ Halt
  \/ HaltReturns
  \/ Restart
  \/ RestartExecutes

\* The processor goes on, and a timer request that finds interrupts off stays
\* pending in the interrupt controller until they are on.
Fairness == WF_vars(Launch) /\ WF_vars(HaltReturns) /\ WF_vars(RestartExecutes)
            /\ SF_vars(Tick)

Spec == Init /\ [][Next]_vars
FairSpec == Spec /\ Fairness

-----------------------------------------------------------------------------
(* Properties.                                                             *)

\* scheduler's comment (scheduler.c:55-58): it saves the context of the program
\* that ran and restores that of the one that is scheduled.  So the context of
\* every terminal that waits for its turn is on a kernel stack, where the PCB
\* of the program on its record says, and nobody has wiped it out.
ContextIntact ==
  ~crashed /\ \A t \in Terminals :
    shell_exists[t] /\ t # scheduled =>
      Reaches(ebp_switch[cur_term_pid[t]], "tick", frames)

\* Every caller can be returned to: while its callee is under way, its frame in
\* execute is on its stack, below everything the timer saved there since.
CallerIntact ==
  \A p \in Pids :
    pid_array[p] = 1 /\ parent_pid[p] # 0 =>
      Reaches(ebp[parent_pid[p]], "execute", frames)

\* The stack of a terminal, as in ProcessesRefinement.
PathTo(parent) ==
  LET path[n \in PidOrNone] ==
        [p \in Pids |-> IF n = 0 \/ parent[p] = 0 THEN <<p>>
                        ELSE Append(path[n - 1][parent[p]], p)]
  IN path

StackOf == [t \in Terminals |->
              IF cur_term_pid[t] = 0 THEN <<>>
              ELSE PathTo(parent_pid)[NPids][cur_term_pid[t]]]

Stacks == INSTANCE TerminalStacks WITH
            Programs <- Pids, Status <- {0},
            stacks <- StackOf

\* Through the windows the timer really finds open, the terminals remain the
\* stacks of programs TerminalStacks describes, and rotate.
ImplementsStacks == Stacks!Spec
=============================================================================
