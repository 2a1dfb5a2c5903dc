------------------------------ MODULE Processes ------------------------------
(***************************************************************************)
(* Programs and terminals of the kernel: student-distrib/syscall_helper.c  *)
(* (execute, halt, the process table), scheduler.c (the timer's round      *)
(* robin over the terminals), terminal.c (which terminal is displayed) and *)
(* the exception handlers of idt.c.                                        *)
(*                                                                         *)
(* One action is one kernel entry, from the trap or the interrupt to the   *)
(* instruction that gives the processor to a program.  The handlers run    *)
(* with interrupts off except in the short windows ContextSwitch models.   *)
(*                                                                         *)
(* A kernel stack belongs to a pid, so a saved frame pointer is modelled   *)
(* by the pid of the stack it points into; kstack says which frames are    *)
(* really there, and cpu which program really runs: neither is a variable  *)
(* of the code, and no guard of the code reads them.                       *)
(***************************************************************************)
EXTENDS Integers

CONSTANTS
  NTerminals,    \* terminals (3: terminal_array[3])
  NPids,         \* programs at a time (6: pid_array[7], entry 0 is taken)
  Status,        \* the values programs pass to halt
  EarlyInput,    \* may the keyboard or a program act before every shell is up?
  InactiveExit,  \* may a base shell end while another terminal is displayed?
  ShellFaults    \* may a base shell raise an exception?

EXCEPTION == 256
INVALID == -1

ASSUME ProcessesAssumption ==
  /\ NTerminals \in Nat \ {0}
  /\ NPids \in Nat
  /\ NTerminals <= NPids
  /\ Status \subseteq 0..255
  /\ EarlyInput \in BOOLEAN
  /\ InactiveExit \in BOOLEAN
  /\ ShellFaults \in BOOLEAN

Terminals == 0..(NTerminals - 1)
Pids == 1..NPids
PidOrNone == 0..NPids          \* 0: no process, no parent, no saved frame
Files == {"shell", "program"}  \* the executable files execute tells apart

VARIABLES
  pid_array,        \* [PidOrNone -> {0, 1}]: 1 is taken
  parent_pid,       \* PCB field, 0 for a base shell
  ebp,              \* PCB field: the frame execute left, as the pid of its stack
  ebp_switch,       \* PCB field: the frame the scheduler left, likewise
  current_pid,
  current_process,  \* the PCB pointer, as the pid whose PCB it is
  active,           \* the terminal displayed (the one with its active flag set)
  scheduled,        \* the terminal with its scheduled flag set
  shell_exists,
  cur_term_pid,
  boot_flag,
  GOD,              \* an exception ended the program that is halting
  esp0,             \* tss.esp0, as the pid whose kernel stack it is
  task_page,        \* the 4 MB page at 128 MB, as the pid whose memory it maps
  cpu,              \* the program whose user code runs; 0 is the boot loop
  kstack,           \* [Pids -> SUBSET {"execute", "tick"}]: live suspended frames
  home,             \* [Pids -> Terminals]: the terminal that started the program
  answer,           \* the last value execute returned, to whom and why
  crashed           \* the kernel followed a frame pointer that leads nowhere

kernelVars == <<pid_array, parent_pid, ebp, ebp_switch, current_pid,
                current_process, boot_flag, GOD, esp0, task_page>>
terminalVars == <<active, scheduled, shell_exists, cur_term_pid>>
ghostVars == <<cpu, kstack, home, answer, crashed>>
vars == <<kernelVars, terminalVars, ghostVars>>

Causes == {"none", "invalid", "full", "halt", "exception"}
Answers == [to : PidOrNone, value : Int, cause : Causes]

-----------------------------------------------------------------------------
(* The process table and the terminals.                                    *)

FreePids(table) == {p \in PidOrNone : table[p] = 0}

\* The initialiser of pid_array: pid 0 is never given to a program.
InitTableUnreserved == [p \in PidOrNone |-> 0]
InitTable == [p \in PidOrNone |-> IF p = 0 THEN 1 ELSE 0]

\* find_next_pid returns the lowest free pid, -1 when FreePids is empty.
IsNextPid(table, n) == n \in FreePids(table) /\ \A m \in FreePids(table) : n <= m

\* set_next_scheduled
NextTerminalButLast == (scheduled + 1) % (NTerminals - 1)
NextTerminal == (scheduled + 1) % NTerminals

Booted == \A t \in Terminals : shell_exists[t]

\* The terminal whose record execute and halt update: the one that is scheduled,
\* though the program's output may go to a terminal that is not displayed.
RecordDisplayed(t) == active
RecordTerminal(t) == t

\* A shell that gets one of the first pids is a base shell and has no parent.
ParentOfAnyShell(file, n) == IF file = "shell" THEN 0 ELSE current_pid
ParentOf(file, n) ==
  IF file = "shell" /\ n \in 1..NTerminals THEN 0 ELSE current_pid

\* execute_help from the process table on: program n of terminal t is created
\* and entered.  The stack of the caller, the program that runs, keeps the
\* frames in "left".
StartProgram(table, file, n, t, left) ==
  LET parent == ParentOf(file, n) IN
  /\ pid_array' = [table EXCEPT ![n] = 1]
  /\ parent_pid' = [parent_pid EXCEPT ![n] = parent]
  /\ ebp' = IF parent >= 1 THEN [ebp EXCEPT ![parent] = cpu] ELSE ebp
  /\ current_pid' = n
  /\ current_process' = n
  /\ cur_term_pid' = [cur_term_pid EXCEPT ![RecordTerminal(t)] = n]
  /\ esp0' = n
  /\ task_page' = n
  /\ cpu' = n
  /\ kstack' = [p \in Pids |-> IF p = n THEN {} ELSE IF p = cpu THEN left ELSE kstack[p]]
  /\ home' = [home EXCEPT ![n] = t]

\* halt_asm and schedule_switch load a saved frame pointer and return through
\* it: that works only if a frame of that kind is still on the stack.
Resume(target, frame, stacks) ==
  IF target # 0 /\ frame \in stacks[target]
  THEN /\ cpu' = target
       /\ kstack' = [stacks EXCEPT ![target] = {}]
       /\ UNCHANGED crashed
  ELSE /\ crashed' = TRUE
       /\ kstack' = stacks
       /\ UNCHANGED cpu

-----------------------------------------------------------------------------
Init ==
  /\ pid_array = InitTable
  /\ parent_pid = [p \in Pids |-> 0]
  /\ ebp = [p \in Pids |-> 0]
  /\ ebp_switch = [p \in Pids |-> 0]
  /\ current_pid = 0
  /\ current_process = 0
  /\ active = 0
  /\ scheduled = NTerminals - 1
  /\ shell_exists = [t \in Terminals |-> FALSE]
  /\ cur_term_pid = [t \in Terminals |-> 0]
  /\ boot_flag = 0
  /\ GOD = FALSE
  /\ esp0 = 1
  /\ task_page = 1
  /\ cpu = 0
  /\ kstack = [p \in Pids |-> {}]
  /\ home = [p \in Pids |-> 0]
  /\ answer = [to |-> 0, value |-> 0, cause |-> "none"]
  /\ crashed = FALSE

-----------------------------------------------------------------------------
(* The timer: PIT_handler and scheduler.                                   *)

\* The interrupted program's stack, with the frame of its timer interrupt.
Interrupted == [p \in Pids |-> IF p = cpu THEN {"tick"} ELSE kstack[p]]

\* The context of the terminal that was scheduled, saved once boot_flag is set.
SaveNever == ebp_switch
SaveAfterRotation == [ebp_switch EXCEPT ![cur_term_pid[NextTerminal]] = cpu]
SavedContexts ==
  IF boot_flag = 1 THEN [ebp_switch EXCEPT ![cur_term_pid[scheduled]] = cpu]
                   ELSE ebp_switch

\* With no program on the scheduled terminal the save goes to the PCB of pid 0,
\* which is not mapped.
SaveFaults == boot_flag = 1 /\ cur_term_pid[scheduled] = 0

TickFault ==
  /\ SaveFaults
  /\ crashed' = TRUE
  /\ UNCHANGED <<kernelVars, terminalVars, cpu, kstack, home, answer>>

\* The terminal has no shell yet: start one on top of the interrupted program.
TickBoot ==
  LET next == NextTerminal IN
  /\ ~SaveFaults
  /\ ~shell_exists[next]
  /\ ebp_switch' = SavedContexts
  /\ scheduled' = next
  /\ boot_flag' = IF active = next THEN 1 ELSE boot_flag
  /\ shell_exists' = [shell_exists EXCEPT ![next] = TRUE]
  /\ \/ \E n \in PidOrNone :
          /\ IsNextPid(pid_array, n)
          /\ StartProgram(pid_array, "shell", n, next,
                          IF ParentOf("shell", n) >= 1 THEN {"tick", "execute"}
                                                       ELSE {"tick"})
     \/ /\ FreePids(pid_array) = {}
        /\ UNCHANGED <<pid_array, parent_pid, ebp, current_pid, current_process,
                       cur_term_pid, esp0, task_page, cpu, kstack, home>>
  /\ UNCHANGED <<active, GOD, answer, crashed>>

\* The terminal's program is resumed.
TickSwitch ==
  LET next == NextTerminal
      p == cur_term_pid[next] IN
  /\ ~SaveFaults
  /\ shell_exists[next]
  /\ p # 0
  /\ ebp_switch' = SavedContexts
  /\ scheduled' = next
  /\ esp0' = p
  /\ current_process' = p
  /\ current_pid' = p
  /\ task_page' = p
  /\ Resume(SavedContexts[p], "tick", Interrupted)
  /\ UNCHANGED <<pid_array, parent_pid, ebp, boot_flag, GOD, active, shell_exists,
                 cur_term_pid, home, answer>>

\* The terminal has a shell on record and no program: the interrupted one goes on.
TickIdle ==
  LET next == NextTerminal IN
  /\ ~SaveFaults
  /\ shell_exists[next]
  /\ cur_term_pid[next] = 0
  /\ ebp_switch' = SavedContexts
  /\ scheduled' = next
  /\ UNCHANGED <<pid_array, parent_pid, ebp, current_pid, current_process,
                 boot_flag, GOD, esp0, task_page, active, shell_exists,
                 cur_term_pid, ghostVars>>

Tick == ~crashed /\ (TickFault \/ TickBoot \/ TickSwitch \/ TickIdle)

-----------------------------------------------------------------------------
(* System calls and exceptions of the program that runs.                   *)

\* Programs and the keyboard act when every shell is up, or when the
\* environment is one that does not wait for that.
Running == ~crashed /\ (Booted \/ EarlyInput)

Execute(file) ==
  /\ Running /\ cpu # 0
  /\ \E n \in PidOrNone :
       /\ IsNextPid(pid_array, n)
       /\ StartProgram(pid_array, file, n, scheduled, {"execute"})
  /\ UNCHANGED <<ebp_switch, boot_flag, GOD, active, scheduled, shell_exists,
                 answer, crashed>>

\* parse_arguments or check_file_validity refuse the command.
ExecuteInvalid ==
  /\ Running /\ cpu # 0
  /\ answer' = [to |-> cpu, value |-> INVALID, cause |-> "invalid"]
  /\ UNCHANGED <<kernelVars, terminalVars, cpu, kstack, home, crashed>>

\* "Maximum number of programs": execute_help returns 0.
ExecuteFull ==
  /\ Running /\ cpu # 0
  /\ FreePids(pid_array) = {}
  /\ answer' = [to |-> cpu, value |-> 0, cause |-> "full"]
  /\ UNCHANGED <<kernelVars, terminalVars, cpu, kstack, home, crashed>>

\* What halt hands to the parent: the status, or 256 when GOD says that an
\* exception ended the program.
HaltValueStatus(status, fault) == status
HaltValue(status, fault) == IF GOD \/ fault THEN EXCEPTION ELSE status

\* The pid halt_help frees: current_pid before it becomes the parent's.
FreedByHaltParent(q) == q
FreedByHalt(q) == current_pid

\* The page halt_help maps, of the program it returns to.  (The mutant is what
\* the code did once, according to its own comment at syscall_helper.c:169.)
PageAfterHaltOld(q) == parent_pid[q] + 1
PageAfterHalt(q) == q

\* halt_help for a program that has a parent.
HaltToParent(status, fault) ==
  LET q == parent_pid[current_process]
      stacks == [kstack EXCEPT ![cpu] = {}]
      target == ebp[q] IN
  /\ esp0' = q
  /\ task_page' = PageAfterHalt(q)
  /\ current_process' = q
  /\ pid_array' = [pid_array EXCEPT ![FreedByHalt(q)] = 0]
  /\ current_pid' = q
  /\ cur_term_pid' = [cur_term_pid EXCEPT ![RecordTerminal(scheduled)] = q]
  /\ GOD' = FALSE
  /\ Resume(target, "execute", stacks)
  /\ answer' = IF target # 0 /\ "tick" \notin stacks[target]
               THEN [to |-> target, value |-> HaltValue(status, fault),
                     cause |-> IF fault THEN "exception" ELSE "halt"]
               ELSE answer
  /\ UNCHANGED <<parent_pid, ebp, ebp_switch, boot_flag, active, scheduled,
                 shell_exists, home>>

\* The pid halt_help gives up for a base shell: the displayed terminal's.
RestartedPidUnshifted == active
RestartedPid == active + 1

\* halt_help for a base shell: give up a pid and execute a new shell.
RestartShell(fault) ==
  LET table == [pid_array EXCEPT ![RestartedPid] = 0] IN
  /\ InactiveExit \/ active = scheduled
  /\ GOD' = (GOD \/ fault)
  /\ \E n \in PidOrNone :
       /\ IsNextPid(table, n)
       /\ StartProgram(table, "shell", n, scheduled,
                       IF ParentOf("shell", n) >= 1 THEN {"execute"} ELSE {})
  /\ UNCHANGED <<ebp_switch, boot_flag, active, scheduled, shell_exists, answer,
                 crashed>>

Halt(status) ==
  /\ Running /\ cpu # 0
  /\ \/ parent_pid[current_process] = 0 /\ RestartShell(FALSE)
     \/ parent_pid[current_process] # 0 /\ HaltToParent(status, FALSE)

\* An exception handler of idt.c: GOD = 1, then halt(0).
Exception ==
  /\ Running /\ cpu # 0
  /\ \/ ShellFaults /\ parent_pid[current_process] = 0 /\ RestartShell(TRUE)
     \/ parent_pid[current_process] # 0 /\ HaltToParent(0, TRUE)

\* Alt-F1 .. Alt-F3: terminal_switch changes the displayed terminal only.
SwitchTerminal(t) ==
  /\ Running
  /\ t # active
  /\ active' = t
  /\ UNCHANGED <<kernelVars, scheduled, shell_exists, cur_term_pid, ghostVars>>

-----------------------------------------------------------------------------
Next ==
  \/ Tick
  \/ \E file \in Files : Execute(file)
  \/ ExecuteInvalid
  \/ ExecuteFull
  \/ \E status \in Status : Halt(status)
  \/ Exception
  \/ \E t \in Terminals : SwitchTerminal(t)

\* The timer interrupts for ever at 100 Hz (PIT_init) and no handler blocks.
Fairness == WF_vars(Tick)

Spec == Init /\ [][Next]_vars
FairSpec == Spec /\ Fairness
-----------------------------------------------------------------------------
(* Properties.                                                             *)

Allocated == {p \in Pids : pid_array[p] = 1}

\* Every variable has the type its C declaration and the kernel's bounds give
\* it; entry 0 of pid_array stays taken.
TypeOK ==
  /\ pid_array \in [PidOrNone -> {0, 1}]
  /\ pid_array[0] = 1
  /\ parent_pid \in [Pids -> PidOrNone]
  /\ ebp \in [Pids -> PidOrNone]
  /\ ebp_switch \in [Pids -> PidOrNone]
  /\ current_pid \in PidOrNone
  /\ current_process \in PidOrNone
  /\ active \in Terminals
  /\ scheduled \in Terminals
  /\ shell_exists \in [Terminals -> BOOLEAN]
  /\ cur_term_pid \in [Terminals -> PidOrNone]
  /\ boot_flag \in {0, 1}
  /\ GOD \in BOOLEAN
  /\ esp0 \in PidOrNone
  /\ task_page \in PidOrNone
  /\ cpu \in PidOrNone
  /\ kstack \in [Pids -> SUBSET {"execute", "tick"}]
  /\ home \in [Pids -> Terminals]
  /\ answer \in Answers
  /\ crashed \in BOOLEAN

\* The kernel never follows a frame pointer to a frame that is gone, nor saves
\* a context into the PCB of pid 0: every return of halt_asm and of
\* schedule_switch reaches a live frame.
NoWildReturn == ~crashed

\* Every path through execute, halt and the scheduler moves the four things that
\* make a program the current one together: the pid, the PCB pointer, the kernel
\* stack in the TSS and the page mapped at 128 MB are always one program's.
KernelCoherent ==
  current_process # 0 =>
    /\ current_pid = current_process
    /\ esp0 = current_process
    /\ task_page = current_process

\* The program that runs is the one the kernel takes for the current one, and
\* the one on record for the scheduled terminal, where it was started.
CpuCoherent ==
  cpu # 0 =>
    /\ current_process = cpu
    /\ pid_array[cpu] = 1
    /\ cur_term_pid[scheduled] = cpu
    /\ home[cpu] = scheduled

\* The caller of a program that has not ended is still there, on the same
\* terminal, has no other program under way, and waits in execute on its own
\* stack, where its PCB says.
CallerWaits ==
  \A p \in Allocated : LET q == parent_pid[p] IN
    q # 0 => /\ q \in Allocated
             /\ home[q] = home[p]
             /\ \A r \in Allocated : parent_pid[r] = q => r = p
             /\ kstack[q] = {"execute"}
             /\ ebp[q] = q

\* A terminal that is not scheduled can be resumed: the PCB of the program on
\* its record holds that program's own context, suspended by the timer.
ContextSaved ==
  \A t \in Terminals : LET p == cur_term_pid[t] IN
    shell_exists[t] /\ t # scheduled =>
      /\ p \in Allocated
      /\ home[p] = t
      /\ kstack[p] = {"tick"}
      /\ ebp_switch[p] = p

\* Every program that called no other one is the program on record for its
\* terminal: no program is left behind where neither the scheduler nor halt
\* ever gives it the processor again.
NoProgramStranded ==
  \A p \in Allocated :
    (\A r \in Allocated : parent_pid[r] # p) => cur_term_pid[home[p]] = p

\* A base shell keeps the pid, and with it the kernel stack and the memory, of
\* its terminal for ever, and it has no parent.
BaseShellPids ==
  \A t \in Terminals : shell_exists[t] =>
    /\ t + 1 \in Allocated
    /\ parent_pid[t + 1] = 0
    /\ home[t + 1] = t

\* The shells come up in the order of the terminals, each with the pid of its
\* terminal, and nothing else happens before the last one is there.
BootInOrder ==
  ~Booted => \E k \in 0..(NTerminals - 1) :
    /\ \A t \in Terminals : shell_exists[t] <=> t < k
    /\ scheduled = IF k = 0 THEN NTerminals - 1 ELSE k - 1
    /\ active = 0
    /\ cpu = k
    /\ \A p \in Pids : pid_array[p] = 1 <=> p <= k

\* What the inductive argument for the properties above needs besides them.
Glue ==
  /\ current_pid = current_process
  /\ cpu # 0 => kstack[cpu] = {} /\ shell_exists[scheduled]
  /\ boot_flag = 1 <=> cpu # 0
  /\ Booted => cpu # 0
  /\ \A p \in Allocated :
       /\ shell_exists[home[p]]
       /\ parent_pid[p] = 0 => p = home[p] + 1

\* The inductive invariant, for an environment that lets the shells come up
\* and ends a base shell only on the displayed terminal.
Inv ==
  /\ NoWildReturn /\ KernelCoherent /\ CpuCoherent /\ CallerWaits /\ ContextSaved
  /\ NoProgramStranded /\ BaseShellPids /\ BootInOrder /\ Glue

\* A pid is freed only by the program that runs under it, and then the
\* processor goes to the program that executed it, with the terminal's record.
ReturnsToCaller ==
  [][\A p \in Pids : pid_array[p] = 1 /\ pid_array'[p] = 0 =>
       /\ p = cpu
       /\ cpu' = parent_pid[p]
       /\ answer'.to = parent_pid[p]
       /\ cur_term_pid' = [cur_term_pid EXCEPT ![scheduled] = parent_pid[p]]]_vars

\* A pid in use stays with its terminal: no program of another terminal is ever
\* given a pid, and with it a kernel stack and a memory page, that is taken.
PidStaysWithTerminal ==
  [][\A p \in Allocated : home'[p] = home[p]]_vars

\* execute returns what its comment says: 256 exactly for a program that an
\* exception ended, a value of 0..255 exactly for one that called halt.
AnswerTellsException ==
  /\ answer.cause = "exception" <=> answer.value = EXCEPTION
  /\ answer.cause = "halt" => answer.value \in 0..255

\* Every terminal's program gets the processor again and again, whatever the
\* programs of the other terminals do.
EveryTerminalRuns ==
  \A t \in Terminals : []<>(scheduled = t /\ cpu # 0 /\ cpu = cur_term_pid[t])

=============================================================================
