-------------------------- MODULE ProcessesProofs ----------------------------
(***************************************************************************)
(* Theorems about Processes, for every number of terminals and of pids,    *)
(* and about AddressSpaces, for every number of pids the kernel has task   *)
(* addresses for (AddressSpacesAssumption, which only the last two         *)
(* sections use).                                                          *)
(***************************************************************************)
EXTENDS AddressSpaces, ProcessesRefinement, SequenceTheorems, FiniteSetTheorems,
        NaturalsInduction, WellFoundedInduction, TLAPS

USE ProcessesAssumption

-----------------------------------------------------------------------------
(* Helpers.                                                                *)

\* Rotating over the terminals stays among them: one further, or back to 0.
LEMMA NextTerminalRotates ==
  ASSUME scheduled \in Terminals
  PROVE  /\ NextTerminal \in Terminals
         /\ NextTerminal = IF scheduled = NTerminals - 1 THEN 0 ELSE scheduled + 1
<1>1. CASE scheduled = NTerminals - 1
  <2>1. scheduled + 1 = NTerminals
    BY <1>1
  <2>2. NTerminals % NTerminals = 0
    OBVIOUS
  <2> QED
    BY <1>1, <2>1, <2>2 DEF NextTerminal, Terminals
<1>2. CASE scheduled # NTerminals - 1
  <2>1. scheduled + 1 \in 0..(NTerminals - 1)
    BY <1>2 DEF Terminals
  <2>2. (scheduled + 1) % NTerminals = scheduled + 1
    BY <2>1
  <2> QED
    BY <1>2, <2>1, <2>2 DEF NextTerminal, Terminals
<1> QED
  BY <1>1, <1>2

\* With entry 0 taken, the pid find_next_pid returns is one of a program.
LEMMA NextPidIsPid ==
  ASSUME NEW table \in [PidOrNone -> {0, 1}], table[0] = 1,
         NEW n \in PidOrNone, IsNextPid(table, n)
  PROVE  n \in Pids /\ table[n] = 0
BY DEF IsNextPid, FreePids, PidOrNone, Pids

-----------------------------------------------------------------------------
(* Types.                                                                  *)

\* TypeOK needs that the two names of the current program never come apart,
\* and that there is one whenever a program runs.
TypeInv ==
  /\ TypeOK
  /\ current_pid = current_process
  /\ cpu # 0 => current_process # 0

\* Starting a program with a pid of the table keeps the types it assigns.
LEMMA StartProgramTypes ==
  ASSUME TypeInv,
         NEW table \in [PidOrNone -> {0, 1}], table[0] = 1,
         NEW file, NEW n \in Pids, NEW t \in Terminals,
         NEW left \in SUBSET {"execute", "tick"},
         StartProgram(table, file, n, t, left)
  PROVE  /\ pid_array' \in [PidOrNone -> {0, 1}]
         /\ pid_array'[0] = 1
         /\ parent_pid' \in [Pids -> PidOrNone]
         /\ ebp' \in [Pids -> PidOrNone]
         /\ current_pid' \in Pids
         /\ current_process' = current_pid'
         /\ cur_term_pid' \in [Terminals -> PidOrNone]
         /\ esp0' \in PidOrNone
         /\ task_page' \in PidOrNone
         /\ cpu' \in PidOrNone
         /\ kstack' \in [Pids -> SUBSET {"execute", "tick"}]
         /\ home' \in [Pids -> Terminals]
<1>1. ParentOf(file, n) \in PidOrNone
  BY DEF ParentOf, TypeInv, TypeOK, PidOrNone
<1>2. n \in PidOrNone /\ n # 0
  BY DEF Pids, PidOrNone
<1>3. pid_array' \in [PidOrNone -> {0, 1}] /\ pid_array'[0] = 1
  BY <1>2 DEF StartProgram, PidOrNone
<1>4. kstack' \in [Pids -> SUBSET {"execute", "tick"}]
  BY DEF StartProgram, TypeInv, TypeOK
<1> QED
  BY <1>1, <1>2, <1>3, <1>4 DEF StartProgram, RecordTerminal, TypeInv, TypeOK

\* Resuming a frame, or failing to, keeps the types.
LEMMA ResumeTypes ==
  ASSUME TypeInv,
         NEW target \in PidOrNone, NEW frame,
         NEW stacks \in [Pids -> SUBSET {"execute", "tick"}],
         Resume(target, frame, stacks)
  PROVE  /\ cpu' \in PidOrNone
         /\ kstack' \in [Pids -> SUBSET {"execute", "tick"}]
         /\ crashed' \in BOOLEAN
<1>1. CASE target # 0 /\ frame \in stacks[target]
  BY <1>1 DEF Resume, TypeInv, TypeOK
<1>2. CASE ~(target # 0 /\ frame \in stacks[target])
  BY <1>2 DEF Resume, TypeInv, TypeOK
<1> QED
  BY <1>1, <1>2

\* What the timer leaves on the stacks and in the PCBs is well typed.
LEMMA TickTypes ==
  ASSUME TypeInv
  PROVE  /\ SavedContexts \in [Pids -> PidOrNone]
         /\ Interrupted \in [Pids -> SUBSET {"execute", "tick"}]
BY DEF SavedContexts, Interrupted, TypeInv, TypeOK

LEMMA TypeInvInit == Init => TypeInv
<1> SUFFICES ASSUME Init PROVE TypeInv
  OBVIOUS
<1>1. 0 \in Terminals /\ NTerminals - 1 \in Terminals
  BY DEF Terminals
<1>2. 0 \in PidOrNone /\ 1 \in PidOrNone
  BY DEF PidOrNone
<1>3. answer \in Answers
  BY <1>2 DEF Init, Answers, Causes
<1>4. kstack \in [Pids -> SUBSET {"execute", "tick"}]
  BY DEF Init
<1>5. pid_array \in [PidOrNone -> {0, 1}] /\ pid_array[0] = 1
  BY <1>2 DEF Init, InitTable
<1> QED
  BY <1>1, <1>2, <1>3, <1>4, <1>5 DEF Init, TypeInv, TypeOK

LEMMA TypeInvTick == TypeInv /\ Tick => TypeInv'
<1> SUFFICES ASSUME TypeInv, Tick PROVE TypeInv'
  OBVIOUS
<1>0. NextTerminal \in Terminals
  BY NextTerminalRotates DEF TypeInv, TypeOK
<1>1. CASE TickFault
  BY <1>1 DEF TickFault, kernelVars, terminalVars, TypeInv, TypeOK
<1>2. CASE TickBoot
  <2>1. ebp_switch' \in [Pids -> PidOrNone]
    BY <1>2, TickTypes DEF TickBoot
  <2>2. scheduled' \in Terminals /\ boot_flag' \in {0, 1}
        /\ shell_exists' \in [Terminals -> BOOLEAN]
    BY <1>0, <1>2 DEF TickBoot, TypeInv, TypeOK
  <2>3. CASE \E n \in PidOrNone :
               /\ IsNextPid(pid_array, n)
               /\ StartProgram(pid_array, "shell", n, NextTerminal,
                               IF ParentOf("shell", n) >= 1
                               THEN {"tick", "execute"} ELSE {"tick"})
    <3>1. PICK n \in PidOrNone :
               /\ IsNextPid(pid_array, n)
               /\ StartProgram(pid_array, "shell", n, NextTerminal,
                               IF ParentOf("shell", n) >= 1
                               THEN {"tick", "execute"} ELSE {"tick"})
      BY <2>3
    <3>2. n \in Pids
      BY <3>1, NextPidIsPid DEF TypeInv, TypeOK
    <3>3. PICK left \in SUBSET {"execute", "tick"} :
               StartProgram(pid_array, "shell", n, NextTerminal, left)
      BY <3>1
    <3>4. pid_array \in [PidOrNone -> {0, 1}] /\ pid_array[0] = 1
      BY DEF TypeInv, TypeOK
    <3>5. /\ pid_array' \in [PidOrNone -> {0, 1}]
          /\ pid_array'[0] = 1
          /\ parent_pid' \in [Pids -> PidOrNone]
          /\ ebp' \in [Pids -> PidOrNone]
          /\ current_pid' \in Pids
          /\ current_process' = current_pid'
          /\ cur_term_pid' \in [Terminals -> PidOrNone]
          /\ esp0' \in PidOrNone
          /\ task_page' \in PidOrNone
          /\ cpu' \in PidOrNone
          /\ kstack' \in [Pids -> SUBSET {"execute", "tick"}]
          /\ home' \in [Pids -> Terminals]
      BY <1>0, <3>2, <3>3, <3>4, StartProgramTypes
    <3>6. active' \in Terminals /\ GOD' \in BOOLEAN /\ answer' \in Answers
          /\ crashed' \in BOOLEAN
      BY <1>2 DEF TickBoot, TypeInv, TypeOK
    <3>7. current_pid' \in PidOrNone /\ current_process' # 0
      BY <3>5 DEF Pids, PidOrNone
    <3> QED
      BY <2>1, <2>2, <3>5, <3>6, <3>7 DEF TypeInv, TypeOK
  <2>4. CASE /\ FreePids(pid_array) = {}
             /\ UNCHANGED <<pid_array, parent_pid, ebp, current_pid, current_process,
                            cur_term_pid, esp0, task_page, cpu, kstack, home>>
    BY <1>2, <2>1, <2>2, <2>4 DEF TickBoot, TypeInv, TypeOK
  <2> QED
    BY <1>2, <2>3, <2>4 DEF TickBoot
<1>3. CASE TickSwitch
  <2> DEFINE p == cur_term_pid[NextTerminal]
  <2>1. p \in Pids /\ p \in PidOrNone
    BY <1>0, <1>3 DEF TickSwitch, TypeInv, TypeOK, Pids, PidOrNone
  <2>2. Resume(SavedContexts[p], "tick", Interrupted)
    BY <1>3 DEF TickSwitch
  <2>3. SavedContexts[p] \in PidOrNone
    BY <2>1, TickTypes
  <2>4. /\ cpu' \in PidOrNone
        /\ kstack' \in [Pids -> SUBSET {"execute", "tick"}]
        /\ crashed' \in BOOLEAN
    BY <2>2, <2>3, TickTypes, ResumeTypes
  <2>5. p # 0
    BY <2>1 DEF Pids
  <2> QED
    BY <1>0, <1>3, <2>1, <2>4, <2>5, TickTypes DEF TickSwitch, TypeInv, TypeOK
<1>4. CASE TickIdle
  BY <1>0, <1>4, TickTypes DEF TickIdle, ghostVars, TypeInv, TypeOK
<1> QED
  BY <1>1, <1>2, <1>3, <1>4 DEF Tick

\* A program that a system call starts.
LEMMA TypeInvExecute ==
  ASSUME TypeInv, NEW file \in Files, Execute(file)
  PROVE  TypeInv'
<1>1. PICK n \in PidOrNone :
           /\ IsNextPid(pid_array, n)
           /\ StartProgram(pid_array, file, n, scheduled, {"execute"})
  BY DEF Execute
<1>2. pid_array \in [PidOrNone -> {0, 1}] /\ pid_array[0] = 1
        /\ scheduled \in Terminals
  BY DEF TypeInv, TypeOK
<1>3. n \in Pids
  BY <1>1, <1>2, NextPidIsPid
<1>4. /\ pid_array' \in [PidOrNone -> {0, 1}]
      /\ pid_array'[0] = 1
      /\ parent_pid' \in [Pids -> PidOrNone]
      /\ ebp' \in [Pids -> PidOrNone]
      /\ current_pid' \in Pids
      /\ current_process' = current_pid'
      /\ cur_term_pid' \in [Terminals -> PidOrNone]
      /\ esp0' \in PidOrNone
      /\ task_page' \in PidOrNone
      /\ cpu' \in PidOrNone
      /\ kstack' \in [Pids -> SUBSET {"execute", "tick"}]
      /\ home' \in [Pids -> Terminals]
  BY <1>1, <1>2, <1>3, StartProgramTypes
<1>5. current_pid' \in PidOrNone /\ current_process' # 0
  BY <1>4 DEF Pids, PidOrNone
<1> QED
  BY <1>4, <1>5 DEF Execute, TypeInv, TypeOK

LEMMA TypeInvRefused ==
  TypeInv /\ (ExecuteInvalid \/ ExecuteFull) => TypeInv'
BY DEF ExecuteInvalid, ExecuteFull, INVALID, kernelVars, terminalVars, TypeInv,
       TypeOK, Answers, Causes

\* A base shell that is restarted.
LEMMA TypeInvRestart ==
  ASSUME TypeInv, NEW fault \in BOOLEAN, RestartShell(fault)
  PROVE  TypeInv'
<1> DEFINE table == [pid_array EXCEPT ![RestartedPid] = 0]
<1>1. RestartedPid \in Pids
  BY DEF RestartedPid, TypeInv, TypeOK, Terminals, Pids
<1>2. table \in [PidOrNone -> {0, 1}] /\ table[0] = 1 /\ scheduled \in Terminals
  <2>1. 0 \in PidOrNone /\ RestartedPid # 0
    BY <1>1 DEF Pids, PidOrNone
  <2> QED
    BY <2>1 DEF TypeInv, TypeOK
<1>3. PICK n \in PidOrNone :
           /\ IsNextPid(table, n)
           /\ StartProgram(table, "shell", n, scheduled,
                           IF ParentOf("shell", n) >= 1 THEN {"execute"} ELSE {})
  BY DEF RestartShell
<1>4. PICK left \in SUBSET {"execute", "tick"} :
           StartProgram(table, "shell", n, scheduled, left)
  BY <1>3
<1>5. n \in Pids
  BY <1>2, <1>3, NextPidIsPid
<1>6. /\ pid_array' \in [PidOrNone -> {0, 1}]
      /\ pid_array'[0] = 1
      /\ parent_pid' \in [Pids -> PidOrNone]
      /\ ebp' \in [Pids -> PidOrNone]
      /\ current_pid' \in Pids
      /\ current_process' = current_pid'
      /\ cur_term_pid' \in [Terminals -> PidOrNone]
      /\ esp0' \in PidOrNone
      /\ task_page' \in PidOrNone
      /\ cpu' \in PidOrNone
      /\ kstack' \in [Pids -> SUBSET {"execute", "tick"}]
      /\ home' \in [Pids -> Terminals]
  BY <1>2, <1>4, <1>5, StartProgramTypes
<1>7. current_pid' \in PidOrNone /\ current_process' # 0
  BY <1>6 DEF Pids, PidOrNone
<1>8. GOD' \in BOOLEAN
  BY DEF RestartShell, TypeInv, TypeOK
<1>9. UNCHANGED <<ebp_switch, boot_flag, active, scheduled, shell_exists, answer,
                  crashed>>
  BY DEF RestartShell
<1> QED
  BY <1>6, <1>7, <1>8, <1>9 DEF TypeInv, TypeOK

\* A program that ends and gives the processor back to its caller.
LEMMA TypeInvHaltToParent ==
  ASSUME TypeInv, cpu # 0, parent_pid[current_process] # 0,
         NEW status \in 0..255, NEW fault \in BOOLEAN, HaltToParent(status, fault)
  PROVE  TypeInv'
<1> DEFINE q == parent_pid[current_process]
           stacks == [kstack EXCEPT ![cpu] = {}]
<1>1. current_process \in Pids /\ q \in Pids /\ q \in PidOrNone
  <2>1. current_process \in PidOrNone /\ current_process # 0
    BY DEF TypeInv, TypeOK
  <2>2. current_process \in Pids
    BY <2>1 DEF Pids, PidOrNone
  <2>3. parent_pid \in [Pids -> PidOrNone]
    BY DEF TypeInv, TypeOK
  <2>4. q \in PidOrNone
    BY <2>2, <2>3
  <2> QED
    BY <2>2, <2>4 DEF Pids, PidOrNone
<1>2. stacks \in [Pids -> SUBSET {"execute", "tick"}]
  BY DEF TypeInv, TypeOK
<1>3. ebp[q] \in PidOrNone
  BY <1>1 DEF TypeInv, TypeOK
<1>4. Resume(ebp[q], "execute", stacks)
  BY DEF HaltToParent
<1>5. /\ cpu' \in PidOrNone
      /\ kstack' \in [Pids -> SUBSET {"execute", "tick"}]
      /\ crashed' \in BOOLEAN
  BY <1>2, <1>3, <1>4, ResumeTypes
<1>6. pid_array' \in [PidOrNone -> {0, 1}] /\ pid_array'[0] = 1
  BY <1>1 DEF HaltToParent, FreedByHalt, TypeInv, TypeOK, Pids
<1>7. HaltValue(status, fault) \in Int
  BY DEF HaltValue, EXCEPTION
<1>8. answer' \in Answers
  BY <1>3, <1>7 DEF HaltToParent, TypeInv, TypeOK, Answers, Causes
<1>9. cur_term_pid' \in [Terminals -> PidOrNone]
  BY <1>1 DEF HaltToParent, RecordTerminal, TypeInv, TypeOK
<1>10. current_pid' = q /\ current_process' = q /\ q # 0
  BY DEF HaltToParent
<1> QED
  BY <1>1, <1>5, <1>6, <1>8, <1>9, <1>10
  DEF HaltToParent, PageAfterHalt, TypeInv, TypeOK

LEMMA TypeInvHalt ==
  ASSUME TypeInv, (\E status \in Status : Halt(status)) \/ Exception
  PROVE  TypeInv'
<1>1. CASE RestartShell(TRUE) \/ RestartShell(FALSE)
  BY <1>1, TypeInvRestart
<1>2. CASE \E status \in Status : Halt(status) /\ ~RestartShell(FALSE)
  <2>1. PICK status \in Status : Halt(status) /\ ~RestartShell(FALSE)
    BY <1>2
  <2>2. cpu # 0 /\ parent_pid[current_process] # 0 /\ HaltToParent(status, FALSE)
    BY <2>1 DEF Halt
  <2> QED
    BY <2>2, TypeInvHaltToParent
<1>3. CASE Exception /\ ~RestartShell(TRUE)
  <2>1. cpu # 0 /\ parent_pid[current_process] # 0 /\ HaltToParent(0, TRUE)
    BY <1>3 DEF Exception
  <2>2. 0 \in 0..255 /\ TRUE \in BOOLEAN
    OBVIOUS
  <2> QED
    BY <2>1, <2>2, TypeInvHaltToParent, Zenon
<1> QED
  BY <1>1, <1>2, <1>3

LEMMA TypeInvNext == TypeInv /\ [Next]_vars => TypeInv'
<1> SUFFICES ASSUME TypeInv, [Next]_vars PROVE TypeInv'
  OBVIOUS
<1>1. CASE \E t \in Terminals : SwitchTerminal(t)
  BY <1>1 DEF SwitchTerminal, kernelVars, ghostVars, TypeInv, TypeOK
<1>2. CASE UNCHANGED vars
  BY <1>2 DEF vars, kernelVars, terminalVars, ghostVars, TypeInv, TypeOK
<1> QED
  BY <1>1, <1>2, TypeInvTick, TypeInvExecute, TypeInvRefused, TypeInvHalt DEF Next

\* Every reachable state is well typed, whatever the environment does.
THEOREM TypeCorrect == Spec => []TypeOK
<1>1. TypeInv => TypeOK
  BY DEF TypeInv
<1> QED
  BY <1>1, TypeInvInit, TypeInvNext, PTL DEF Spec

-----------------------------------------------------------------------------
(* Safety, for an environment that lets the shells come up and ends a base *)
(* shell only on the displayed terminal.                                   *)

OrderlyEnvironment == ~EarlyInput /\ ~InactiveExit

SafeInv == TypeInv /\ Inv

\* Once every shell is up, the pids of the base shells are taken for good.
LEMMA FreePidIsNoBasePid ==
  ASSUME SafeInv, Booted, NEW n \in Pids, pid_array[n] = 0
  PROVE  n \notin 1..NTerminals
<1>1. ASSUME n \in 1..NTerminals PROVE FALSE
  <2>1. n - 1 \in Terminals /\ (n - 1) + 1 = n
    BY <1>1 DEF Terminals
  <2>2. n \in Allocated
    BY <2>1 DEF SafeInv, Inv, BaseShellPids, Booted
  <2> QED
    BY <2>2 DEF Allocated
<1> QED
  BY <1>1

\* The program that runs has no other one under way.
LEMMA RunningIsLeaf ==
  ASSUME SafeInv, cpu # 0, NEW r \in Allocated
  PROVE  parent_pid[r] # cpu
BY DEF SafeInv, Inv, CallerWaits, Glue

LEMMA SafeInvInit == Init => SafeInv
<1> SUFFICES ASSUME Init PROVE SafeInv
  OBVIOUS
<1>1. TypeInv
  BY TypeInvInit
<1>2. Allocated = {}
  BY DEF Init, InitTable, Allocated, Pids, PidOrNone
<1>3. \A t \in Terminals : ~shell_exists[t]
  BY DEF Init
<1>4. 0 \in Terminals /\ 0 \in 0..(NTerminals - 1)
  BY DEF Terminals
<1>5. ~Booted
  BY <1>3, <1>4 DEF Booted
<1>6. BootInOrder
  <2>1. \A t \in Terminals : shell_exists[t] <=> t < 0
    BY <1>3 DEF Terminals
  <2>2. \A p \in Pids : pid_array[p] = 1 <=> p <= 0
    BY DEF Init, InitTable, Pids, PidOrNone
  <2>3. scheduled = NTerminals - 1 /\ active = 0 /\ cpu = 0
    BY DEF Init
  <2> QED
    BY <1>4, <2>1, <2>2, <2>3 DEF BootInOrder
<1>7. /\ NoWildReturn /\ KernelCoherent /\ CpuCoherent /\ CallerWaits
      /\ ContextSaved /\ NoProgramStranded /\ BaseShellPids
  BY <1>2, <1>3 DEF Init, NoWildReturn, KernelCoherent, CpuCoherent, CallerWaits,
     ContextSaved, NoProgramStranded, BaseShellPids
<1>8. Glue
  BY <1>2, <1>5 DEF Init, Glue
<1> QED
  BY <1>1, <1>6, <1>7, <1>8 DEF SafeInv, Inv

\* A program calls another one: the callee is the new top of the terminal.
LEMMA SafeInvExecute ==
  ASSUME SafeInv, OrderlyEnvironment, NEW file \in Files, Execute(file)
  PROVE  Inv'
<1>0. Booted /\ cpu # 0 /\ cpu \in Pids /\ scheduled \in Terminals
  BY DEF Execute, Running, OrderlyEnvironment, SafeInv, TypeInv, TypeOK, Pids, PidOrNone
<1>1. PICK n \in PidOrNone :
           /\ IsNextPid(pid_array, n)
           /\ StartProgram(pid_array, file, n, scheduled, {"execute"})
  BY DEF Execute
<1>2. n \in Pids /\ pid_array[n] = 0
  BY <1>1, NextPidIsPid DEF SafeInv, TypeInv, TypeOK
<1>3. n \notin 1..NTerminals
  BY <1>0, <1>2, FreePidIsNoBasePid
<1>4. current_pid = cpu /\ pid_array[cpu] = 1 /\ kstack[cpu] = {} /\ home[cpu] = scheduled
      /\ cur_term_pid[scheduled] = cpu
  BY <1>0 DEF SafeInv, Inv, CpuCoherent, Glue
<1>5. n # cpu /\ ParentOf(file, n) = cpu /\ cpu >= 1
  BY <1>0, <1>2, <1>3, <1>4 DEF ParentOf, Pids
<1>6. /\ pid_array' = [pid_array EXCEPT ![n] = 1]
      /\ parent_pid' = [parent_pid EXCEPT ![n] = cpu]
      /\ ebp' = [ebp EXCEPT ![cpu] = cpu]
      /\ cur_term_pid' = [cur_term_pid EXCEPT ![scheduled] = n]
      /\ kstack' = [p \in Pids |-> IF p = n THEN {}
                                   ELSE IF p = cpu THEN {"execute"} ELSE kstack[p]]
      /\ home' = [home EXCEPT ![n] = scheduled]
      /\ current_pid' = n /\ current_process' = n /\ esp0' = n /\ task_page' = n
      /\ cpu' = n
  BY <1>1, <1>5 DEF StartProgram, RecordTerminal
<1>7. UNCHANGED <<ebp_switch, boot_flag, active, scheduled, shell_exists, crashed>>
  BY DEF Execute
<1>8. Allocated' = Allocated \cup {n} /\ n \notin Allocated /\ cpu \in Allocated
  <2>1. pid_array \in [PidOrNone -> {0, 1}] /\ n \in PidOrNone
    BY DEF SafeInv, TypeInv, TypeOK
  <2>2. \A p \in Pids : pid_array'[p] = 1 <=> pid_array[p] = 1 \/ p = n
    BY <1>6, <2>1 DEF Pids, PidOrNone
  <2> QED
    BY <1>0, <1>2, <1>4, <2>2 DEF Allocated
<1>9. \A r \in Allocated : parent_pid[r] # cpu /\ parent_pid[r] # n
  BY <1>0, <1>2, <1>8, RunningIsLeaf DEF SafeInv, Inv, CallerWaits, Pids
<1> USE DEF SafeInv, Inv, TypeInv, TypeOK
<1>10. NoWildReturn' /\ KernelCoherent'
  BY <1>6, <1>7 DEF NoWildReturn, KernelCoherent
<1>11. CpuCoherent'
  BY <1>0, <1>2, <1>6, <1>7 DEF CpuCoherent, PidOrNone, Pids
<1>12. CallerWaits'
  <2> SUFFICES ASSUME NEW p \in Allocated', parent_pid'[p] # 0
               PROVE  /\ parent_pid'[p] \in Allocated'
                      /\ home'[parent_pid'[p]] = home'[p]
                      /\ \A r \in Allocated' : parent_pid'[r] = parent_pid'[p] => r = p
                      /\ kstack'[parent_pid'[p]] = {"execute"}
                      /\ ebp'[parent_pid'[p]] = parent_pid'[p]
    BY DEF CallerWaits
  <2>1. CASE p = n
    BY <1>0, <1>2, <1>4, <1>5, <1>6, <1>8, <1>9, <2>1 DEF Allocated
  <2>2. CASE p # n
    <3>1. p \in Allocated /\ parent_pid'[p] = parent_pid[p]
      BY <1>6, <1>8, <2>2 DEF Allocated
    <3>2. /\ parent_pid[p] \in Allocated
          /\ home[parent_pid[p]] = home[p]
          /\ \A r \in Allocated : parent_pid[r] = parent_pid[p] => r = p
          /\ kstack[parent_pid[p]] = {"execute"}
          /\ ebp[parent_pid[p]] = parent_pid[p]
      BY <3>1 DEF CallerWaits
    <3>3. parent_pid[p] # n /\ parent_pid[p] # cpu
      BY <1>9, <3>1
    <3> QED
      BY <1>2, <1>6, <1>8, <2>2, <3>1, <3>2, <3>3 DEF Allocated
  <2> QED
    BY <2>1, <2>2
<1>13. ContextSaved'
  BY <1>0, <1>2, <1>4, <1>5, <1>6, <1>7, <1>8 DEF ContextSaved, Allocated
<1>14. NoProgramStranded'
  <2> SUFFICES ASSUME NEW p \in Allocated', \A r \in Allocated' : parent_pid'[r] # p
               PROVE  cur_term_pid'[home'[p]] = p
    BY DEF NoProgramStranded
  <2>1. CASE p = n
    BY <1>0, <1>2, <1>6, <2>1
  <2>2. CASE p # n
    <3>1. p \in Allocated /\ p # cpu
      BY <1>2, <1>6, <1>8, <2>2
    <3>2. \A r \in Allocated : parent_pid[r] # p
      BY <1>6, <1>8 DEF Allocated
    <3>3. cur_term_pid[home[p]] = p
      BY <3>1, <3>2 DEF NoProgramStranded
    <3>4. home[p] # scheduled
      BY <1>4, <3>1, <3>3
    <3> QED
      BY <1>6, <2>2, <3>1, <3>3, <3>4 DEF Allocated
  <2> QED
    BY <2>1, <2>2
<1>15. BaseShellPids'
  BY <1>2, <1>6, <1>7, <1>8 DEF BaseShellPids, Allocated
<1>16. BootInOrder'
  BY <1>0, <1>7 DEF BootInOrder, Booted
<1>17. Glue'
  BY <1>0, <1>2, <1>5, <1>6, <1>7, <1>8 DEF Glue, Booted, Allocated, Pids
<1> QED
  BY <1>10, <1>11, <1>12, <1>13, <1>14, <1>15, <1>16, <1>17

\* While a program runs, the timer saves its context in its own PCB.
LEMMA TimerSavesRunning ==
  ASSUME SafeInv, cpu # 0
  PROVE  /\ SavedContexts = [ebp_switch EXCEPT ![cpu] = cpu]
         /\ Interrupted = [kstack EXCEPT ![cpu] = {"tick"}]
BY DEF SavedContexts, Interrupted, SafeInv, Inv, Glue, CpuCoherent, TypeInv, TypeOK

\* The timer starts the shell of the next terminal, with that terminal's pid.
LEMMA TickBootStarts ==
  ASSUME SafeInv, TickBoot, NEW k \in 0..(NTerminals - 1),
         \A t \in Terminals : shell_exists[t] <=> t < k,
         scheduled = IF k = 0 THEN NTerminals - 1 ELSE k - 1,
         \A p \in Pids : pid_array[p] = 1 <=> p <= k
  PROVE  /\ NextTerminal = k
         /\ StartProgram(pid_array, "shell", k + 1, k, {"tick"})
         /\ ParentOf("shell", k + 1) = 0
<1>1. NextTerminal = k
  BY NextTerminalRotates DEF SafeInv, TypeInv, TypeOK, Terminals
<1>2. k + 1 \in FreePids(pid_array)
  <2>1. k + 1 \in Pids /\ k + 1 \in PidOrNone
    BY DEF Pids, PidOrNone
  <2> QED
    BY <2>1 DEF FreePids, SafeInv, TypeInv, TypeOK
<1>3. PICK n \in PidOrNone :
           /\ IsNextPid(pid_array, n)
           /\ StartProgram(pid_array, "shell", n, NextTerminal,
                           IF ParentOf("shell", n) >= 1
                           THEN {"tick", "execute"} ELSE {"tick"})
  BY <1>2 DEF TickBoot
<1>4. n \in Pids /\ pid_array[n] = 0
  BY <1>3, NextPidIsPid DEF SafeInv, TypeInv, TypeOK
<1>5. n = k + 1
  BY <1>2, <1>3, <1>4 DEF IsNextPid, Pids
<1>6. ParentOf("shell", n) = 0
  BY <1>5 DEF ParentOf
<1> QED
  BY <1>1, <1>3, <1>5, <1>6

LEMMA SafeInvTickBoot ==
  ASSUME SafeInv, OrderlyEnvironment, TickBoot
  PROVE  Inv'
<1>0. NextTerminal \in Terminals /\ ~shell_exists[NextTerminal] /\ ~Booted
  BY NextTerminalRotates DEF TickBoot, Booted, SafeInv, TypeInv, TypeOK
<1>1. PICK k \in 0..(NTerminals - 1) :
           /\ \A t \in Terminals : shell_exists[t] <=> t < k
           /\ scheduled = IF k = 0 THEN NTerminals - 1 ELSE k - 1
           /\ active = 0
           /\ cpu = k
           /\ \A p \in Pids : pid_array[p] = 1 <=> p <= k
  BY <1>0 DEF SafeInv, Inv, BootInOrder
<1>2. PICK n : /\ n = k + 1
               /\ NextTerminal = k
               /\ StartProgram(pid_array, "shell", n, k, {"tick"})
               /\ ParentOf("shell", n) = 0
  BY <1>1, TickBootStarts
<1>3. n \in Pids /\ n = k + 1 /\ n # k /\ n # cpu /\ k \in Terminals /\ scheduled \in Terminals
      /\ k \in Int /\ n \in Int
  BY <1>1, <1>2 DEF Pids, Terminals, SafeInv, TypeInv, TypeOK
<1>4. pid_array[n] = 0
  BY <1>1, <1>3 DEF SafeInv, TypeInv, TypeOK, Pids, PidOrNone
<1>5. /\ pid_array' = [pid_array EXCEPT ![n] = 1]
      /\ parent_pid' = [parent_pid EXCEPT ![n] = 0]
      /\ ebp' = ebp
      /\ cur_term_pid' = [cur_term_pid EXCEPT ![k] = n]
      /\ kstack' = [p \in Pids |-> IF p = n THEN {}
                                   ELSE IF p = cpu THEN {"tick"} ELSE kstack[p]]
      /\ home' = [home EXCEPT ![n] = k]
      /\ current_pid' = n /\ current_process' = n /\ esp0' = n /\ task_page' = n
      /\ cpu' = n
  <2>1. ~(ParentOf("shell", n) >= 1)
    BY <1>2
  <2> QED
    BY <1>2, <2>1, Zenon DEF StartProgram, RecordTerminal
<1>6. /\ scheduled' = k /\ active' = active /\ crashed' = crashed
      /\ shell_exists' = [shell_exists EXCEPT ![k] = TRUE]
      /\ ebp_switch' = SavedContexts
      /\ boot_flag' = IF active = k THEN 1 ELSE boot_flag
  BY <1>2 DEF TickBoot
<1>7. boot_flag' = 1
  BY <1>1, <1>3, <1>6 DEF SafeInv, Inv, Glue
<1>8. Allocated' = Allocated \cup {n} /\ n \notin Allocated
  <2>1. pid_array \in [PidOrNone -> {0, 1}] /\ n \in PidOrNone
    BY <1>3 DEF SafeInv, TypeInv, TypeOK, Pids, PidOrNone
  <2>2. \A p \in Pids : pid_array'[p] = 1 <=> pid_array[p] = 1 \/ p = n
    BY <1>5, <2>1 DEF Pids, PidOrNone
  <2>3. \A p : p \in Allocated' <=> p \in Allocated \/ p = n
    BY <1>3, <2>2 DEF Allocated
  <2> QED
    BY <1>4, <2>3 DEF Allocated
<1>9. k \notin {home[p] : p \in Allocated}
  BY <1>0, <1>2 DEF SafeInv, Inv, Glue
<1>10. cpu # 0 => /\ cpu \in Allocated /\ cpu \in Pids /\ home[cpu] = scheduled
                  /\ cur_term_pid[scheduled] = cpu /\ kstack[cpu] = {} /\ scheduled # k
                  /\ ebp_switch' = [ebp_switch EXCEPT ![cpu] = cpu]
  <2> SUFFICES ASSUME cpu # 0
               PROVE  /\ cpu \in Allocated /\ cpu \in Pids /\ home[cpu] = scheduled
                      /\ cur_term_pid[scheduled] = cpu /\ kstack[cpu] = {} /\ scheduled # k
                      /\ ebp_switch' = [ebp_switch EXCEPT ![cpu] = cpu]
    OBVIOUS
  <2>1. cpu \in Pids
    BY DEF SafeInv, TypeInv, TypeOK, Pids, PidOrNone
  <2>2. pid_array[cpu] = 1 /\ home[cpu] = scheduled /\ cur_term_pid[scheduled] = cpu
    BY DEF SafeInv, Inv, CpuCoherent
  <2>3. kstack[cpu] = {} /\ shell_exists[scheduled]
    BY DEF SafeInv, Inv, Glue
  <2> QED
    BY <1>0, <1>2, <1>6, <2>1, <2>2, <2>3, TimerSavesRunning DEF Allocated
<1>11. cpu = 0 => \A t \in Terminals : ~shell_exists[t]
  BY <1>1 DEF Terminals
<1> USE DEF SafeInv, Inv, TypeInv, TypeOK
<1>12. NoWildReturn' /\ KernelCoherent'
  BY <1>5, <1>6 DEF NoWildReturn, KernelCoherent
<1>13. CpuCoherent'
  BY <1>3, <1>5, <1>6 DEF CpuCoherent, PidOrNone, Pids
<1>14. CallerWaits'
  <2> SUFFICES ASSUME NEW p \in Allocated', parent_pid'[p] # 0
               PROVE  /\ parent_pid'[p] \in Allocated'
                      /\ home'[parent_pid'[p]] = home'[p]
                      /\ \A r \in Allocated' : parent_pid'[r] = parent_pid'[p] => r = p
                      /\ kstack'[parent_pid'[p]] = {"execute"}
                      /\ ebp'[parent_pid'[p]] = parent_pid'[p]
    BY DEF CallerWaits
  <2>1. p # n /\ p \in Allocated /\ parent_pid'[p] = parent_pid[p]
    BY <1>3, <1>5, <1>8 DEF Allocated
  <2>2. /\ parent_pid[p] \in Allocated
        /\ home[parent_pid[p]] = home[p]
        /\ \A r \in Allocated : parent_pid[r] = parent_pid[p] => r = p
        /\ kstack[parent_pid[p]] = {"execute"}
        /\ ebp[parent_pid[p]] = parent_pid[p]
    BY <2>1 DEF CallerWaits
  <2>3. parent_pid[p] # n
    BY <1>8, <2>2
  <2>4. parent_pid[p] # cpu
    BY <1>10, <2>1, <2>2
  <2> QED
    BY <1>3, <1>5, <1>8, <2>1, <2>2, <2>3, <2>4 DEF Allocated
<1>15. ContextSaved'
  <2> SUFFICES ASSUME NEW t \in Terminals, shell_exists'[t], t # scheduled'
               PROVE  /\ cur_term_pid'[t] \in Allocated'
                      /\ home'[cur_term_pid'[t]] = t
                      /\ kstack'[cur_term_pid'[t]] = {"tick"}
                      /\ ebp_switch'[cur_term_pid'[t]] = cur_term_pid'[t]
    BY DEF ContextSaved
  <2>1. t # k /\ shell_exists[t] /\ cur_term_pid'[t] = cur_term_pid[t] /\ cpu # 0
    BY <1>3, <1>5, <1>6, <1>11
  <2>2. CASE t = scheduled
    BY <1>3, <1>5, <1>8, <1>10, <2>1, <2>2
  <2>3. CASE t # scheduled
    <3>1. /\ cur_term_pid[t] \in Allocated
          /\ home[cur_term_pid[t]] = t
          /\ kstack[cur_term_pid[t]] = {"tick"}
          /\ ebp_switch[cur_term_pid[t]] = cur_term_pid[t]
      BY <2>1, <2>3 DEF ContextSaved
    <3> QED
      BY <1>3, <1>5, <1>8, <1>10, <2>1, <3>1 DEF Allocated
  <2> QED
    BY <2>2, <2>3
<1>16. NoProgramStranded'
  <2> SUFFICES ASSUME NEW p \in Allocated', \A r \in Allocated' : parent_pid'[r] # p
               PROVE  cur_term_pid'[home'[p]] = p
    BY DEF NoProgramStranded
  <2>1. CASE p = n
    BY <1>3, <1>5, <2>1
  <2>2. CASE p # n
    <3>1. p \in Allocated /\ home'[p] = home[p] /\ home[p] # k
      BY <1>5, <1>8, <1>9, <2>2 DEF Allocated
    <3>2. \A r \in Allocated : parent_pid[r] # p
      BY <1>5, <1>8 DEF Allocated
    <3>3. cur_term_pid[home[p]] = p
      BY <3>1, <3>2 DEF NoProgramStranded
    <3> QED
      BY <1>5, <3>1, <3>3 DEF Allocated
  <2> QED
    BY <2>1, <2>2
<1>17. BaseShellPids'
  BY <1>3, <1>5, <1>6, <1>8 DEF BaseShellPids, Allocated, Terminals
<1>18. BootInOrder'
  <2> SUFFICES ASSUME ~Booted' PROVE BootInOrder'
    BY DEF BootInOrder
  <2>1. k # NTerminals - 1
    BY <1>1, <1>6 DEF Booted, Terminals
  <2>2. n \in 0..(NTerminals - 1) /\ n # 0
    BY <1>3, <2>1
  <2>3. \A t \in Terminals : shell_exists'[t] <=> t < n
    BY <1>1, <1>3, <1>6 DEF Terminals
  <2>4. \A p \in Pids : pid_array'[p] = 1 <=> p <= n
    BY <1>1, <1>3, <1>5 DEF Pids, PidOrNone
  <2> QED
    BY <1>1, <1>3, <1>5, <1>6, <2>2, <2>3, <2>4 DEF BootInOrder
<1>19. Glue'
  <2>1. \A p \in Allocated' : /\ shell_exists'[home'[p]]
                              /\ parent_pid'[p] = 0 => p = home'[p] + 1
    BY <1>3, <1>5, <1>6, <1>8 DEF Glue, Allocated
  <2> QED
    BY <1>3, <1>5, <1>6, <1>7, <2>1 DEF Glue, Pids
<1> QED
  BY <1>12, <1>13, <1>14, <1>15, <1>16, <1>17, <1>18, <1>19

\* The timer finds a shell on the next terminal only when all of them are up.
LEMMA ShellNextMeansBooted ==
  ASSUME SafeInv, shell_exists[NextTerminal]
  PROVE  Booted /\ cpu # 0
<1>1. ASSUME ~Booted PROVE FALSE
  <2>1. PICK k \in 0..(NTerminals - 1) :
             /\ \A t \in Terminals : shell_exists[t] <=> t < k
             /\ scheduled = IF k = 0 THEN NTerminals - 1 ELSE k - 1
    BY <1>1 DEF SafeInv, Inv, BootInOrder
  <2>2. NextTerminal = k /\ k \in Terminals
    BY <2>1, NextTerminalRotates DEF SafeInv, TypeInv, TypeOK, Terminals
  <2> QED
    BY <2>1, <2>2
<1> QED
  BY <1>1 DEF SafeInv, Inv, Glue

LEMMA SafeInvTickSwitch ==
  ASSUME SafeInv, TickSwitch
  PROVE  Inv'
<1> DEFINE next == NextTerminal
           p == cur_term_pid[next]
<1>0. Booted /\ cpu # 0
  BY ShellNextMeansBooted DEF TickSwitch
<1>1. next \in Terminals /\ shell_exists[next] /\ scheduled \in Terminals
  BY NextTerminalRotates DEF TickSwitch, SafeInv, TypeInv, TypeOK
<1>2. /\ cpu \in Pids /\ pid_array[cpu] = 1 /\ home[cpu] = scheduled
      /\ cur_term_pid[scheduled] = cpu /\ kstack[cpu] = {} /\ boot_flag = 1
  BY <1>0 DEF SafeInv, Inv, CpuCoherent, Glue, TypeInv, TypeOK, Pids, PidOrNone
<1>3. /\ SavedContexts = [ebp_switch EXCEPT ![cpu] = cpu]
      /\ Interrupted = [kstack EXCEPT ![cpu] = {"tick"}]
  BY <1>0, TimerSavesRunning
<1>4. /\ p \in Pids /\ pid_array[p] = 1 /\ home[p] = next
      /\ SavedContexts[p] = p /\ Interrupted[p] = {"tick"}
      /\ p # cpu => kstack[p] = {"tick"}
  <2>1. CASE next = scheduled
    BY <1>2, <1>3, <2>1 DEF SafeInv, TypeInv, TypeOK
  <2>2. CASE next # scheduled
    <3>1. /\ p \in Pids /\ pid_array[p] = 1 /\ home[p] = next
          /\ kstack[p] = {"tick"} /\ ebp_switch[p] = p
      BY <1>1, <2>2 DEF SafeInv, Inv, ContextSaved, Allocated
    <3>2. p # cpu
      BY <1>2, <2>2, <3>1
    <3> QED
      BY <1>3, <3>1, <3>2 DEF SafeInv, TypeInv, TypeOK
  <2> QED
    BY <2>1, <2>2
<1>5. Resume(p, "tick", Interrupted) /\ p # 0
  BY <1>4 DEF TickSwitch
<1>6. cpu' = p /\ crashed' = crashed /\ kstack' = [Interrupted EXCEPT ![p] = {}]
  BY <1>4, <1>5 DEF Resume
<1>7. /\ scheduled' = next /\ esp0' = p /\ current_process' = p /\ current_pid' = p
      /\ task_page' = p /\ ebp_switch' = [ebp_switch EXCEPT ![cpu] = cpu]
      /\ UNCHANGED <<pid_array, parent_pid, ebp, boot_flag, active, shell_exists,
                     cur_term_pid, home>>
  BY <1>3 DEF TickSwitch
<1>8. Allocated' = Allocated
  BY <1>7 DEF Allocated
<1>9. kstack' = [r \in Pids |-> IF r = p THEN {} ELSE IF r = cpu THEN {"tick"} ELSE kstack[r]]
  BY <1>2, <1>3, <1>4, <1>6 DEF SafeInv, TypeInv, TypeOK
<1>10. Booted'
  BY <1>0, <1>7 DEF Booted
<1> USE DEF SafeInv, Inv, TypeInv, TypeOK
<1>11. NoWildReturn' /\ KernelCoherent'
  BY <1>6, <1>7 DEF NoWildReturn, KernelCoherent
<1>12. CpuCoherent'
  BY <1>4, <1>6, <1>7 DEF CpuCoherent
<1>13. CallerWaits'
  <2> SUFFICES ASSUME NEW c \in Allocated, parent_pid[c] # 0
               PROVE  /\ parent_pid[c] \in Allocated
                      /\ home[parent_pid[c]] = home[c]
                      /\ \A r \in Allocated : parent_pid[r] = parent_pid[c] => r = c
                      /\ kstack'[parent_pid[c]] = {"execute"}
                      /\ ebp[parent_pid[c]] = parent_pid[c]
    BY <1>7, <1>8 DEF CallerWaits
  <2>1. /\ parent_pid[c] \in Allocated
        /\ home[parent_pid[c]] = home[c]
        /\ \A r \in Allocated : parent_pid[r] = parent_pid[c] => r = c
        /\ kstack[parent_pid[c]] = {"execute"}
        /\ ebp[parent_pid[c]] = parent_pid[c]
    BY DEF CallerWaits
  <2>2. parent_pid[c] # cpu
    BY <1>2, <2>1
  <2>3. parent_pid[c] # p
    BY <1>4, <2>1, <2>2
  <2> QED
    BY <1>9, <2>1, <2>2, <2>3 DEF Allocated
<1>14. ContextSaved'
  <2> SUFFICES ASSUME NEW t \in Terminals, shell_exists[t], t # next
               PROVE  /\ cur_term_pid[t] \in Allocated
                      /\ home[cur_term_pid[t]] = t
                      /\ kstack'[cur_term_pid[t]] = {"tick"}
                      /\ ebp_switch'[cur_term_pid[t]] = cur_term_pid[t]
    BY <1>7, <1>8 DEF ContextSaved
  <2>1. CASE t = scheduled
    <3>1. cpu # p
      BY <1>2, <1>4, <2>1
    <3> QED
      BY <1>2, <1>7, <1>9, <2>1, <3>1 DEF Allocated
  <2>2. CASE t # scheduled
    <3>1. /\ cur_term_pid[t] \in Allocated
          /\ home[cur_term_pid[t]] = t
          /\ kstack[cur_term_pid[t]] = {"tick"}
          /\ ebp_switch[cur_term_pid[t]] = cur_term_pid[t]
      BY <2>2 DEF ContextSaved
    <3>2. cur_term_pid[t] # cpu /\ cur_term_pid[t] # p
      BY <1>2, <1>4, <2>2, <3>1
    <3> QED
      BY <1>7, <1>9, <3>1, <3>2 DEF Allocated
  <2> QED
    BY <2>1, <2>2
<1>15. NoProgramStranded' /\ BaseShellPids'
  BY <1>7, <1>8 DEF NoProgramStranded, BaseShellPids
<1>16. BootInOrder'
  BY <1>10 DEF BootInOrder
<1>17. Glue'
  <2>1. \A r \in Allocated' : /\ shell_exists'[home'[r]]
                              /\ parent_pid'[r] = 0 => r = home'[r] + 1
    BY <1>7, <1>8 DEF Glue
  <2>2. cpu' # 0 /\ kstack'[cpu'] = {} /\ boot_flag' = 1 /\ shell_exists'[scheduled']
    BY <1>1, <1>2, <1>4, <1>5, <1>6, <1>7, <1>9
  <2> QED
    BY <1>7, <2>1, <2>2 DEF Glue
<1> QED
  BY <1>11, <1>12, <1>13, <1>14, <1>15, <1>16, <1>17

\* The timer's two remaining outcomes do not occur.
\* In those states a tick always has a shell to start or a program to resume.
LEMMA OrderlyTick ==
  ASSUME SafeInv, Tick
  PROVE  TickBoot \/ TickSwitch
<1>1. ~TickFault
  BY DEF TickFault, SaveFaults, SafeInv, Inv, CpuCoherent, Glue
<1>2. ~TickIdle
  <2> SUFFICES ASSUME TickIdle PROVE FALSE
    OBVIOUS
  <2>1. Booted /\ cpu # 0 /\ NextTerminal \in Terminals
    BY ShellNextMeansBooted, NextTerminalRotates DEF TickIdle, SafeInv, TypeInv, TypeOK
  <2>2. shell_exists[NextTerminal] /\ cur_term_pid[NextTerminal] = 0
    BY DEF TickIdle
  <2>3. 0 \notin Allocated
    BY DEF Allocated, Pids
  <2> QED
    BY <2>1, <2>2, <2>3 DEF SafeInv, Inv, ContextSaved, CpuCoherent
<1> QED
  BY <1>1, <1>2 DEF Tick

LEMMA SafeInvTick ==
  ASSUME SafeInv, OrderlyEnvironment, Tick
  PROVE  Inv'
BY OrderlyTick, SafeInvTickBoot, SafeInvTickSwitch

\* A program ends: its caller is the top of the terminal again.
LEMMA SafeInvHaltToParent ==
  ASSUME SafeInv, Booted, NEW status, NEW fault,
         parent_pid[current_process] # 0, HaltToParent(status, fault)
  PROVE  Inv'
<1> DEFINE q == parent_pid[cpu]
<1>0. cpu # 0 /\ current_process = cpu /\ current_pid = cpu
  BY DEF SafeInv, Inv, CpuCoherent, Glue
<1>1. /\ cpu \in Pids /\ pid_array[cpu] = 1 /\ home[cpu] = scheduled /\ cpu \in Allocated
      /\ cur_term_pid[scheduled] = cpu /\ kstack[cpu] = {} /\ scheduled \in Terminals
      /\ shell_exists[scheduled] /\ boot_flag = 1
  BY <1>0 DEF SafeInv, Inv, CpuCoherent, Glue, TypeInv, TypeOK, Pids, PidOrNone, Allocated
<1>2. /\ q # 0 /\ q \in Allocated /\ q \in Pids /\ home[q] = scheduled
      /\ \A r \in Allocated : parent_pid[r] = q => r = cpu
      /\ kstack[q] = {"execute"} /\ ebp[q] = q
  BY <1>0, <1>1 DEF SafeInv, Inv, CallerWaits, Allocated
<1>3. q # cpu
  BY <1>1, <1>2
<1>4. Resume(q, "execute", [kstack EXCEPT ![cpu] = {}])
  BY <1>0, <1>2 DEF HaltToParent
<1>5. [kstack EXCEPT ![cpu] = {}] = kstack
  BY <1>1 DEF SafeInv, TypeInv, TypeOK
<1>6. cpu' = q /\ crashed' = crashed /\ kstack' = [kstack EXCEPT ![q] = {}]
  BY <1>2, <1>4, <1>5 DEF Resume
<1>7. /\ esp0' = q /\ current_process' = q /\ current_pid' = q /\ task_page' = q
      /\ pid_array' = [pid_array EXCEPT ![cpu] = 0]
      /\ cur_term_pid' = [cur_term_pid EXCEPT ![scheduled] = q]
      /\ UNCHANGED <<parent_pid, ebp, ebp_switch, boot_flag, active, scheduled,
                     shell_exists, home>>
  BY <1>0 DEF HaltToParent, FreedByHalt, PageAfterHalt, RecordTerminal
<1>8. \A p : p \in Allocated' <=> p \in Allocated /\ p # cpu
  <2>1. pid_array \in [PidOrNone -> {0, 1}] /\ Pids \subseteq PidOrNone
    BY DEF SafeInv, TypeInv, TypeOK, Pids, PidOrNone
  <2>2. pid_array' = [pid_array EXCEPT ![cpu] = 0]
    BY <1>7
  <2>3. \A p \in Pids : pid_array'[p] = 1 <=> pid_array[p] = 1 /\ p # cpu
    BY <1>1, <2>1, <2>2
  <2> QED
    BY <2>3 DEF Allocated
<1>9. \A r \in Allocated : parent_pid[r] # cpu
  BY <1>0, RunningIsLeaf
<1>10. Booted'
  BY <1>7 DEF Booted
<1> USE DEF SafeInv, Inv, TypeInv, TypeOK
<1>11. NoWildReturn' /\ KernelCoherent'
  BY <1>6, <1>7 DEF NoWildReturn, KernelCoherent
<1>12. CpuCoherent'
  <2>1. pid_array'[q] = 1
    BY <1>2, <1>3, <1>8 DEF Allocated
  <2> QED
    BY <1>1, <1>2, <1>6, <1>7, <2>1 DEF CpuCoherent
<1>13. CallerWaits'
  <2> SUFFICES ASSUME NEW p \in Allocated', parent_pid[p] # 0
               PROVE  /\ parent_pid[p] \in Allocated'
                      /\ home[parent_pid[p]] = home[p]
                      /\ \A r \in Allocated' : parent_pid[r] = parent_pid[p] => r = p
                      /\ kstack'[parent_pid[p]] = {"execute"}
                      /\ ebp[parent_pid[p]] = parent_pid[p]
    BY <1>7 DEF CallerWaits
  <2>1. p \in Allocated /\ p # cpu
    BY <1>8
  <2>2. /\ parent_pid[p] \in Allocated
        /\ home[parent_pid[p]] = home[p]
        /\ \A r \in Allocated : parent_pid[r] = parent_pid[p] => r = p
        /\ kstack[parent_pid[p]] = {"execute"}
        /\ ebp[parent_pid[p]] = parent_pid[p]
    BY <2>1 DEF CallerWaits
  <2>3. parent_pid[p] # cpu /\ parent_pid[p] # q
    BY <1>2, <1>9, <2>1
  <2> QED
    BY <1>6, <1>8, <2>2, <2>3 DEF Allocated
<1>14. ContextSaved'
  <2> SUFFICES ASSUME NEW t \in Terminals, shell_exists[t], t # scheduled
               PROVE  /\ cur_term_pid'[t] \in Allocated'
                      /\ home[cur_term_pid'[t]] = t
                      /\ kstack'[cur_term_pid'[t]] = {"tick"}
                      /\ ebp_switch[cur_term_pid'[t]] = cur_term_pid'[t]
    BY <1>7 DEF ContextSaved
  <2>1. cur_term_pid'[t] = cur_term_pid[t]
    BY <1>7
  <2>2. /\ cur_term_pid[t] \in Allocated
        /\ home[cur_term_pid[t]] = t
        /\ kstack[cur_term_pid[t]] = {"tick"}
        /\ ebp_switch[cur_term_pid[t]] = cur_term_pid[t]
    BY DEF ContextSaved
  <2>3. cur_term_pid[t] # cpu /\ cur_term_pid[t] # q
    BY <1>1, <1>2, <2>2
  <2> QED
    BY <1>6, <1>8, <2>1, <2>2, <2>3
<1>15. NoProgramStranded'
  <2> SUFFICES ASSUME NEW p \in Allocated', \A r \in Allocated' : parent_pid[r] # p
               PROVE  cur_term_pid'[home[p]] = p
    BY <1>7 DEF NoProgramStranded
  <2>1. CASE p = q
    BY <1>1, <1>2, <1>7, <2>1
  <2>2. CASE p # q
    <3>1. p \in Allocated /\ p # cpu /\ p \in Pids
      BY <1>8 DEF Allocated
    <3>2. \A r \in Allocated : parent_pid[r] # p
      BY <1>8, <2>2
    <3>3. cur_term_pid[home[p]] = p
      BY <3>1, <3>2 DEF NoProgramStranded
    <3>4. home[p] # scheduled
      BY <1>1, <3>1, <3>3
    <3> QED
      BY <1>7, <3>3, <3>4
  <2> QED
    BY <2>1, <2>2
<1>16. BaseShellPids'
  BY <1>2, <1>7, <1>8 DEF BaseShellPids
<1>17. BootInOrder'
  BY <1>10 DEF BootInOrder
<1>18. Glue'
  <2>1. \A p \in Allocated' : /\ shell_exists'[home'[p]]
                              /\ parent_pid'[p] = 0 => p = home'[p] + 1
    BY <1>7, <1>8 DEF Glue
  <2>2. cpu' # 0 /\ kstack'[cpu'] = {} /\ boot_flag' = 1 /\ shell_exists'[scheduled']
    BY <1>1, <1>2, <1>6, <1>7
  <2> QED
    BY <1>7, <2>1, <2>2 DEF Glue
<1> QED
  BY <1>11, <1>12, <1>13, <1>14, <1>15, <1>16, <1>17, <1>18

\* A base shell that ends on the displayed terminal is replaced under its own
\* pid: nothing but GOD changes.
LEMMA RestartKeepsEverything ==
  ASSUME SafeInv, OrderlyEnvironment, Booted, NEW fault,
         parent_pid[current_process] = 0, RestartShell(fault)
  PROVE  /\ UNCHANGED <<parent_pid, ebp, ebp_switch, current_pid, current_process,
                        boot_flag, esp0, task_page, terminalVars, cpu, kstack, home, crashed>>
         /\ pid_array' = pid_array
<1>1. cpu # 0 /\ current_process = cpu /\ current_pid = cpu /\ active = scheduled
  BY DEF SafeInv, Inv, CpuCoherent, Glue, RestartShell, OrderlyEnvironment
<1>2. /\ cpu \in Pids /\ cpu \in PidOrNone /\ pid_array[cpu] = 1 /\ home[cpu] = scheduled
      /\ cur_term_pid[scheduled] = cpu /\ kstack[cpu] = {} /\ scheduled \in Terminals
  BY <1>1 DEF SafeInv, Inv, CpuCoherent, Glue, TypeInv, TypeOK, Pids, PidOrNone
<1>3. cpu = scheduled + 1 /\ cpu \in 1..NTerminals
  BY <1>1, <1>2 DEF SafeInv, Inv, Glue, Allocated, Terminals
<1> DEFINE table == [pid_array EXCEPT ![cpu] = 0]
<1>4. RestartedPid = cpu
  BY <1>1, <1>3 DEF RestartedPid
<1>5. PICK n \in PidOrNone :
           /\ IsNextPid(table, n)
           /\ StartProgram(table, "shell", n, scheduled,
                           IF ParentOf("shell", n) >= 1 THEN {"execute"} ELSE {})
  BY <1>4 DEF RestartShell
<1>6. /\ table \in [PidOrNone -> {0, 1}] /\ table[0] = 1
      /\ \A p \in PidOrNone : p # cpu => table[p] = pid_array[p]
      /\ table[cpu] = 0
  BY <1>2 DEF SafeInv, TypeInv, TypeOK, Pids, PidOrNone
<1>7. n \in Pids /\ table[n] = 0
  BY <1>5, <1>6, NextPidIsPid
<1>8. n <= cpu
  BY <1>2, <1>5, <1>6 DEF IsNextPid, FreePids
<1>9. n = cpu
  <2> SUFFICES ASSUME n # cpu PROVE FALSE
    OBVIOUS
  <2>1. pid_array[n] = 0
    BY <1>6, <1>7
  <2>2. n \in 1..NTerminals
    BY <1>3, <1>7, <1>8 DEF Pids
  <2> QED
    BY <1>7, <2>1, <2>2, FreePidIsNoBasePid
<1>10. ParentOf("shell", n) = 0 /\ ~(ParentOf("shell", n) >= 1)
  BY <1>3, <1>9 DEF ParentOf
<1>11. /\ pid_array' = [table EXCEPT ![cpu] = 1]
       /\ parent_pid' = [parent_pid EXCEPT ![cpu] = 0]
       /\ ebp' = ebp
       /\ cur_term_pid' = [cur_term_pid EXCEPT ![scheduled] = cpu]
       /\ kstack' = [p \in Pids |-> IF p = cpu THEN {} ELSE IF p = cpu THEN {} ELSE kstack[p]]
       /\ home' = [home EXCEPT ![cpu] = scheduled]
       /\ current_pid' = cpu /\ current_process' = cpu /\ esp0' = cpu /\ task_page' = cpu
       /\ cpu' = cpu
  BY <1>5, <1>9, <1>10, Zenon DEF StartProgram, RecordTerminal
<1>12. UNCHANGED <<ebp_switch, boot_flag, active, scheduled, shell_exists, crashed>>
  BY DEF RestartShell
<1>13. esp0 = cpu /\ task_page = cpu
  BY <1>1 DEF SafeInv, Inv, KernelCoherent
<1>14. pid_array' = pid_array /\ parent_pid' = parent_pid /\ home' = home
  BY <1>1, <1>2, <1>11 DEF SafeInv, TypeInv, TypeOK
<1>15. kstack' = kstack /\ cur_term_pid' = cur_term_pid
  BY <1>2, <1>11 DEF SafeInv, TypeInv, TypeOK
<1> QED
  BY <1>1, <1>11, <1>12, <1>13, <1>14, <1>15 DEF terminalVars

\* Steps that change none of the variables Inv speaks of.
LEMMA SafeInvUnchanged ==
  ASSUME SafeInv, Booted \/ active' = active,
         UNCHANGED <<pid_array, parent_pid, ebp, ebp_switch, current_pid, current_process,
                     boot_flag, esp0, task_page, scheduled, shell_exists, cur_term_pid,
                     cpu, kstack, home, crashed>>
  PROVE  Inv'
<1>1. Allocated' = Allocated /\ (Booted' <=> Booted)
  BY DEF Allocated, Booted
<1> USE DEF SafeInv, Inv
<1>2. NoWildReturn' /\ KernelCoherent' /\ CpuCoherent'
  BY <1>1 DEF NoWildReturn, KernelCoherent, CpuCoherent
<1>3. Glue'
  <2>1. Glue
    OBVIOUS
  <2> QED
    BY <1>1, <2>1 DEF Glue
<1>4. CallerWaits' /\ ContextSaved'
  BY <1>1 DEF CallerWaits, ContextSaved
<1>5. NoProgramStranded' /\ BaseShellPids'
  BY <1>1 DEF NoProgramStranded, BaseShellPids
<1>6. BootInOrder'
  BY <1>1 DEF BootInOrder
<1> QED
  BY <1>2, <1>3, <1>4, <1>5, <1>6

LEMMA SafeInvHalt ==
  ASSUME SafeInv, OrderlyEnvironment, (\E status \in Status : Halt(status)) \/ Exception
  PROVE  Inv'
<1>1. Booted
  BY DEF Halt, Exception, Running, OrderlyEnvironment
<1>2. CASE parent_pid[current_process] = 0
  <2>1. PICK fault : RestartShell(fault)
    BY <1>2 DEF Halt, Exception
  <2> QED
    BY <1>1, <1>2, <2>1, RestartKeepsEverything, SafeInvUnchanged DEF terminalVars
<1>3. CASE parent_pid[current_process] # 0
  <2>1. PICK status, fault : HaltToParent(status, fault)
    BY <1>3 DEF Halt, Exception
  <2> QED
    BY <1>1, <1>3, <2>1, SafeInvHaltToParent
<1> QED
  BY <1>2, <1>3

LEMMA SafeInvNext ==
  ASSUME SafeInv, OrderlyEnvironment, [Next]_vars
  PROVE  SafeInv'
<1>1. TypeInv'
  BY TypeInvNext DEF SafeInv
<1>2. Inv'
  <2>1. CASE ExecuteInvalid \/ ExecuteFull
    <3>1. UNCHANGED <<kernelVars, terminalVars, cpu, kstack, home, crashed>>
      BY <2>1 DEF ExecuteInvalid, ExecuteFull
    <3> QED
      BY <3>1, SafeInvUnchanged DEF kernelVars, terminalVars
  <2>2. CASE \E t \in Terminals : SwitchTerminal(t)
    <3>1. Booted
      BY <2>2 DEF SwitchTerminal, Running, OrderlyEnvironment
    <3>2. UNCHANGED <<kernelVars, scheduled, shell_exists, cur_term_pid, ghostVars>>
      BY <2>2 DEF SwitchTerminal
    <3> QED
      BY <3>1, <3>2, SafeInvUnchanged DEF kernelVars, ghostVars
  <2>3. CASE UNCHANGED vars
    <3>1. UNCHANGED <<kernelVars, terminalVars, ghostVars>>
      BY <2>3 DEF vars
    <3> QED
      BY <3>1, SafeInvUnchanged DEF kernelVars, terminalVars, ghostVars
  <2>4. CASE \E file \in Files : Execute(file)
    BY <2>4, SafeInvExecute
  <2>5. CASE Tick
    BY <2>5, SafeInvTick
  <2>6. CASE (\E status \in Status : Halt(status)) \/ Exception
    BY <2>6, SafeInvHalt
  <2> QED
    BY <2>1, <2>2, <2>3, <2>4, <2>5, <2>6 DEF Next
<1> QED
  BY <1>1, <1>2 DEF SafeInv

\* With an orderly environment the inductive invariant holds for ever.
THEOREM InvHolds ==
  ASSUME OrderlyEnvironment
  PROVE  Spec => [](TypeInv /\ Inv)
<1>1. Init => SafeInv
  BY SafeInvInit
<1>2. SafeInv /\ [Next]_vars => SafeInv'
  BY SafeInvNext
<1>3. SafeInv => TypeInv /\ Inv
  BY DEF SafeInv
<1> QED
  BY <1>1, <1>2, <1>3, PTL DEF Spec

\* halt and the scheduler never return through a frame that is gone.
THEOREM NeverWild ==
  ASSUME OrderlyEnvironment PROVE Spec => []NoWildReturn
<1>1. TypeInv /\ Inv => NoWildReturn
  BY DEF Inv
<1> QED
  BY <1>1, InvHolds, PTL

\* The program that runs is the current one and its terminal's own.
THEOREM AlwaysCoherent ==
  ASSUME OrderlyEnvironment PROVE Spec => []CpuCoherent
<1>1. TypeInv /\ Inv => CpuCoherent
  BY DEF Inv
<1> QED
  BY <1>1, InvHolds, PTL

\* The caller of every program waits for it and for it only.
THEOREM CallersAlwaysWait ==
  ASSUME OrderlyEnvironment PROVE Spec => []CallerWaits
<1>1. TypeInv /\ Inv => CallerWaits
  BY DEF Inv
<1> QED
  BY <1>1, InvHolds, PTL

\* Every terminal that is not scheduled can be resumed.
THEOREM ContextAlwaysSaved ==
  ASSUME OrderlyEnvironment PROVE Spec => []ContextSaved
<1>1. TypeInv /\ Inv => ContextSaved
  BY DEF Inv
<1> QED
  BY <1>1, InvHolds, PTL

\* No program is lost to the scheduler and to halt.
THEOREM NoneStranded ==
  ASSUME OrderlyEnvironment PROVE Spec => []NoProgramStranded
<1>1. TypeInv /\ Inv => NoProgramStranded
  BY DEF Inv
<1> QED
  BY <1>1, InvHolds, PTL

\* A base shell keeps the pid of its terminal.
THEOREM BaseShellsKeepPids ==
  ASSUME OrderlyEnvironment PROVE Spec => []BaseShellPids
<1>1. TypeInv /\ Inv => BaseShellPids
  BY DEF Inv
<1> QED
  BY <1>1, InvHolds, PTL

-----------------------------------------------------------------------------
(* Action properties.                                                      *)

\* The four actions that leave the process table and the labels alone, or only
\* add to them.
LEMMA TableKept ==
  ASSUME TypeInv, ExecuteInvalid \/ ExecuteFull \/ TickFault \/ TickSwitch \/ TickIdle
                  \/ (\E t \in Terminals : SwitchTerminal(t)) \/ UNCHANGED vars
  PROVE  pid_array' = pid_array /\ home' = home
BY DEF ExecuteInvalid, ExecuteFull, TickFault, TickSwitch, TickIdle, SwitchTerminal,
       kernelVars, ghostVars, vars

\* Starting a program frees no pid and moves no program to another terminal.
LEMMA TableGrows ==
  ASSUME TypeInv, (\E file \in Files : Execute(file)) \/ TickBoot
  PROVE  \A p \in Allocated : pid_array'[p] = 1 /\ home'[p] = home[p]
<1> SUFFICES ASSUME NEW p \in Allocated
             PROVE  pid_array'[p] = 1 /\ home'[p] = home[p]
  OBVIOUS
<1>0. p \in Pids /\ p \in PidOrNone /\ pid_array[p] = 1
  BY DEF Allocated, Pids, PidOrNone
<1>1. CASE \E n \in PidOrNone : \E file, t, left :
             /\ IsNextPid(pid_array, n)
             /\ StartProgram(pid_array, file, n, t, left)
  <2>0. PICK n \in PidOrNone : \E file, t, left :
               /\ IsNextPid(pid_array, n)
               /\ StartProgram(pid_array, file, n, t, left)
    BY <1>1
  <2>1. PICK file, t, left :
               /\ IsNextPid(pid_array, n)
               /\ StartProgram(pid_array, file, n, t, left)
    BY <2>0
  <2>2. pid_array[n] = 0
    BY <2>1 DEF IsNextPid, FreePids
  <2>3. pid_array' = [pid_array EXCEPT ![n] = 1] /\ home' = [home EXCEPT ![n] = t]
    BY <2>1 DEF StartProgram
  <2> QED
    BY <1>0, <2>2, <2>3 DEF TypeInv, TypeOK
<1>2. CASE pid_array' = pid_array /\ home' = home
  BY <1>0, <1>2
<1>3. CASE \E file \in Files : Execute(file)
  BY <1>1, <1>3 DEF Execute
<1>4. CASE TickBoot
  BY <1>1, <1>2, <1>4 DEF TickBoot
<1> QED
  BY <1>3, <1>4

\* With an orderly environment, a pid in use stays with its terminal.
THEOREM PidsStay ==
  ASSUME OrderlyEnvironment PROVE Spec => PidStaysWithTerminal
<1>1. SafeInv /\ [Next]_vars => [\A p \in Allocated : home'[p] = home[p]]_vars
  <2> SUFFICES ASSUME SafeInv, [Next]_vars
               PROVE  \A p \in Allocated : home'[p] = home[p]
    OBVIOUS
  <2>1. CASE (\E status \in Status : Halt(status)) \/ Exception
    <3>1. Booted
      BY <2>1 DEF Halt, Exception, Running, OrderlyEnvironment
    <3>2. CASE parent_pid[current_process] = 0
      <4>1. PICK fault : RestartShell(fault)
        BY <2>1, <3>2 DEF Halt, Exception
      <4> QED
        BY <3>1, <3>2, <4>1, RestartKeepsEverything
    <3>3. CASE parent_pid[current_process] # 0
      BY <2>1, <3>3 DEF Halt, Exception, HaltToParent
    <3> QED
      BY <3>2, <3>3
  <2>2. TypeInv
    BY DEF SafeInv
  <2> QED
    BY <2>1, <2>2, TableKept, TableGrows DEF Next, Tick
<1>2. SafeInv <=> TypeInv /\ Inv
  BY DEF SafeInv
<1> QED
  BY <1>1, <1>2, InvHolds, PTL DEF PidStaysWithTerminal, Spec

\* What the end of a program does to the processor, the caller and the table.
LEMMA HaltReturns ==
  ASSUME SafeInv, cpu # 0, NEW status, NEW fault,
         parent_pid[current_process] # 0, HaltToParent(status, fault)
  PROVE  /\ cpu' = parent_pid[cpu]
         /\ answer'.to = parent_pid[cpu]
         /\ answer'.value = HaltValue(status, fault)
         /\ answer'.cause = IF fault THEN "exception" ELSE "halt"
         /\ pid_array' = [pid_array EXCEPT ![cpu] = 0]
         /\ cur_term_pid' = [cur_term_pid EXCEPT ![scheduled] = parent_pid[cpu]]
<1> DEFINE q == parent_pid[cpu]
<1>0. cpu # 0 /\ current_process = cpu /\ current_pid = cpu /\ cpu \in Allocated
  BY DEF SafeInv, Inv, CpuCoherent, Glue, Allocated, TypeInv, TypeOK, Pids, PidOrNone
<1>1. q # 0 /\ q \in Allocated /\ kstack[q] = {"execute"} /\ ebp[q] = q
  BY <1>0 DEF SafeInv, Inv, CallerWaits
<1>2. kstack[cpu] = {} /\ q # cpu
  BY <1>0, <1>1 DEF SafeInv, Inv, Glue
<1>3. [kstack EXCEPT ![cpu] = {}][q] = {"execute"}
  BY <1>1, <1>2 DEF SafeInv, TypeInv, TypeOK, Allocated
<1>4. Resume(q, "execute", [kstack EXCEPT ![cpu] = {}])
  BY <1>0, <1>1 DEF HaltToParent
<1>5. cpu' = q
  BY <1>1, <1>3, <1>4 DEF Resume
<1>6. answer' = [to |-> q, value |-> HaltValue(status, fault),
                 cause |-> IF fault THEN "exception" ELSE "halt"]
  BY <1>0, <1>1, <1>3 DEF HaltToParent
<1> QED
  BY <1>0, <1>5, <1>6 DEF HaltToParent, FreedByHalt, RecordTerminal

\* With an orderly environment, only the program that runs gives up its pid, and
\* then its caller, and nobody else, gets the processor and the answer.
THEOREM AlwaysReturnsToCaller ==
  ASSUME OrderlyEnvironment PROVE Spec => ReturnsToCaller
<1> DEFINE Returned(p) ==
             /\ p = cpu
             /\ cpu' = parent_pid[p]
             /\ answer'.to = parent_pid[p]
             /\ cur_term_pid' = [cur_term_pid EXCEPT ![scheduled] = parent_pid[p]]
<1>1. ASSUME SafeInv, [Next]_vars, NEW p \in Pids, pid_array[p] = 1, pid_array'[p] = 0
      PROVE  Returned(p)
  <2>1. TypeInv /\ p \in Allocated /\ p \in PidOrNone
    BY <1>1 DEF SafeInv, Allocated, Pids, PidOrNone
  <2>2. (\E status \in Status : Halt(status)) \/ Exception
    BY <1>1, <2>1, TableKept, TableGrows DEF Next, Tick
  <2>3. Booted /\ cpu # 0
    BY <2>2 DEF Halt, Exception, Running, OrderlyEnvironment
  <2>4. CASE parent_pid[current_process] = 0
    <3>1. PICK fault : RestartShell(fault)
      BY <2>2, <2>4 DEF Halt, Exception
    <3>2. pid_array' = pid_array
      BY <1>1, <2>3, <2>4, <3>1, RestartKeepsEverything
    <3> QED
      BY <1>1, <3>2
  <2>5. CASE parent_pid[current_process] # 0
    <3>1. PICK status, fault : HaltToParent(status, fault)
      BY <2>2, <2>5 DEF Halt, Exception
    <3>2. /\ cpu' = parent_pid[cpu]
          /\ answer'.to = parent_pid[cpu]
          /\ pid_array' = [pid_array EXCEPT ![cpu] = 0]
          /\ cur_term_pid' = [cur_term_pid EXCEPT ![scheduled] = parent_pid[cpu]]
      BY <1>1, <2>3, <2>5, <3>1, HaltReturns
    <3>3. p = cpu
      BY <1>1, <2>1, <3>2 DEF TypeInv, TypeOK
    <3> QED
      BY <3>2, <3>3
  <2> QED
    BY <2>4, <2>5
<1>2. TypeInv /\ Inv /\ [Next]_vars =>
        [\A p \in Pids : pid_array[p] = 1 /\ pid_array'[p] = 0 => Returned(p)]_vars
  BY <1>1 DEF SafeInv
<1>3. [][\A p \in Pids : pid_array[p] = 1 /\ pid_array'[p] = 0 => Returned(p)]_vars
        => ReturnsToCaller
  BY PTL DEF ReturnsToCaller
<1> QED
  BY <1>2, <1>3, InvHolds, PTL DEF Spec

-----------------------------------------------------------------------------
(* Properties that hold in every environment.                              *)

\* The current pid, PCB, kernel stack and memory page never come apart.
THEOREM AlwaysKernelCoherent == Spec => []KernelCoherent
<1> DEFINE I == TypeInv /\ KernelCoherent
<1>1. Init => I
  BY TypeInvInit DEF Init, KernelCoherent
<1>2. I /\ [Next]_vars => KernelCoherent'
  <2> SUFFICES ASSUME I, [Next]_vars PROVE KernelCoherent'
    OBVIOUS
  <2>1. CASE \E table, file, n, t, left : StartProgram(table, file, n, t, left)
    BY <2>1 DEF StartProgram, KernelCoherent
  <2>2. CASE UNCHANGED <<current_pid, current_process, esp0, task_page>>
    BY <2>2 DEF KernelCoherent
  <2>3. CASE TickSwitch
    BY <2>3 DEF TickSwitch, KernelCoherent
  <2>4. CASE \E status, fault : HaltToParent(status, fault)
    BY <2>4 DEF HaltToParent, PageAfterHalt, KernelCoherent
  <2>5. CASE TickFault \/ TickIdle \/ ExecuteInvalid \/ ExecuteFull
             \/ (\E t \in Terminals : SwitchTerminal(t)) \/ UNCHANGED vars
    BY <2>2, <2>5 DEF TickFault, TickIdle, ExecuteInvalid, ExecuteFull, SwitchTerminal,
       kernelVars, vars
  <2>6. CASE TickBoot
    BY <2>1, <2>2, <2>6 DEF TickBoot
  <2>7. CASE \E file \in Files : Execute(file)
    BY <2>1, <2>7 DEF Execute
  <2>8. CASE (\E status \in Status : Halt(status)) \/ Exception
    <3>1. (\E fault : RestartShell(fault)) \/ (\E status, fault : HaltToParent(status, fault))
      BY <2>8 DEF Halt, Exception
    <3> QED
      BY <2>1, <2>4, <3>1 DEF RestartShell
  <2> QED
    BY <2>3, <2>5, <2>6, <2>7, <2>8 DEF Next, Tick
<1>3. TypeInv /\ [Next]_vars => TypeInv'
  BY TypeInvNext
<1> QED
  BY <1>1, <1>2, <1>3, PTL DEF Spec

\* Only the end of a base shell leaves GOD set.
LEMMA GodStaysDown ==
  ASSUME ~ShellFaults
  PROVE  ~GOD /\ [Next]_vars => ~GOD'
<1> SUFFICES ASSUME ~GOD, [Next]_vars PROVE ~GOD'
  OBVIOUS
<1>1. CASE Exception
  BY <1>1 DEF Exception, HaltToParent
<1>2. CASE \E status \in Status : Halt(status)
  BY <1>2 DEF Halt, HaltToParent, RestartShell
<1>3. CASE Tick \/ (\E file \in Files : Execute(file)) \/ ExecuteInvalid \/ ExecuteFull
           \/ (\E t \in Terminals : SwitchTerminal(t)) \/ UNCHANGED vars
  BY <1>3 DEF Tick, TickFault, TickBoot, TickSwitch, TickIdle, Execute, ExecuteInvalid,
     ExecuteFull, SwitchTerminal, kernelVars, ghostVars, vars
<1> QED
  BY <1>1, <1>2, <1>3 DEF Next

\* If no base shell faults, GOD is down whenever a program halts, so execute
\* returns 256 for the programs that an exception ended and for no other.
THEOREM ExceptionToldApart ==
  ASSUME ~ShellFaults PROVE Spec => []AnswerTellsException
<1> DEFINE I == ~GOD /\ AnswerTellsException
<1>1. Init => I
  BY DEF Init, AnswerTellsException, EXCEPTION
<1>2. I /\ [Next]_vars => I'
  <2> SUFFICES ASSUME I, [Next]_vars PROVE I'
    OBVIOUS
  <2>1. CASE UNCHANGED <<GOD, answer>>
    BY <2>1 DEF AnswerTellsException
  <2>2. CASE ExecuteInvalid \/ ExecuteFull
    BY <2>2 DEF ExecuteInvalid, ExecuteFull, kernelVars, AnswerTellsException,
       EXCEPTION, INVALID
  <2>3. CASE \E status \in Status : HaltToParent(status, FALSE)
    <3>1. PICK status \in Status : HaltToParent(status, FALSE)
      BY <2>3
    <3>2. status \in 0..255
      OBVIOUS
    <3>3. CASE answer' = answer
      BY <3>1, <3>3 DEF HaltToParent, AnswerTellsException
    <3>4. CASE answer' # answer
      <4>1. GOD' = FALSE /\ answer'.value = status /\ answer'.cause = "halt"
        BY <3>1, <3>4 DEF HaltToParent, HaltValue
      <4>2. answer'.value \in 0..255 /\ answer'.value # 256
        BY <3>2, <4>1
      <4>3. AnswerTellsException'
        BY <4>1, <4>2 DEF AnswerTellsException, EXCEPTION
      <4> QED
        BY <4>1, <4>3
    <3> QED
      BY <3>3, <3>4
  <2>4. CASE HaltToParent(0, TRUE)
    <3>1. HaltValue(0, TRUE) = EXCEPTION
      BY DEF HaltValue
    <3>2. CASE answer' = answer
      BY <2>4, <3>2 DEF HaltToParent, AnswerTellsException
    <3>3. CASE answer' # answer
      <4>1. GOD' = FALSE /\ answer'.value = HaltValue(0, TRUE) /\ answer'.cause = "exception"
        BY <2>4, <3>3 DEF HaltToParent
      <4> QED
        BY <3>1, <4>1 DEF AnswerTellsException
    <3> QED
      BY <3>2, <3>3
  <2>5. CASE RestartShell(FALSE)
    <3>1. answer' = answer /\ ~GOD'
      BY <2>5 DEF RestartShell
    <3> QED
      BY <3>1 DEF AnswerTellsException
  <2>6. CASE Tick \/ (\E file \in Files : Execute(file))
             \/ (\E t \in Terminals : SwitchTerminal(t)) \/ UNCHANGED vars
    BY <2>1, <2>6 DEF Tick, TickFault, TickBoot, TickSwitch, TickIdle, Execute,
       SwitchTerminal, kernelVars, ghostVars, vars
  <2>7. CASE \E status \in Status : Halt(status)
    BY <2>3, <2>5, <2>7 DEF Halt
  <2>8. CASE Exception
    <3>1. HaltToParent(0, TRUE)
      BY <2>8, Zenon DEF Exception
    <3> QED
      BY <2>4, <3>1, Zenon
  <2> QED
    BY <2>2, <2>6, <2>7, <2>8 DEF Next
<1> QED
  BY <1>1, <1>2, PTL DEF Spec

-----------------------------------------------------------------------------
(* Induction.                                                              *)

\* Every set of numbers but the empty one has a least element.
LEMMA Least ==
  ASSUME NEW T, T \subseteq Nat, T # {}
  PROVE  \E x \in T : \A y \in T : x <= y
<1>1. PICK R : R = OpToRel(<, Nat)
  BY Zenon
<1>2. PICK x \in T : \A y \in T : ~(<<y, x>> \in R)
  BY <1>1, NatLessThanWellFounded, WFMin, Zenon
<1>3. \A y, z \in Nat : y < z => <<y, z>> \in R
  BY <1>1 DEF OpToRel
<1>4. ASSUME NEW y \in T PROVE x <= y
  <2>1. x \in Nat /\ y \in Nat
    OBVIOUS
  <2>2. ~(y < x)
    BY <1>2, <1>3, <2>1
  <2> QED
    BY <2>1, <2>2
<1> QED
  BY <1>4

\* Induction, for a property that is a set.
LEMMA Induction ==
  ASSUME NEW T, 0 \in T, \A n \in Nat : n \in T => n + 1 \in T
  PROVE  \A n \in Nat : n \in T
<1>1. SUFFICES ASSUME NEW m \in Nat, m \notin T PROVE FALSE
  OBVIOUS
<1>2. PICK U : U = {n \in Nat : n \notin T}
  OBVIOUS
<1>3. PICK x \in U : \A y \in U : x <= y
  BY <1>1, <1>2, Least
<1>4. x \in Nat /\ x # 0 /\ x - 1 \in Nat /\ x - 1 \notin U
  BY <1>2, <1>3
<1>5. x - 1 \in T /\ (x - 1) + 1 = x
  BY <1>2, <1>4
<1> QED
  BY <1>2, <1>3, <1>4, <1>5

-----------------------------------------------------------------------------
(* The stack of a terminal.                                                *)

\* The definition of PathTo.
StackStep(path, parent, n) ==
  [p \in Pids |-> IF n = 0 \/ parent[p] = 0 THEN <<p>> ELSE Append(path[n - 1][parent[p]], p)]
IsPathTo(path, parent) == path = [n \in PidOrNone |-> StackStep(path, parent, n)]

LEMMA PathExists ==
  ASSUME NEW parent
  PROVE  \E path : IsPathTo(path, parent)
<1> DEFINE UpTo(k, path) == \A n \in 0..k : path[n] = StackStep(path, parent, n)
           T == {k \in Nat : \E path : UpTo(k, path)}
<1>1. 0 \in T
  <2>1. PICK path : path = [n \in {0} |-> [p \in Pids |-> <<p>>]]
    OBVIOUS
  <2>2. path[0] = StackStep(path, parent, 0)
    BY <2>1 DEF StackStep
  <2>3. UpTo(0, path)
    BY <2>2
  <2> QED
    BY <2>3
<1>2. ASSUME NEW k \in Nat, k \in T PROVE k + 1 \in T
  <2>1. PICK path : UpTo(k, path)
    BY <1>2
  <2>2. PICK new : new = StackStep(path, parent, k + 1)
    OBVIOUS
  <2>3. PICK longer : longer = [n \in 0..(k + 1) |-> IF n = k + 1 THEN new ELSE path[n]]
    OBVIOUS
  <2>4. longer[k + 1] = new /\ \A n \in 0..k : longer[n] = path[n]
    BY <2>3
  <2>5. ASSUME NEW n \in 0..(k + 1) PROVE longer[n] = StackStep(longer, parent, n)
    <3>1. CASE n = 0
      <4>1. longer[0] = StackStep(path, parent, 0)
        BY <2>1, <2>4
      <4> QED
        BY <3>1, <4>1 DEF StackStep
    <3>2. CASE n # 0
      <4>1. n - 1 \in 0..k /\ longer[n - 1] = path[n - 1]
        BY <2>4, <3>2
      <4>2. longer[n] = StackStep(path, parent, n)
        BY <2>1, <2>2, <2>4
      <4> QED
        BY <4>1, <4>2 DEF StackStep
    <3> QED
      BY <3>1, <3>2
  <2> QED
    BY <2>5
<1> HIDE DEF T
<1>3. NPids \in T
  BY <1>1, <1>2, Induction
<1>4. PICK path : \A n \in 0..NPids : path[n] = StackStep(path, parent, n)
  BY <1>3 DEF T
<1>5. PICK f : f = [n \in PidOrNone |-> path[n]]
  OBVIOUS
<1>6. ASSUME NEW n \in PidOrNone PROVE path[n] = StackStep(f, parent, n)
  <2>1. n \in 0..NPids /\ path[n] = StackStep(path, parent, n)
    BY <1>4 DEF PidOrNone
  <2>2. n # 0 => f[n - 1] = path[n - 1]
    BY <1>5, <2>1 DEF PidOrNone
  <2> QED
    BY <2>1, <2>2 DEF StackStep
<1>7. f = [n \in PidOrNone |-> StackStep(f, parent, n)]
  BY <1>5, <1>6
<1> QED
  BY <1>7 DEF IsPathTo

LEMMA PathUnfolds ==
  ASSUME NEW parent, NEW n \in PidOrNone, NEW p \in Pids
  PROVE  PathTo(parent)[n][p] =
           IF n = 0 \/ parent[p] = 0 THEN <<p>> ELSE Append(PathTo(parent)[n - 1][parent[p]], p)
<1>1. \E path : IsPathTo(path, parent)
  BY PathExists
<1>2. IsPathTo(PathTo(parent), parent)
  BY <1>1, Zenon DEF PathTo, IsPathTo, StackStep
<1>3. PICK path : path = PathTo(parent)
  OBVIOUS
<1>4. PICK right : right = path
  OBVIOUS
<1>5. path = [m \in PidOrNone |-> StackStep(right, parent, m)]
  BY <1>2, <1>3, <1>4 DEF IsPathTo
<1>6. path[n] = StackStep(right, parent, n)
  BY <1>5
<1>7. path[n][p] = IF n = 0 \/ parent[p] = 0 THEN <<p>> ELSE Append(right[n - 1][parent[p]], p)
  BY <1>6 DEF StackStep
<1> QED
  BY <1>3, <1>4, <1>7


\* A stack of programs in use: a base shell, each program called by the one
\* before it, p on top.
Chain(s, p, parent, used) ==
  /\ s \in Seq(used) /\ s # <<>> /\ s[Len(s)] = p
  /\ parent[s[1]] = 0
  /\ \A i \in 1..(Len(s) - 1) : parent[s[i + 1]] = s[i]
  /\ \A i, j \in 1..Len(s) : s[i] = s[j] => i = j

LEMMA ChainIsShort ==
  ASSUME NEW used \in SUBSET Pids, NEW s \in Seq(used),
         \A i, j \in 1..Len(s) : s[i] = s[j] => i = j
  PROVE  Len(s) <= NPids
<1>1. PICK n \in Nat : n = Len(s)
  OBVIOUS
<1>2. \A i \in 1..n : s[i] \in 1..NPids
  <2>1. \A i \in 1..Len(s) : s[i] \in used
    BY ElementOfSeq
  <2> QED
    BY <1>1, <2>1 DEF Pids
<1>3. PICK f \in [1..n -> 1..NPids] : f = [i \in 1..n |-> s[i]]
  BY <1>2
<1>4. IsFiniteSet(1..NPids) /\ Cardinality(1..NPids) = NPids
  <2>1. /\ IsFiniteSet(1..NPids)
        /\ Cardinality(1..NPids) = IF 1 > NPids THEN 0 ELSE NPids - 1 + 1
    BY FS_Interval
  <2> QED
    BY <2>1
<1>5. IsFiniteSet(1..n) /\ Cardinality(1..n) = n
  <2>1. /\ IsFiniteSet(1..n)
        /\ Cardinality(1..n) = IF 1 > n THEN 0 ELSE n - 1 + 1
    BY FS_Interval
  <2> QED
    BY <2>1
<1>6. ASSUME NPids < n PROVE FALSE
  <2>0. Cardinality(1..NPids) < Cardinality(1..n)
    BY <1>4, <1>5, <1>6
  <2>1. PICK i \in 1..n, j \in 1..n : i # j /\ f[i] = f[j]
    BY <1>4, <1>5, <2>0, FS_PigeonHole
  <2> QED
    BY <1>1, <1>3, <2>1
<1> QED
  BY <1>1, <1>6

\* What is at the bottom of a stack.
LEMMA Prefix ==
  ASSUME NEW S, NEW s \in Seq(S), NEW k \in 0..Len(s)
  PROVE  /\ SubSeq(s, 1, k) \in Seq(S) /\ Len(SubSeq(s, 1, k)) = k
         /\ \A i \in 1..k : SubSeq(s, 1, k)[i] = s[i]
<1>1. \A i \in 1..k : s[i] \in S
  BY ElementOfSeq
<1>2. /\ SubSeq(s, 1, k) \in Seq(S)
      /\ Len(SubSeq(s, 1, k)) = IF 1 <= k THEN k - 1 + 1 ELSE 0
      /\ \A i \in 1..(k - 1 + 1) : SubSeq(s, 1, k)[i] = s[1 + i - 1]
  BY <1>1, SubSeqProperties
<1>3. k - 1 + 1 = k /\ \A i \in 1..k : 1 + i - 1 = i
  OBVIOUS
<1> QED
  BY <1>2, <1>3

LEMMA PrefixGrows ==
  ASSUME NEW S, NEW s \in Seq(S), NEW k \in 0..(Len(s) - 1)
  PROVE  SubSeq(s, 1, k + 1) = Append(SubSeq(s, 1, k), s[k + 1])
<1>1. PICK r \in Seq(S) : /\ r = SubSeq(s, 1, k + 1) /\ Len(r) = k + 1
                          /\ \A j \in 1..(k + 1) : r[j] = s[j]
  <2>1. k + 1 \in 0..Len(s)
    OBVIOUS
  <2>2. /\ SubSeq(s, 1, k + 1) \in Seq(S) /\ Len(SubSeq(s, 1, k + 1)) = k + 1
        /\ \A i \in 1..(k + 1) : SubSeq(s, 1, k + 1)[i] = s[i]
    BY <2>1, Prefix
  <2> QED
    BY <2>2
<1>2. PICK q \in Seq(S) : /\ q = SubSeq(s, 1, k) /\ Len(q) = k
                          /\ \A j \in 1..k : q[j] = s[j]
  <2>1. k \in 0..Len(s)
    OBVIOUS
  <2>2. /\ SubSeq(s, 1, k) \in Seq(S) /\ Len(SubSeq(s, 1, k)) = k
        /\ \A i \in 1..k : SubSeq(s, 1, k)[i] = s[i]
    BY <2>1, Prefix
  <2> QED
    BY <2>2
<1>3. PICK e \in S : e = s[k + 1]
  <2>1. k + 1 \in 1..Len(s)
    OBVIOUS
  <2> QED
    BY <2>1, ElementOfSeq
<1>4. PICK a \in Seq(S) : /\ a = Append(q, e) /\ Len(a) = k + 1
                          /\ \A j \in 1..k : a[j] = q[j]
                          /\ a[k + 1] = e
  <2>1. /\ Append(q, e) \in Seq(S)
        /\ Len(Append(q, e)) = Len(q) + 1
        /\ \A i \in 1..Len(q) : Append(q, e)[i] = q[i]
        /\ Append(q, e)[Len(q) + 1] = e
    BY AppendProperties
  <2> QED
    BY <1>2, <2>1
<1>5. \A j \in 1..Len(r) : r[j] = a[j]
  BY <1>1, <1>2, <1>3, <1>4
<1>6. r = a
  BY <1>1, <1>4, <1>5, SeqEqual
<1> QED
  BY <1>1, <1>2, <1>3, <1>4, <1>6

\* PathTo finds it.
LEMMA ChainIsPath ==
  ASSUME NEW parent, NEW used \in SUBSET Pids, NEW s, NEW p,
         Chain(s, p, parent, used)
  PROVE  PathTo(parent)[NPids][p] = s
<1>1. /\ s \in Seq(used) /\ Len(s) \in Nat \ {0} /\ s[Len(s)] = p /\ Len(s) <= NPids
      /\ \A i \in 1..Len(s) : s[i] \in used /\ s[i] \in Pids /\ s[i] # 0
  <2>1. s \in Seq(used) /\ s # <<>> /\ s[Len(s)] = p
    BY DEF Chain
  <2>2. Len(s) <= NPids
    BY <2>1, ChainIsShort DEF Chain
  <2>3. \A i \in 1..Len(s) : s[i] \in used
    BY <2>1, ElementOfSeq
  <2>4. 0 \notin Pids
    BY DEF Pids
  <2>5. Len(s) \in Nat \ {0}
    BY <2>1
  <2> QED
    BY <2>1, <2>2, <2>3, <2>4, <2>5
<1>2. PICK path : path = PathTo(parent)
  OBVIOUS
<1>3. \A n \in PidOrNone : \A q \in Pids :
        path[n][q] = IF n = 0 \/ parent[q] = 0 THEN <<q>> ELSE Append(path[n - 1][parent[q]], q)
  BY <1>2, PathUnfolds
<1> DEFINE T == {i \in Nat : i + 1 <= Len(s) =>
                    \A n \in PidOrNone : n >= i => path[n][s[i + 1]] = SubSeq(s, 1, i + 1)}
<1>4. 0 \in T
  <2>1. SubSeq(s, 1, 1) = <<s[1]>>
    <3>1. /\ SubSeq(s, 1, 1) \in Seq(used) /\ Len(SubSeq(s, 1, 1)) = 1
          /\ SubSeq(s, 1, 1)[1] = s[1]
      BY <1>1
    <3>2. PICK r \in Seq(used) : r = SubSeq(s, 1, 1)
      BY <3>1
    <3>3. <<s[1]>> \in Seq(used) /\ Len(<<s[1]>>) = 1 /\ <<s[1]>>[1] = s[1]
      BY <1>1
    <3>4. Len(r) = Len(<<s[1]>>) /\ \A i \in 1..Len(r) : r[i] = <<s[1]>>[i]
      BY <3>1, <3>2, <3>3
    <3>5. r = <<s[1]>>
      BY <3>3, <3>4, SeqEqual
    <3> QED
      BY <3>2, <3>5
  <2>2. parent[s[1]] = 0 /\ s[1] \in Pids
    BY <1>1 DEF Chain
  <2>3. ASSUME NEW n \in PidOrNone PROVE path[n][s[1]] = <<s[1]>>
    BY <1>3, <2>2
  <2> QED
    BY <2>1, <2>3
<1>5. ASSUME NEW i \in Nat, i \in T PROVE i + 1 \in T
  <2>1. SUFFICES ASSUME i + 2 <= Len(s), NEW n \in PidOrNone, n >= i + 1
                 PROVE  path[n][s[i + 2]] = SubSeq(s, 1, i + 2)
    OBVIOUS
  <2>2. n # 0 /\ n - 1 \in PidOrNone /\ n - 1 >= i
    BY <2>1 DEF PidOrNone
  <2>3. path[n - 1][s[i + 1]] = SubSeq(s, 1, i + 1)
    BY <1>5, <2>1, <2>2
  <2>4. /\ s[i + 2] \in Pids /\ s[i + 1] # 0
        /\ parent[s[i + 2]] = s[i + 1]
    <3>1. i + 1 \in 1..(Len(s) - 1) /\ (i + 1) + 1 = i + 2 /\ i + 1 \in 1..Len(s) /\ i + 2 \in 1..Len(s)
      BY <1>1, <2>1
    <3>2. s[i + 2] \in Pids /\ s[i + 1] # 0
      BY <1>1, <3>1
    <3>3. \A k \in 1..(Len(s) - 1) : parent[s[k + 1]] = s[k]
      BY DEF Chain
    <3>4. PICK k : k = i + 1
      OBVIOUS
    <3>5. k \in 1..(Len(s) - 1) /\ k + 1 = i + 2
      BY <3>1, <3>4
    <3>6. parent[s[k + 1]] = s[k]
      BY <3>3, <3>5
    <3>7. PICK a, b : a = s[k] /\ b = s[k + 1]
      OBVIOUS
    <3>8. a = s[i + 1] /\ b = s[i + 2]
      BY <3>4, <3>5, <3>7
    <3>9. parent[b] = a
      BY <3>6, <3>7
    <3> QED
      BY <3>2, <3>8, <3>9
  <2>5. path[n][s[i + 2]] = Append(SubSeq(s, 1, i + 1), s[i + 2])
    <3>1. PICK q, r, u : q = s[i + 2] /\ r = s[i + 1] /\ u = SubSeq(s, 1, i + 1)
      OBVIOUS
    <3>2. q \in Pids /\ r # 0 /\ parent[q] = r
      BY <2>4, <3>1
    <3>3. path[n][q] = IF n = 0 \/ parent[q] = 0 THEN <<q>> ELSE Append(path[n - 1][parent[q]], q)
      BY <1>3, <3>2
    <3>4. path[n][q] = Append(path[n - 1][r], q)
      <4>1. ~ (n = 0 \/ parent[q] = 0)
        BY <2>2, <3>2
      <4>2. path[n][q] = Append(path[n - 1][parent[q]], q)
        BY <3>3, <4>1, Zenon
      <4> QED
        BY <3>2, <4>2, Zenon
    <3>5. path[n - 1][r] = u
      BY <2>3, <3>1, Zenon
    <3>6. path[n][q] = Append(u, q)
      BY <3>4, <3>5, Zenon
    <3> QED
      BY <3>1, <3>6, Zenon
  <2>6. SubSeq(s, 1, i + 2) = Append(SubSeq(s, 1, i + 1), s[i + 2])
    <3>1. PICK k \in 0..(Len(s) - 1) : k = i + 1
      BY <1>1, <2>1
    <3>2. SubSeq(s, 1, k + 1) = Append(SubSeq(s, 1, k), s[k + 1])
      BY <1>1, PrefixGrows
    <3>3. k + 1 = i + 2
      BY <3>1
    <3> QED
      BY <3>1, <3>2, <3>3
  <2> QED
    BY <2>5, <2>6
<1> HIDE DEF T
<1>6. Len(s) - 1 \in T
  BY <1>1, <1>4, <1>5, Induction
<1>7. path[NPids][s[Len(s)]] = SubSeq(s, 1, Len(s))
  <2>1. (Len(s) - 1) + 1 = Len(s) /\ NPids \in PidOrNone /\ NPids >= Len(s) - 1
    BY <1>1 DEF PidOrNone
  <2> QED
    BY <1>1, <1>6, <2>1 DEF T
<1>8. SubSeq(s, 1, Len(s)) = s
  BY <1>1
<1> QED
  BY <1>1, <1>2, <1>7, <1>8


LEMMA ChainStarts ==
  ASSUME NEW used, NEW parent, NEW n \in used, parent[n] = 0
  PROVE  Chain(<<n>>, n, parent, used)
BY DEF Chain

LEMMA ChainStays ==
  ASSUME NEW s, NEW p, NEW parent, NEW used, Chain(s, p, parent, used), NEW parent1, NEW used1,
         \A i \in 1..Len(s) : s[i] \in used1 /\ parent1[s[i]] = parent[s[i]]
  PROVE  Chain(s, p, parent1, used1)
<1>1. Len(s) \in Nat \ {0} /\ s \in Seq(used) /\ s # <<>> /\ s[Len(s)] = p
  BY DEF Chain
<1>2. s \in Seq(used1)
  <2>1. s = [i \in 1..Len(s) |-> s[i]]
    BY <1>1
  <2>2. [i \in 1..Len(s) |-> s[i]] \in Seq(used1)
    BY <1>1, IsASeq
  <2> QED
    BY <2>1, <2>2
<1>3. \A i \in 1..(Len(s) - 1) : i + 1 \in 1..Len(s) /\ parent1[s[i + 1]] = s[i]
  BY <1>1 DEF Chain
<1> QED
  BY <1>1, <1>2, <1>3 DEF Chain

LEMMA ChainGrows ==
  ASSUME NEW used \in SUBSET Pids, NEW parent \in [Pids -> PidOrNone], NEW s, NEW p,
         Chain(s, p, parent, used), NEW n \in Pids \ used
  PROVE  Chain(Append(s, n), n, [parent EXCEPT ![n] = p], used \cup {n})
<1>1. /\ s \in Seq(used) /\ s # <<>> /\ s[Len(s)] = p /\ parent[s[1]] = 0
      /\ \A i \in 1..(Len(s) - 1) : parent[s[i + 1]] = s[i]
      /\ \A i, j \in 1..Len(s) : s[i] = s[j] => i = j
  BY DEF Chain
<1>2. PICK m \in Nat \ {0} : m = Len(s)
  BY <1>1
<1>3. \A i \in 1..m : s[i] \in used /\ s[i] # n /\ s[i] \in Pids
  <2>1. \A i \in 1..Len(s) : s[i] \in used
    BY <1>1, ElementOfSeq
  <2> QED
    BY <1>2, <2>1
<1>4. PICK parent1 : /\ parent1 = [parent EXCEPT ![n] = p] /\ parent1[n] = p
                     /\ \A q \in Pids \ {n} : parent1[q] = parent[q]
  <2>1. PICK parent1 : parent1 = [parent EXCEPT ![n] = p]
    OBVIOUS
  <2>2. parent1[n] = p /\ \A q \in Pids \ {n} : parent1[q] = parent[q]
    BY <2>1
  <2> QED
    BY <2>1, <2>2
<1>5. PICK r \in Seq(used \cup {n}) : /\ r = Append(s, n) /\ Len(r) = m + 1
                                      /\ \A i \in 1..m : r[i] = s[i]
                                      /\ r[m + 1] = n
  <2>1. s \in Seq(used \cup {n})
    BY <1>1
  <2>2. /\ Append(s, n) \in Seq(used \cup {n})
        /\ Len(Append(s, n)) = Len(s) + 1
        /\ \A i \in 1..Len(s) : Append(s, n)[i] = s[i]
        /\ Append(s, n)[Len(s) + 1] = n
    BY <2>1, AppendProperties
  <2> QED
    BY <1>2, <2>2
<1>6. r # <<>> /\ r[Len(r)] = n /\ parent1[r[1]] = 0
  BY <1>1, <1>2, <1>3, <1>4, <1>5
<1>7. ASSUME NEW i \in 1..(Len(r) - 1) PROVE parent1[r[i + 1]] = r[i]
  <2>1. i \in 1..m /\ r[i] = s[i]
    BY <1>2, <1>5
  <2>2. CASE i = m
    BY <1>1, <1>2, <1>4, <1>5, <2>1, <2>2
  <2>3. CASE i # m
    <3>1. i \in 1..(m - 1) /\ i + 1 \in 1..m
      BY <1>2, <2>1, <2>3
    <3> QED
      BY <1>1, <1>2, <1>3, <1>4, <1>5, <2>1, <3>1
  <2> QED
    BY <2>2, <2>3
<1>8. ASSUME NEW i \in 1..Len(r), NEW j \in 1..Len(r), r[i] = r[j] PROVE i = j
  BY <1>1, <1>2, <1>3, <1>5, <1>8
<1>9. Chain(r, n, parent1, used \cup {n})
  BY <1>6, <1>7, <1>8 DEF Chain
<1> QED
  BY <1>4, <1>5, <1>9

LEMMA ChainShrinks ==
  ASSUME NEW used \in SUBSET Pids, NEW parent, NEW s, NEW p,
         Chain(s, p, parent, used), parent[p] # 0
  PROVE  /\ Len(s) > 1
         /\ Chain(SubSeq(s, 1, Len(s) - 1), parent[p], parent, used \ {p})
<1>1. /\ s \in Seq(used) /\ s # <<>> /\ s[Len(s)] = p /\ parent[s[1]] = 0
      /\ \A i \in 1..(Len(s) - 1) : parent[s[i + 1]] = s[i]
      /\ \A i, j \in 1..Len(s) : s[i] = s[j] => i = j
  BY DEF Chain
<1>2. PICK m \in Nat \ {0} : m = Len(s)
  BY <1>1
<1>3. m # 1
  BY <1>1, <1>2
<1>4. PICK k \in Nat \ {0} : k = m - 1 /\ m = k + 1
  BY <1>2, <1>3
<1>5. PICK r \in Seq(used) : /\ r = SubSeq(s, 1, k) /\ Len(r) = k
                             /\ \A i \in 1..k : r[i] = s[i]
  <2>1. k \in 0..Len(s)
    BY <1>2, <1>4
  <2>2. /\ SubSeq(s, 1, k) \in Seq(used) /\ Len(SubSeq(s, 1, k)) = k
        /\ \A i \in 1..k : SubSeq(s, 1, k)[i] = s[i]
    BY <1>1, <2>1, Prefix
  <2> QED
    BY <2>2
<1>6. \A i \in 1..k : r[i] \in used \ {p}
  <2>1. \A i \in 1..Len(r) : r[i] \in used
    BY <1>5, ElementOfSeq
  <2>2. ASSUME NEW i \in 1..k PROVE s[i] # p
    <3>1. i \in 1..Len(s) /\ Len(s) \in 1..Len(s) /\ i # Len(s)
      BY <1>2, <1>4
    <3> QED
      BY <1>1, <3>1
  <2> QED
    BY <1>5, <2>1, <2>2
<1>7. r \in Seq(used \ {p})
  <2>1. r = [i \in 1..Len(r) |-> r[i]]
    BY <1>5
  <2>2. [i \in 1..Len(r) |-> r[i]] \in Seq(used \ {p})
    BY <1>5, <1>6, IsASeq
  <2> QED
    BY <2>1, <2>2
<1>8. parent[p] = r[k]
  <2>1. k \in 1..(Len(s) - 1) /\ k + 1 = Len(s)
    BY <1>2, <1>4
  <2> QED
    BY <1>1, <1>5, <2>1
<1>9. \A i \in 1..(Len(r) - 1) : parent[r[i + 1]] = r[i]
  <2>1. ASSUME NEW i \in 1..(Len(r) - 1) PROVE parent[r[i + 1]] = r[i]
    <3>1. i \in 1..(Len(s) - 1) /\ i \in 1..k /\ i + 1 \in 1..k
      BY <1>2, <1>4, <1>5
    <3> QED
      BY <1>1, <1>5, <3>1
  <2> QED
    BY <2>1
<1>10. \A i, j \in 1..Len(r) : r[i] = r[j] => i = j
  BY <1>1, <1>2, <1>4, <1>5
<1>11. r # <<>> /\ r[Len(r)] = parent[p] /\ parent[r[1]] = 0
  <2>1. 1 \in 1..k /\ Len(r) = k
    BY <1>5
  <2>2. r[1] = s[1] /\ r # <<>>
    BY <1>5, <2>1
  <2> QED
    BY <1>1, <1>8, <2>1, <2>2
<1>12. Chain(r, parent[p], parent, used \ {p})
  BY <1>7, <1>9, <1>10, <1>11 DEF Chain
<1> QED
  BY <1>2, <1>3, <1>4, <1>5, <1>12

-----------------------------------------------------------------------------
(* The stacks of all terminals.                                            *)

StackFor(leaf, parent) ==
  [t \in Terminals |-> IF leaf[t] = 0 THEN <<>> ELSE PathTo(parent)[NPids][leaf[t]]]

Stacked(stacks, leaf, parent, used, shells) ==
  /\ stacks = [t \in Terminals |-> stacks[t]]
  /\ \A t \in shells : Chain(stacks[t], leaf[t], parent, used)
  /\ \A t \in Terminals \ shells : leaf[t] = 0 /\ stacks[t] = <<>>

LEMMA StackedIsStackFor ==
  ASSUME NEW leaf, NEW parent, NEW used \in SUBSET Pids, NEW shells \in SUBSET Terminals,
         NEW stacks, Stacked(stacks, leaf, parent, used, shells)
  PROVE  StackFor(leaf, parent) = stacks
<1>1. ASSUME NEW t \in Terminals
      PROVE  StackFor(leaf, parent)[t] = stacks[t]
  <2>1. CASE t \in shells
    <3>1. Chain(stacks[t], leaf[t], parent, used)
      BY <2>1 DEF Stacked
    <3>2. leaf[t] # 0
      <4>1. stacks[t] \in Seq(used) /\ stacks[t] # <<>> /\ stacks[t][Len(stacks[t])] = leaf[t]
        BY <3>1 DEF Chain
      <4>2. \A i \in 1..Len(stacks[t]) : stacks[t][i] \in used
        BY <4>1, ElementOfSeq
      <4>3. leaf[t] \in used
        BY <4>1, <4>2
      <4> QED
        BY <4>3 DEF Pids
    <3>3. PathTo(parent)[NPids][leaf[t]] = stacks[t]
      BY <3>1, ChainIsPath
    <3> QED
      BY <3>2, <3>3 DEF StackFor
  <2>2. CASE t \notin shells
    BY <2>2 DEF Stacked, StackFor
  <2> QED
    BY <2>1, <2>2
<1>2. StackFor(leaf, parent) = [t \in Terminals |-> StackFor(leaf, parent)[t]]
  BY DEF StackFor
<1>3. stacks = [t \in Terminals |-> stacks[t]]
  BY DEF Stacked
<1> QED
  BY <1>1, <1>2, <1>3

LEMMA StackedBoots ==
  ASSUME NEW leaf \in [Terminals -> PidOrNone], NEW parent \in [Pids -> PidOrNone],
         NEW used \in SUBSET Pids, NEW shells \in SUBSET Terminals,
         NEW stacks, Stacked(stacks, leaf, parent, used, shells),
         NEW t \in Terminals \ shells, NEW n \in Pids \ used
  PROVE  Stacked([stacks EXCEPT ![t] = <<n>>], [leaf EXCEPT ![t] = n],
                 [parent EXCEPT ![n] = 0], used \cup {n}, shells \cup {t})
<1>1. PICK stacks1 : stacks1 = [stacks EXCEPT ![t] = <<n>>]
  OBVIOUS
<1>2. PICK leaf1 : leaf1 = [leaf EXCEPT ![t] = n]
  OBVIOUS
<1>3. PICK parent1 : parent1 = [parent EXCEPT ![n] = 0]
  OBVIOUS
<1>4. PICK used1 : used1 = used \cup {n}
  OBVIOUS
<1>5. /\ stacks1 = [u \in Terminals |-> stacks1[u]]
      /\ stacks1[t] = <<n>> /\ \A u \in Terminals \ {t} : stacks1[u] = stacks[u]
  <2>1. stacks = [u \in Terminals |-> stacks[u]]
    BY DEF Stacked
  <2> QED
    BY <1>1, <2>1
<1>6. leaf1[t] = n /\ \A u \in Terminals \ {t} : leaf1[u] = leaf[u]
  BY <1>2
<1>7. parent1[n] = 0 /\ \A q \in Pids \ {n} : parent1[q] = parent[q]
  BY <1>3
<1>8. Chain(<<n>>, n, parent1, used1)
  BY <1>4, <1>7, ChainStarts
<1>9. ASSUME NEW u \in shells PROVE Chain(stacks1[u], leaf1[u], parent1, used1)
  <2>1. u # t /\ u \in Terminals
    OBVIOUS
  <2>2. PICK s : s = stacks[u]
    OBVIOUS
  <2>3. Chain(s, leaf[u], parent, used)
    BY <2>2 DEF Stacked
  <2>4. \A i \in 1..Len(s) : s[i] \in used1 /\ parent1[s[i]] = parent[s[i]]
    <3>1. s \in Seq(used)
      BY <2>3 DEF Chain
    <3>2. \A i \in 1..Len(s) : s[i] \in used
      BY <3>1, ElementOfSeq
    <3> QED
      BY <1>4, <1>7, <3>2
  <2>5. Chain(s, leaf[u], parent1, used1)
    BY <2>3, <2>4, ChainStays
  <2> QED
    BY <1>5, <1>6, <2>1, <2>2, <2>5
<1>10. \A u \in Terminals \ (shells \cup {t}) : leaf1[u] = 0 /\ stacks1[u] = <<>>
  BY <1>5, <1>6 DEF Stacked
<1>11. \A u \in shells \cup {t} : Chain(stacks1[u], leaf1[u], parent1, used1)
  <2>1. Chain(stacks1[t], leaf1[t], parent1, used1)
    BY <1>5, <1>6, <1>8
  <2> QED
    BY <1>9, <2>1
<1>12. Stacked(stacks1, leaf1, parent1, used1, shells \cup {t})
  BY <1>5, <1>10, <1>11 DEF Stacked
<1> QED
  BY <1>1, <1>2, <1>3, <1>4, <1>12

LEMMA StackedGrows ==
  ASSUME NEW leaf \in [Terminals -> PidOrNone], NEW parent \in [Pids -> PidOrNone],
         NEW used \in SUBSET Pids, NEW shells \in SUBSET Terminals,
         NEW stacks, Stacked(stacks, leaf, parent, used, shells),
         NEW t \in shells, NEW n \in Pids \ used
  PROVE  Stacked([stacks EXCEPT ![t] = Append(stacks[t], n)], [leaf EXCEPT ![t] = n],
                 [parent EXCEPT ![n] = leaf[t]], used \cup {n}, shells)
<1>1. PICK longer : longer = Append(stacks[t], n)
  OBVIOUS
<1>2. PICK stacks1 : stacks1 = [stacks EXCEPT ![t] = longer]
  OBVIOUS
<1>3. PICK leaf1 : leaf1 = [leaf EXCEPT ![t] = n]
  OBVIOUS
<1>4. PICK parent1 : parent1 = [parent EXCEPT ![n] = leaf[t]]
  OBVIOUS
<1>5. PICK used1 : used1 = used \cup {n}
  OBVIOUS
<1>6. /\ stacks1 = [u \in Terminals |-> stacks1[u]]
      /\ stacks1[t] = longer /\ \A u \in Terminals \ {t} : stacks1[u] = stacks[u]
  <2>1. stacks = [u \in Terminals |-> stacks[u]] /\ t \in Terminals
    BY DEF Stacked
  <2> QED
    BY <1>2, <2>1
<1>7. leaf1[t] = n /\ \A u \in Terminals \ {t} : leaf1[u] = leaf[u]
  BY <1>3
<1>8. \A q \in Pids \ {n} : parent1[q] = parent[q]
  BY <1>4
<1>9. Chain(longer, n, parent1, used1)
  <2>1. Chain(stacks[t], leaf[t], parent, used)
    BY DEF Stacked
  <2>2. Chain(Append(stacks[t], n), n, [parent EXCEPT ![n] = leaf[t]], used \cup {n})
    BY <2>1, ChainGrows
  <2> QED
    BY <1>1, <1>4, <1>5, <2>2
<1>10. ASSUME NEW u \in shells, u # t PROVE Chain(stacks1[u], leaf1[u], parent1, used1)
  <2>1. u \in Terminals
    OBVIOUS
  <2>2. PICK s : s = stacks[u]
    OBVIOUS
  <2>3. Chain(s, leaf[u], parent, used)
    BY <2>2 DEF Stacked
  <2>4. \A i \in 1..Len(s) : s[i] \in used1 /\ parent1[s[i]] = parent[s[i]]
    <3>1. s \in Seq(used)
      BY <2>3 DEF Chain
    <3>2. \A i \in 1..Len(s) : s[i] \in used
      BY <3>1, ElementOfSeq
    <3> QED
      BY <1>5, <1>8, <3>2
  <2>5. Chain(s, leaf[u], parent1, used1)
    BY <2>3, <2>4, ChainStays
  <2> QED
    BY <1>6, <1>7, <1>10, <2>1, <2>2, <2>5
<1>11. \A u \in Terminals \ shells : leaf1[u] = 0 /\ stacks1[u] = <<>>
  BY <1>6, <1>7 DEF Stacked
<1>12. Stacked(stacks1, leaf1, parent1, used1, shells)
  BY <1>6, <1>7, <1>9, <1>10, <1>11 DEF Stacked
<1> QED
  BY <1>1, <1>2, <1>3, <1>4, <1>5, <1>12

Popped(stacks, t) == [stacks EXCEPT ![t] = SubSeq(stacks[t], 1, Len(stacks[t]) - 1)]

\* Only terminal t has p on its stack: on top.
OnlyOn(p, t, leaf, parent, used, shells) ==
  (\A q \in used : parent[q] # p) /\ (\A u \in shells \ {t} : leaf[u] # p)

LEMMA StackedShrinks ==
  ASSUME NEW leaf \in [Terminals -> PidOrNone], NEW parent \in [Pids -> PidOrNone],
         NEW used \in SUBSET Pids, NEW shells \in SUBSET Terminals,
         NEW stacks, Stacked(stacks, leaf, parent, used, shells),
         NEW t \in shells, NEW p \in Pids, leaf[t] = p, parent[p] # 0,
         OnlyOn(p, t, leaf, parent, used, shells)
  PROVE  /\ Len(stacks[t]) > 1
         /\ Stacked(Popped(stacks, t), [leaf EXCEPT ![t] = parent[p]], parent, used \ {p},
                    shells)
<1>1. PICK shorter : shorter = SubSeq(stacks[t], 1, Len(stacks[t]) - 1)
  OBVIOUS
<1>2. PICK stacks1 : stacks1 = [stacks EXCEPT ![t] = shorter]
  OBVIOUS
<1>3. PICK leaf1 : leaf1 = [leaf EXCEPT ![t] = parent[p]]
  OBVIOUS
<1>4. PICK used1 : used1 = used \ {p}
  OBVIOUS
<1>5. /\ stacks1 = [u \in Terminals |-> stacks1[u]]
      /\ stacks1[t] = shorter /\ \A u \in Terminals \ {t} : stacks1[u] = stacks[u]
  <2>1. stacks = [u \in Terminals |-> stacks[u]] /\ t \in Terminals
    BY DEF Stacked
  <2> QED
    BY <1>2, <2>1
<1>6. leaf1[t] = parent[p] /\ \A u \in Terminals \ {t} : leaf1[u] = leaf[u]
  BY <1>3
<1>7. Len(stacks[t]) > 1 /\ Chain(shorter, parent[p], parent, used1)
  <2>1. Chain(stacks[t], p, parent, used)
    BY DEF Stacked
  <2>2. /\ Len(stacks[t]) > 1
        /\ Chain(SubSeq(stacks[t], 1, Len(stacks[t]) - 1), parent[p], parent, used \ {p})
    BY <2>1, ChainShrinks
  <2> QED
    BY <1>1, <1>4, <2>2
<1>8. ASSUME NEW u \in shells, u # t PROVE Chain(stacks1[u], leaf1[u], parent, used1)
  <2>1. u \in Terminals
    OBVIOUS
  <2>2. PICK s : s = stacks[u]
    OBVIOUS
  <2>3. Chain(s, leaf[u], parent, used)
    BY <2>2 DEF Stacked
  <2>4. ASSUME NEW i \in 1..Len(s) PROVE s[i] \in used1 /\ parent[s[i]] = parent[s[i]]
    <3>1. s \in Seq(used) /\ s[Len(s)] = leaf[u]
      BY <2>3 DEF Chain
    <3>2. \A j \in 1..Len(s) : s[j] \in used
      BY <3>1, ElementOfSeq
    <3>3. s[i] # p
      <4>1. CASE i = Len(s)
        BY <1>8, <3>1, <4>1 DEF OnlyOn
      <4>2. CASE i # Len(s)
        <5>1. i \in 1..(Len(s) - 1) /\ i + 1 \in 1..Len(s)
          BY <3>1, <4>2
        <5>2. parent[s[i + 1]] = s[i] /\ s[i + 1] \in used
          BY <2>3, <3>2, <5>1 DEF Chain
        <5> QED
          BY <5>2 DEF OnlyOn
      <4> QED
        BY <4>1, <4>2
    <3> QED
      BY <1>4, <3>2, <3>3
  <2>5. Chain(s, leaf[u], parent, used1)
    BY <2>3, <2>4, ChainStays
  <2> QED
    BY <1>5, <1>6, <1>8, <2>1, <2>2, <2>5
<1>9. \A u \in Terminals \ shells : leaf1[u] = 0 /\ stacks1[u] = <<>>
  BY <1>5, <1>6 DEF Stacked
<1>10. Stacked(stacks1, leaf1, parent, used1, shells)
  BY <1>5, <1>6, <1>7, <1>8, <1>9 DEF Stacked
<1> QED
  BY <1>1, <1>2, <1>3, <1>4, <1>7, <1>10 DEF Popped

\* StackOf is the same, of the records and the parents.
LEMMA StackOfIsStackFor ==
  /\ StackOf = StackFor(cur_term_pid, parent_pid)
  /\ StackOf' = StackFor(cur_term_pid', parent_pid')
BY Zenon DEF StackOf, StackFor

\* The stacks of TerminalStacks hold the programs in use, and no others.
LEMMA StackedUses ==
  ASSUME NEW leaf, NEW parent, NEW used, NEW shells \in SUBSET Terminals, NEW stacks,
         Stacked(stacks, leaf, parent, used, shells), stacks = StackOf
  PROVE  Stacks!InUse \subseteq used
<1>1. ASSUME NEW t \in Terminals PROVE Stacks!ToSet(stacks[t]) \subseteq used
  <2>1. CASE t \in shells
    <3>1. stacks[t] \in Seq(used)
      BY <2>1 DEF Stacked, Chain
    <3>2. \A i \in 1..Len(stacks[t]) : stacks[t][i] \in used
      BY <3>1, ElementOfSeq
    <3>3. DOMAIN stacks[t] = 1..Len(stacks[t])
      BY <3>1, LenProperties
    <3> QED
      BY <3>2, <3>3 DEF Stacks!ToSet
  <2>2. CASE t \notin shells
    <3>1. stacks[t] = <<>> /\ DOMAIN <<>> = {}
      BY <2>2 DEF Stacked
    <3> QED
      BY <3>1 DEF Stacks!ToSet
  <2> QED
    BY <2>1, <2>2
<1>2. Stacks!InUse = UNION {Stacks!ToSet(stacks[t]) : t \in Terminals}
  BY DEF Stacks!InUse
<1> QED
  BY <1>1, <1>2

LEMMA StacksNextTerminal ==
  Stacks!NextTerminal = NextTerminal
<1>1. NTerminals - 1 \in Terminals /\ \A u \in Terminals : u <= NTerminals - 1
  BY DEF Terminals
<1>2. \A t \in Terminals : (\A u \in Terminals : u <= t) => t = NTerminals - 1
  BY <1>1 DEF Terminals
<1>3. (CHOOSE t \in Terminals : \A u \in Terminals : u <= t) = NTerminals - 1
  BY <1>1, <1>2
<1>4. 1 + (NTerminals - 1) = NTerminals
  OBVIOUS
<1> QED
  BY <1>3, <1>4 DEF Stacks!NextTerminal, NextTerminal

-----------------------------------------------------------------------------
(* The kernel implements the stacks of programs of TerminalStacks.         *)

WithShell == {t \in Terminals : shell_exists[t]}

\* Every program in use is on some terminal's stack.
Covered(stacks, used, shells) ==
  \A q \in used : \E t \in shells : \E i \in 1..Len(stacks[t]) : stacks[t][i] = q

\* What the table, the records and the parents say are the stacks of terminals.
StacksAre(stacks) ==
  /\ Stacked(stacks, cur_term_pid, parent_pid, Allocated, WithShell)
  /\ Covered(stacks, Allocated, WithShell)

StacksInv == \E stacks : StacksAre(stacks)

LEMMA StacksFacts ==
  ASSUME SafeInv
  PROVE  /\ Allocated \in SUBSET Pids /\ WithShell \in SUBSET Terminals
         /\ cur_term_pid \in [Terminals -> PidOrNone] /\ parent_pid \in [Pids -> PidOrNone]
         /\ scheduled \in Terminals
BY DEF Allocated, WithShell, SafeInv, TypeInv, TypeOK

LEMMA StacksAreStackOf ==
  ASSUME SafeInv, NEW stacks, StacksAre(stacks)
  PROVE  StackOf = stacks
BY StacksFacts, StackedIsStackFor, StackOfIsStackFor DEF StacksAre

LEMMA StacksAreStackOfNext ==
  ASSUME NEW stacks, Allocated' \in SUBSET Pids, WithShell' \in SUBSET Terminals,
         Stacked(stacks, cur_term_pid', parent_pid', Allocated', WithShell')
  PROVE  StackOf' = stacks
BY StackedIsStackFor, StackOfIsStackFor

\* TerminalStacks has the same programs in use.
LEMMA SameInUse ==
  ASSUME SafeInv, NEW stacks, StacksAre(stacks)
  PROVE  Stacks!InUse = Allocated
<1>1. stacks = StackOf
  BY StacksAreStackOf
<1>2. Stacks!InUse \subseteq Allocated
  BY <1>1, StacksFacts, StackedUses DEF StacksAre
<1>3. ASSUME NEW q \in Allocated PROVE q \in Stacks!InUse
  <2>0. PICK t \in WithShell : \E j \in 1..Len(stacks[t]) : stacks[t][j] = q
    BY DEF StacksAre, Covered
  <2>1. PICK i \in 1..Len(stacks[t]) : stacks[t][i] = q
    BY <2>0
  <2>2. stacks[t] \in Seq(Allocated) /\ t \in Terminals
    BY StacksFacts DEF StacksAre, Stacked, Chain
  <2>3. DOMAIN stacks[t] = 1..Len(stacks[t])
    BY <2>2, LenProperties
  <2>4. q \in Stacks!ToSet(stacks[t])
    BY <2>1, <2>3 DEF Stacks!ToSet
  <2> QED
    BY <1>1, <2>2, <2>4 DEF Stacks!InUse
<1> QED
  BY <1>2, <1>3

\* The program that runs is on top of the scheduled terminal's stack.
LEMMA RunningOnTop ==
  ASSUME SafeInv, cpu # 0, NEW stacks, StacksAre(stacks)
  PROVE  /\ scheduled \in WithShell /\ cpu \in Allocated
         /\ cur_term_pid[scheduled] = cpu /\ current_pid = cpu /\ current_process = cpu
         /\ Chain(stacks[scheduled], cpu, parent_pid, Allocated)
         /\ stacks[scheduled] # <<>> /\ stacks[scheduled][Len(stacks[scheduled])] = cpu
<1>1. /\ current_process = cpu /\ pid_array[cpu] = 1 /\ cur_term_pid[scheduled] = cpu
      /\ current_pid = cpu /\ shell_exists[scheduled]
  BY DEF SafeInv, Inv, CpuCoherent, Glue
<1>2. scheduled \in WithShell /\ cpu \in Allocated
  BY <1>1 DEF SafeInv, TypeInv, TypeOK, WithShell, Allocated, Pids, PidOrNone
<1>3. Chain(stacks[scheduled], cpu, parent_pid, Allocated)
  BY <1>1, <1>2 DEF StacksAre, Stacked
<1> QED
  BY <1>1, <1>2, <1>3 DEF Chain

\* No other terminal has it on its stack.
LEMMA RunningOnlyThere ==
  ASSUME SafeInv, cpu # 0
  PROVE  OnlyOn(cpu, scheduled, cur_term_pid, parent_pid, Allocated, WithShell)
<1>1. \A r \in Allocated : parent_pid[r] # cpu
  BY RunningIsLeaf
<1>2. home[cpu] = scheduled
  BY DEF SafeInv, Inv, CpuCoherent
<1>3. \A u \in WithShell \ {scheduled} : home[cur_term_pid[u]] = u
  BY DEF SafeInv, Inv, ContextSaved, WithShell
<1> QED
  BY <1>1, <1>2, <1>3 DEF OnlyOn

LEMMA CoveredBoots ==
  ASSUME NEW stacks, stacks = [u \in Terminals |-> stacks[u]], NEW used,
         NEW shells \in SUBSET Terminals,
         Covered(stacks, used, shells), NEW t \in Terminals \ shells, NEW n
  PROVE  Covered([stacks EXCEPT ![t] = <<n>>], used \cup {n}, shells \cup {t})
<1>1. PICK stacks1 : stacks1 = [stacks EXCEPT ![t] = <<n>>]
  OBVIOUS
<1>2. stacks1[t] = <<n>> /\ \A u \in Terminals \ {t} : stacks1[u] = stacks[u]
  BY <1>1
<1>3. ASSUME NEW q \in used \cup {n}
      PROVE  \E u \in shells \cup {t} : \E i \in 1..Len(stacks1[u]) : stacks1[u][i] = q
  <2>1. CASE q = n
    <3>1. 1 \in 1..Len(<<n>>) /\ <<n>>[1] = q
      BY <2>1
    <3> QED
      BY <1>2, <3>1
  <2>2. CASE q # n
    <3>0. PICK u \in shells : \E j \in 1..Len(stacks[u]) : stacks[u][j] = q
      BY <2>2 DEF Covered
    <3>1. PICK i \in 1..Len(stacks[u]) : stacks[u][i] = q
      BY <3>0
    <3>2. stacks1[u] = stacks[u]
      BY <1>2
    <3> QED
      BY <3>1, <3>2
  <2> QED
    BY <2>1, <2>2
<1>4. Covered(stacks1, used \cup {n}, shells \cup {t})
  BY <1>3 DEF Covered
<1> QED
  BY <1>1, <1>4

LEMMA CoveredGrows ==
  ASSUME NEW stacks, stacks = [u \in Terminals |-> stacks[u]], NEW used,
         NEW shells \in SUBSET Terminals,
         Covered(stacks, used, shells), NEW t \in shells, stacks[t] \in Seq(used), NEW n
  PROVE  Covered([stacks EXCEPT ![t] = Append(stacks[t], n)], used \cup {n}, shells)
<1>1. PICK longer : longer = Append(stacks[t], n)
  OBVIOUS
<1>2. PICK stacks1 : stacks1 = [stacks EXCEPT ![t] = longer]
  OBVIOUS
<1>3. stacks1[t] = longer /\ \A u \in Terminals \ {t} : stacks1[u] = stacks[u]
  BY <1>2
<1>4. PICK m \in Nat : m = Len(stacks[t])
  BY LenProperties
<1>5. Len(longer) = m + 1 /\ longer[m + 1] = n /\ \A i \in 1..m : longer[i] = stacks[t][i]
  <2>1. stacks[t] \in Seq(used \cup {n})
    OBVIOUS
  <2>2. /\ Len(Append(stacks[t], n)) = Len(stacks[t]) + 1
        /\ \A i \in 1..Len(stacks[t]) : Append(stacks[t], n)[i] = stacks[t][i]
        /\ Append(stacks[t], n)[Len(stacks[t]) + 1] = n
    BY <2>1, AppendProperties
  <2> QED
    BY <1>1, <1>4, <2>2
<1>6. ASSUME NEW q \in used \cup {n}
      PROVE  \E u \in shells : \E i \in 1..Len(stacks1[u]) : stacks1[u][i] = q
  <2>1. CASE q = n
    <3>1. m + 1 \in 1..Len(stacks1[t]) /\ stacks1[t][m + 1] = q
      BY <1>3, <1>5, <2>1
    <3> QED
      BY <3>1
  <2>2. CASE q # n
    <3>0. PICK u \in shells : \E j \in 1..Len(stacks[u]) : stacks[u][j] = q
      BY <2>2 DEF Covered
    <3>1. PICK i \in 1..Len(stacks[u]) : stacks[u][i] = q
      BY <3>0
    <3>2. CASE u = t
      <4>1. i \in 1..m /\ i \in 1..(m + 1)
        BY <1>4, <3>1, <3>2
      <4>2. i \in 1..Len(longer) /\ longer[i] = q
        BY <1>5, <3>1, <3>2, <4>1
      <4>3. i \in 1..Len(stacks1[t]) /\ stacks1[t][i] = q
        BY <1>3, <4>2
      <4> QED
        BY <4>3
    <3>3. CASE u # t
      <4>1. stacks1[u] = stacks[u]
        BY <1>3, <3>3
      <4> QED
        BY <3>1, <4>1
    <3> QED
      BY <3>2, <3>3
  <2> QED
    BY <2>1, <2>2
<1>7. Covered(stacks1, used \cup {n}, shells)
  BY <1>6 DEF Covered
<1> QED
  BY <1>1, <1>2, <1>7

LEMMA CoveredShrinks ==
  ASSUME NEW stacks, stacks = [u \in Terminals |-> stacks[u]], NEW used,
         NEW shells \in SUBSET Terminals,
         Covered(stacks, used, shells), NEW t \in shells, stacks[t] \in Seq(used),
         stacks[t] # <<>>, NEW p, stacks[t][Len(stacks[t])] = p
  PROVE  Covered(Popped(stacks, t), used \ {p}, shells)
<1>1. PICK shorter : shorter = SubSeq(stacks[t], 1, Len(stacks[t]) - 1)
  OBVIOUS
<1>2. PICK stacks1 : stacks1 = [stacks EXCEPT ![t] = shorter]
  OBVIOUS
<1>3. stacks1[t] = shorter /\ \A u \in Terminals \ {t} : stacks1[u] = stacks[u]
  BY <1>2
<1>4. PICK k \in Nat : Len(stacks[t]) = k + 1
  <2>1. Len(stacks[t]) \in Nat \ {0}
    OBVIOUS
  <2>2. Len(stacks[t]) - 1 \in Nat /\ Len(stacks[t]) = (Len(stacks[t]) - 1) + 1
    BY <2>1
  <2> QED
    BY <2>2
<1>5. Len(shorter) = k /\ \A i \in 1..k : shorter[i] = stacks[t][i]
  <2>1. k \in 0..Len(stacks[t]) /\ Len(stacks[t]) - 1 = k
    BY <1>4
  <2>2. /\ Len(SubSeq(stacks[t], 1, k)) = k
        /\ \A i \in 1..k : SubSeq(stacks[t], 1, k)[i] = stacks[t][i]
    BY <2>1, Prefix
  <2> QED
    BY <1>1, <2>1, <2>2
<1>6. ASSUME NEW q \in used \ {p}
      PROVE  \E u \in shells : \E i \in 1..Len(stacks1[u]) : stacks1[u][i] = q
  <2>0. PICK u \in shells : \E j \in 1..Len(stacks[u]) : stacks[u][j] = q
    BY DEF Covered
  <2>1. PICK i \in 1..Len(stacks[u]) : stacks[u][i] = q
    BY <2>0
  <2>2. CASE u = t
    <3>1. i \in 1..(k + 1) /\ i # k + 1
      BY <1>4, <2>1, <2>2
    <3>2. i \in 1..k /\ stacks[t][i] = q
      BY <2>1, <2>2, <3>1
    <3>3. i \in 1..Len(shorter) /\ shorter[i] = q
      BY <1>5, <3>2
    <3>4. i \in 1..Len(stacks1[t]) /\ stacks1[t][i] = q
      BY <1>3, <3>3
    <3> QED
      BY <3>4
  <2>3. CASE u # t
    <3>1. stacks1[u] = stacks[u]
      BY <1>3, <2>3
    <3> QED
      BY <2>1, <3>1
  <2> QED
    BY <2>2, <2>3
<1>7. Covered(stacks1, used \ {p}, shells)
  BY <1>6 DEF Covered
<1> QED
  BY <1>1, <1>2, <1>7 DEF Popped

LEMMA BootIsBoot ==
  ASSUME SafeInv, StacksInv, TickBoot
  PROVE  StacksInv' /\ Stacks!Boot
<1>0. NextTerminal \in Terminals /\ ~shell_exists[NextTerminal]
  BY NextTerminalRotates DEF TickBoot, SafeInv, TypeInv, TypeOK
<1>1. PICK k \in 0..(NTerminals - 1) :
        /\ \A t \in Terminals : shell_exists[t] <=> t < k
        /\ scheduled = IF k = 0 THEN NTerminals - 1 ELSE k - 1
        /\ \A p \in Pids : pid_array[p] = 1 <=> p <= k
  BY <1>0 DEF SafeInv, Inv, BootInOrder, Booted
<1>2. /\ NextTerminal = k
      /\ StartProgram(pid_array, "shell", k + 1, k, {"tick"})
      /\ ParentOf("shell", k + 1) = 0
  BY <1>1, TickBootStarts
<1>3. PICK n \in Pids : n = k + 1
  BY DEF Pids
<1>4. n \notin Allocated /\ k \in Terminals \ WithShell
  BY <1>1, <1>3 DEF Allocated, WithShell, Pids, Terminals
<1>5. /\ parent_pid' = [parent_pid EXCEPT ![n] = 0]
      /\ cur_term_pid' = [cur_term_pid EXCEPT ![k] = n]
      /\ pid_array' = [pid_array EXCEPT ![n] = 1]
  BY <1>2, <1>3 DEF StartProgram, RecordTerminal
<1>6. shell_exists' = [shell_exists EXCEPT ![k] = TRUE] /\ scheduled' = k /\ answer' = answer
  BY <1>2 DEF TickBoot
<1>7. Allocated' = Allocated \cup {n} /\ WithShell' = WithShell \cup {k}
  BY <1>4, <1>5, <1>6 DEF Allocated, WithShell, SafeInv, TypeInv, TypeOK, Pids, PidOrNone
<1>8. PICK stacks : StacksAre(stacks)
  BY DEF StacksInv
<1>9. StackOf = stacks
  BY <1>8, StacksAreStackOf
<1>10. PICK stacks1 : stacks1 = [stacks EXCEPT ![k] = <<n>>]
  OBVIOUS
<1>11. Stacked(stacks1, cur_term_pid', parent_pid', Allocated', WithShell')
  BY <1>4, <1>5, <1>7, <1>8, <1>10, StacksFacts, StackedBoots DEF StacksAre
<1>12. Covered(stacks1, Allocated', WithShell')
  BY <1>4, <1>7, <1>8, <1>10, StacksFacts, CoveredBoots DEF StacksAre, Stacked
<1>13. StackOf' = stacks1
  <2>1. Allocated' \in SUBSET Pids /\ WithShell' \in SUBSET Terminals
    BY <1>4, <1>7, StacksFacts
  <2> QED
    BY <1>11, <2>1, StacksAreStackOfNext
<1>14. stacks[k] = <<>> /\ n \notin Stacks!InUse
  BY <1>4, <1>8, SameInUse DEF StacksAre, Stacked
<1>15. Stacks!Boot
  <2>1. Stacks!NextTerminal = k
    BY <1>2, StacksNextTerminal
  <2> QED
    BY <1>6, <1>9, <1>10, <1>13, <1>14, <2>1 DEF Stacks!Boot
<1> QED
  BY <1>11, <1>12, <1>15 DEF StacksInv, StacksAre

LEMMA ExecuteIsCall ==
  ASSUME SafeInv, StacksInv, OrderlyEnvironment, NEW file \in Files, Execute(file)
  PROVE  StacksInv' /\ Stacks!Call
<1>1. Booted /\ cpu # 0
  BY DEF Execute, Running, OrderlyEnvironment
<1>2. PICK n \in PidOrNone :
        /\ IsNextPid(pid_array, n)
        /\ StartProgram(pid_array, file, n, scheduled, {"execute"})
  BY DEF Execute
<1>3. n \in Pids /\ pid_array[n] = 0 /\ n \notin 1..NTerminals
  <2>1. n \in Pids /\ pid_array[n] = 0
    BY <1>2, NextPidIsPid DEF SafeInv, TypeInv, TypeOK
  <2> QED
    BY <1>1, <2>1, FreePidIsNoBasePid
<1>4. PICK stacks : StacksAre(stacks)
  BY DEF StacksInv
<1>5. /\ scheduled \in WithShell /\ cpu \in Allocated
      /\ cur_term_pid[scheduled] = cpu /\ current_pid = cpu
      /\ Chain(stacks[scheduled], cpu, parent_pid, Allocated) /\ stacks[scheduled] # <<>>
  BY <1>1, <1>4, RunningOnTop
<1>6. ParentOf(file, n) = cpu
  BY <1>3, <1>5 DEF ParentOf
<1>7. /\ parent_pid' = [parent_pid EXCEPT ![n] = cpu]
      /\ cur_term_pid' = [cur_term_pid EXCEPT ![scheduled] = n]
      /\ pid_array' = [pid_array EXCEPT ![n] = 1]
  BY <1>2, <1>6 DEF StartProgram, RecordTerminal
<1>8. shell_exists' = shell_exists /\ scheduled' = scheduled /\ answer' = answer
  BY DEF Execute
<1>9. Allocated' = Allocated \cup {n} /\ WithShell' = WithShell /\ n \notin Allocated
  <2>1. \A p \in Pids : pid_array'[p] = IF p = n THEN 1 ELSE pid_array[p]
    BY <1>7 DEF SafeInv, TypeInv, TypeOK, Pids, PidOrNone
  <2>2. n \notin Allocated /\ n \in Pids
    BY <1>3 DEF Allocated
  <2>3. Allocated' = Allocated \cup {n}
    BY <2>1, <2>2 DEF Allocated
  <2> QED
    BY <1>8, <2>2, <2>3 DEF WithShell
<1>10. StackOf = stacks
  BY <1>4, StacksAreStackOf
<1>11. PICK stacks1 : stacks1 = [stacks EXCEPT ![scheduled] = Append(stacks[scheduled], n)]
  OBVIOUS
<1>12. Stacked(stacks1, cur_term_pid', parent_pid', Allocated', WithShell')
  <2>1. Stacked(stacks1, [cur_term_pid EXCEPT ![scheduled] = n],
                [parent_pid EXCEPT ![n] = cur_term_pid[scheduled]], Allocated \cup {n}, WithShell)
    BY <1>3, <1>4, <1>5, <1>9, <1>11, StacksFacts, StackedGrows DEF StacksAre
  <2> QED
    BY <1>5, <1>7, <1>9, <2>1
<1>13. Covered(stacks1, Allocated', WithShell')
  <2>1. stacks[scheduled] \in Seq(Allocated)
    BY <1>5 DEF Chain
  <2> QED
    BY <1>4, <1>5, <1>9, <1>11, <2>1, StacksFacts, CoveredGrows DEF StacksAre, Stacked
<1>14. StackOf' = stacks1
  <2>1. Allocated' \in SUBSET Pids /\ WithShell' \in SUBSET Terminals
    BY <1>3, <1>9, StacksFacts
  <2> QED
    BY <1>12, <2>1, StacksAreStackOfNext
<1>15. n \notin Stacks!InUse
  BY <1>4, <1>9, SameInUse
<1>16. Stacks!Call
  BY <1>3, <1>5, <1>8, <1>10, <1>11, <1>14, <1>15 DEF Stacks!Call
<1> QED
  BY <1>12, <1>13, <1>16 DEF StacksInv, StacksAre

LEMMA HaltIsReturn ==
  ASSUME SafeInv, StacksInv, ~GOD, cpu # 0, NEW status, NEW fault \in BOOLEAN,
         fault \/ status \in Status,
         parent_pid[current_process] # 0, HaltToParent(status, fault)
  PROVE  StacksInv' /\ Stacks!Return
<1>1. PICK stacks : StacksAre(stacks)
  BY DEF StacksInv
<1>2. /\ scheduled \in WithShell /\ cpu \in Allocated /\ cpu \in Pids
      /\ cur_term_pid[scheduled] = cpu /\ current_process = cpu
      /\ Chain(stacks[scheduled], cpu, parent_pid, Allocated)
      /\ stacks[scheduled] # <<>> /\ stacks[scheduled][Len(stacks[scheduled])] = cpu
  BY <1>1, RunningOnTop DEF Allocated
<1>3. PICK q : q = parent_pid[cpu] /\ q # 0
  BY <1>2
<1>4. /\ answer'.to = q
      /\ answer'.value = HaltValue(status, fault)
      /\ answer'.cause = IF fault THEN "exception" ELSE "halt"
      /\ pid_array' = [pid_array EXCEPT ![cpu] = 0]
      /\ cur_term_pid' = [cur_term_pid EXCEPT ![scheduled] = q]
  BY <1>3, HaltReturns
<1>5. parent_pid' = parent_pid /\ shell_exists' = shell_exists /\ scheduled' = scheduled
  BY DEF HaltToParent
<1>6. Allocated' = Allocated \ {cpu} /\ WithShell' = WithShell
  <2>1. \A p \in Pids : pid_array'[p] = IF p = cpu THEN 0 ELSE pid_array[p]
    <3>1. pid_array \in [PidOrNone -> {0, 1}] /\ cpu \in PidOrNone /\ Pids \subseteq PidOrNone
      BY <1>2 DEF SafeInv, TypeInv, TypeOK, Pids, PidOrNone
    <3> QED
      BY <1>4, <3>1
  <2>2. Allocated' = Allocated \ {cpu}
    BY <2>1 DEF Allocated
  <2> QED
    BY <1>5, <2>2 DEF WithShell
<1>7. StackOf = stacks
  BY <1>1, StacksAreStackOf
<1>8. PICK stacks1 : stacks1 = Popped(stacks, scheduled)
  OBVIOUS
<1>9. /\ Len(stacks[scheduled]) > 1
      /\ Stacked(stacks1, cur_term_pid', parent_pid', Allocated', WithShell')
  <2>1. OnlyOn(cpu, scheduled, cur_term_pid, parent_pid, Allocated, WithShell)
    BY RunningOnlyThere
  <2>2. cur_term_pid[scheduled] = cpu /\ parent_pid[cpu] # 0
    BY <1>2, <1>3
  <2>3. Stacked(stacks, cur_term_pid, parent_pid, Allocated, WithShell)
    BY <1>1 DEF StacksAre
  <2>4. /\ Len(stacks[scheduled]) > 1
        /\ Stacked(Popped(stacks, scheduled), [cur_term_pid EXCEPT ![scheduled] = parent_pid[cpu]],
                   parent_pid, Allocated \ {cpu}, WithShell)
    BY <1>2, <2>1, <2>2, <2>3, StacksFacts, StackedShrinks
  <2>5. cur_term_pid' = [cur_term_pid EXCEPT ![scheduled] = parent_pid[cpu]]
    BY <1>3, <1>4
  <2> QED
    BY <1>5, <1>6, <1>8, <2>4, <2>5, Zenon
<1>10. Covered(stacks1, Allocated', WithShell')
  <2>1. stacks[scheduled] \in Seq(Allocated)
    BY <1>2 DEF Chain
  <2>2. Covered(Popped(stacks, scheduled), Allocated \ {cpu}, WithShell)
    BY <1>1, <1>2, <2>1, StacksFacts, CoveredShrinks DEF StacksAre, Stacked
  <2> QED
    BY <1>6, <1>8, <2>2
<1>11. StackOf' = stacks1
  <2>1. Allocated' \in SUBSET Pids /\ WithShell' \in SUBSET Terminals
    BY <1>6, StacksFacts
  <2> QED
    BY <1>9, <2>1, StacksAreStackOfNext
<1>12. stacks1[scheduled][Len(stacks1[scheduled])] = q
  <2>1. Chain(stacks1[scheduled], cur_term_pid'[scheduled], parent_pid', Allocated')
    BY <1>2, <1>6, <1>9 DEF Stacked
  <2>2. cur_term_pid'[scheduled] = q
    BY <1>4, StacksFacts
  <2> QED
    BY <2>1, <2>2 DEF Chain
<1>13. \/ answer'.cause = "halt" /\ answer'.value \in Status
       \/ answer'.cause = "exception" /\ answer'.value = 256
  BY <1>4 DEF HaltValue, EXCEPTION
<1>14. Stacks!Return
  BY <1>4, <1>5, <1>7, <1>8, <1>9, <1>11, <1>12, <1>13
     DEF Popped, Stacks!Return, Stacks!Front, Stacks!Last
<1> QED
  BY <1>9, <1>10, <1>14 DEF StacksInv, StacksAre

\* Steps that leave the table, the records and the parents alone.
LEMMA SameStacks ==
  ASSUME StacksInv, UNCHANGED <<pid_array, parent_pid, shell_exists, cur_term_pid>>
  PROVE  StacksInv' /\ StackOf' = StackOf
<1>1. Allocated' = Allocated /\ WithShell' = WithShell
  BY DEF Allocated, WithShell
<1>2. PICK stacks : StacksAre(stacks)
  BY DEF StacksInv
<1>3. /\ Stacked(stacks, cur_term_pid', parent_pid', Allocated', WithShell')
      /\ Covered(stacks, Allocated', WithShell')
  BY <1>1, <1>2 DEF StacksAre
<1>4. StackOf' = StackOf
  BY StackOfIsStackFor
<1> QED
  BY <1>3, <1>4 DEF StacksInv, StacksAre

LEMMA SwitchIsRotate ==
  ASSUME SafeInv, StacksInv, TickSwitch
  PROVE  StacksInv' /\ Stacks!Rotate
<1>1. StacksInv' /\ StackOf' = StackOf
  BY SameStacks DEF TickSwitch
<1>2. PICK next : next = NextTerminal /\ shell_exists[next] /\ scheduled' = next /\ answer' = answer
  BY DEF TickSwitch
<1>3. next \in WithShell
  BY <1>2, NextTerminalRotates DEF WithShell, SafeInv, TypeInv, TypeOK
<1>4. StackOf[next] # <<>>
  <2>1. PICK stacks : StacksAre(stacks)
    BY DEF StacksInv
  <2>2. StackOf = stacks
    BY <2>1, StacksAreStackOf
  <2> QED
    BY <1>3, <2>1, <2>2 DEF StacksAre, Stacked, Chain
<1>5. Stacks!NextTerminal = next
  BY <1>2, StacksNextTerminal
<1> QED
  BY <1>1, <1>2, <1>4, <1>5 DEF Stacks!Rotate

LEMMA RefusalIsRefuse ==
  ASSUME SafeInv, StacksInv, ExecuteInvalid \/ ExecuteFull
  PROVE  StacksInv' /\ Stacks!Refuse
<1>1. cpu # 0 /\ UNCHANGED <<kernelVars, terminalVars>> /\ answer'.to = cpu
  BY DEF ExecuteInvalid, ExecuteFull
<1>2. StacksInv' /\ StackOf' = StackOf /\ scheduled' = scheduled
  BY <1>1, SameStacks DEF kernelVars, terminalVars
<1>3. PICK stacks : StacksAre(stacks)
  BY DEF StacksInv
<1>4. StackOf = stacks
  BY <1>3, StacksAreStackOf
<1>5. stacks[scheduled] # <<>> /\ stacks[scheduled][Len(stacks[scheduled])] = cpu
  BY <1>1, <1>3, RunningOnTop
<1>6. \/ answer'.cause = "invalid" /\ answer'.value = -1
      \/ answer'.cause = "full" /\ answer'.value = 0 /\ Stacks!InUse = Pids
  <2>1. CASE ExecuteInvalid
    BY <2>1 DEF ExecuteInvalid, INVALID
  <2>2. CASE ExecuteFull
    <3>1. FreePids(pid_array) = {} /\ answer'.cause = "full" /\ answer'.value = 0
      BY <2>2 DEF ExecuteFull
    <3>2. Allocated = Pids
      BY <3>1 DEF FreePids, Allocated, SafeInv, TypeInv, TypeOK, Pids, PidOrNone
    <3> QED
      BY <1>3, <3>1, <3>2, SameInUse
  <2> QED
    BY <2>1, <2>2
<1> QED
  BY <1>1, <1>2, <1>4, <1>5, <1>6 DEF Stacks!Refuse, Stacks!Last

LEMMA RestartIsRestart ==
  ASSUME SafeInv, StacksInv, OrderlyEnvironment, Booted, NEW fault,
         parent_pid[current_process] = 0, RestartShell(fault)
  PROVE  StacksInv' /\ Stacks!Restart
<1>1. UNCHANGED <<pid_array, parent_pid, shell_exists, cur_term_pid, scheduled>>
  BY RestartKeepsEverything DEF terminalVars
<1>2. StacksInv' /\ StackOf' = StackOf /\ answer' = answer
  BY <1>1, SameStacks DEF RestartShell
<1>3. PICK stacks : StacksAre(stacks)
  BY DEF StacksInv
<1>4. StackOf = stacks
  BY <1>3, StacksAreStackOf
<1>5. cpu # 0
  BY DEF SafeInv, Inv, Glue
<1>6. PICK s : s = stacks[scheduled]
  OBVIOUS
<1>7. /\ s \in Seq(Allocated) /\ s # <<>> /\ s[Len(s)] = cpu /\ parent_pid[cpu] = 0
      /\ \A i \in 1..(Len(s) - 1) : parent_pid[s[i + 1]] = s[i]
  BY <1>3, <1>5, <1>6, RunningOnTop DEF Chain
<1>8. PICK k \in Nat : Len(s) = k + 1
  <2>1. Len(s) \in Nat \ {0}
    BY <1>7
  <2>2. Len(s) - 1 \in Nat /\ Len(s) = (Len(s) - 1) + 1
    BY <2>1
  <2> QED
    BY <2>2
<1>9. k = 0
  <2> SUFFICES ASSUME k # 0 PROVE FALSE
    OBVIOUS
  <2>1. k \in 1..(Len(s) - 1) /\ k \in 1..Len(s)
    BY <1>8
  <2>2. s[k] = 0
    BY <1>7, <1>8, <2>1
  <2>3. s[k] \in Allocated
    BY <1>7, <2>1, ElementOfSeq
  <2> QED
    BY <2>2, <2>3 DEF Allocated, Pids
<1> QED
  BY <1>1, <1>2, <1>4, <1>6, <1>8, <1>9 DEF Stacks!Restart, Stacks!vars

LEMMA StacksStep ==
  ASSUME SafeInv, StacksInv, ~GOD, OrderlyEnvironment, [Next]_vars
  PROVE  StacksInv' /\ [Stacks!Next]_(Stacks!vars)
<1>1. CASE UNCHANGED vars
  <2>1. UNCHANGED <<pid_array, parent_pid, shell_exists, cur_term_pid, scheduled, answer>>
    BY <1>1 DEF vars, kernelVars, terminalVars, ghostVars
  <2> QED
    BY <2>1, SameStacks DEF Stacks!vars
<1>2. CASE Tick
  <2>1. TickBoot \/ TickSwitch
    BY <1>2, OrderlyTick
  <2> QED
    BY <2>1, BootIsBoot, SwitchIsRotate DEF Stacks!Next
<1>3. CASE \E file \in Files : Execute(file)
  BY <1>3, ExecuteIsCall DEF Stacks!Next
<1>4. CASE ExecuteInvalid \/ ExecuteFull
  BY <1>4, RefusalIsRefuse DEF Stacks!Next
<1>5. CASE \E t \in Terminals : SwitchTerminal(t)
  <2>1. UNCHANGED <<pid_array, parent_pid, shell_exists, cur_term_pid, scheduled, answer>>
    BY <1>5 DEF SwitchTerminal, kernelVars, ghostVars
  <2> QED
    BY <2>1, SameStacks DEF Stacks!vars
<1>6. CASE (\E status \in Status : Halt(status)) \/ Exception
  <2>1. Booted /\ cpu # 0
    BY <1>6 DEF Halt, Exception, Running, OrderlyEnvironment
  <2>2. CASE parent_pid[current_process] = 0
    <3>1. PICK fault : RestartShell(fault)
      BY <1>6, <2>2 DEF Halt, Exception
    <3> QED
      BY <2>1, <2>2, <3>1, RestartIsRestart DEF Stacks!Next
  <2>3. CASE parent_pid[current_process] # 0
    <3>1. CASE \E status \in Status : Halt(status)
      <4>1. PICK status \in Status : HaltToParent(status, FALSE)
        BY <2>3, <3>1 DEF Halt
      <4> QED
        BY <2>1, <2>3, <4>1, HaltIsReturn DEF Stacks!Next
    <3>2. CASE Exception
      <4>1. HaltToParent(0, TRUE)
        BY <2>3, <3>2 DEF Exception
      <4> QED
        BY <2>1, <2>3, <4>1, HaltIsReturn DEF Stacks!Next
    <3> QED
      BY <1>6, <3>1, <3>2
  <2> QED
    BY <2>2, <2>3
<1> QED
  BY <1>1, <1>2, <1>3, <1>4, <1>5, <1>6 DEF Next

LEMMA StacksStart ==
  ASSUME Init
  PROVE  StacksInv /\ Stacks!Init
<1>1. cur_term_pid = [t \in Terminals |-> 0] /\ WithShell = {} /\ Allocated = {}
  BY DEF Init, InitTable, WithShell, Allocated, Pids, PidOrNone
<1>2. PICK stacks : stacks = [t \in Terminals |-> <<>>]
  OBVIOUS
<1>3. StacksAre(stacks)
  BY <1>1, <1>2 DEF StacksAre, Stacked, Covered
<1>4. StackOf = stacks
  BY <1>1, <1>2 DEF StackOf
<1>5. (CHOOSE t \in Terminals : \A u \in Terminals : u <= t) = NTerminals - 1
  <2>1. NTerminals - 1 \in Terminals /\ \A u \in Terminals : u <= NTerminals - 1
    BY DEF Terminals
  <2>2. \A t \in Terminals : (\A u \in Terminals : u <= t) => t = NTerminals - 1
    BY <2>1 DEF Terminals
  <2> QED
    BY <2>1, <2>2
<1>6. Stacks!Init
  BY <1>2, <1>4, <1>5 DEF Init, Stacks!Init
<1> QED
  BY <1>3, <1>6 DEF StacksInv

\* The process table, the PCBs and the terminal array are the stacks of programs
\* that TerminalStacks describes: the timer starts a shell where there is none or
\* passes the processor on to the next terminal's top; execute pushes a program
\* with an identity nobody has, or refuses, for want of one only when all are in
\* use; halt pops, and answers the program below with the status, or with 256 if
\* an exception ended the one on top; a shell that ends is replaced; and which
\* terminal is displayed changes nothing.
THEOREM KernelIsStacks ==
  ASSUME OrderlyEnvironment, ~ShellFaults
  PROVE  Spec => Stacks!Init /\ [][Stacks!Next]_(Stacks!vars)
<1>1. Init => ~GOD /\ StacksInv /\ Stacks!Init
  BY StacksStart DEF Init
<1>2. ~GOD /\ [Next]_vars => ~GOD'
  BY GodStaysDown
<1>3. SafeInv /\ StacksInv /\ ~GOD /\ [Next]_vars
        => StacksInv' /\ [Stacks!Next]_(Stacks!vars)
  BY StacksStep
<1>4. Spec => [](TypeInv /\ Inv)
  BY InvHolds
<1>5. TypeInv /\ Inv <=> SafeInv
  BY DEF SafeInv
<1> QED
  BY <1>1, <1>2, <1>3, <1>4, <1>5, PTL DEF Spec

-----------------------------------------------------------------------------
(* The frames of the tasks.                                                *)

LEMMA PidsHaveAddresses == \A p \in Pids : p \in {1, 2, 3, 4, 5, 6}
<1>1. Len(TaskAddress) = 6
  BY DEF TaskAddress
<1> QED
  BY <1>1, AddressSpacesAssumption DEF Pids

\* No two programs share a frame, although the third address is masked, and no
\* program has the kernel's or that of the screens.
LEMMA TaskFramesDistinct ==
  ASSUME NEW p \in Pids, NEW q \in Pids, TaskFrame(p) = TaskFrame(q)
  PROVE  p = q
<1>1. /\ TaskFrame(1) = 2 /\ TaskFrame(2) = 3 /\ TaskFrame(3) = 32
      /\ TaskFrame(4) = 5 /\ TaskFrame(5) = 6 /\ TaskFrame(6) = 7
  BY DEF TaskFrame, TaskAddress, OFFSET_4MB
<1> QED
  BY <1>1, PidsHaveAddresses

-----------------------------------------------------------------------------
(* What the kernel's records are worth while it has not crashed.           *)

\* The frame pointers of a PCB lead to its own program's stack, and the program
\* that runs is the current one and the one on record, if there is one, for the
\* terminal it runs on.  This holds also where the other properties of Processes
\* fail, which is why a program the kernel resumes is the one it maps.
RecordsLeadHome ==
  /\ \A p \in Pids : ebp[p] \in {0, p} /\ ebp_switch[p] \in {0, p}
  /\ cpu # 0 => /\ cpu = current_process
                /\ task_page = cpu
                /\ shell_exists[scheduled]
                /\ cur_term_pid[scheduled] \in {0, cpu}
  /\ \A t \in Terminals : ~shell_exists[t] => cur_term_pid[t] = 0

\* The directory, and what is cached of it.
Mapped ==
  /\ page_directory \in [Entries -> [present : BOOLEAN, user : BOOLEAN, frame : Int]]
  /\ page_directory[SCREENS] = Entry(TRUE, FALSE, ScreenFrame)
  /\ page_directory[KERNEL] = Entry(TRUE, FALSE, KernelFrame)
  /\ page_directory[VIDMAP] \in {Entry(FALSE, FALSE, 0), Entry(TRUE, TRUE, ScreenFrame)}
  /\ page_directory[PROGRAM] = Entry(TRUE, TRUE, TaskFrame(task_page))
  /\ tlb \in [Entries -> [present : BOOLEAN, user : BOOLEAN, frame : Int]]
  /\ \A e \in Entries : tlb[e] \in {NotCached, page_directory[e]}
  /\ memory \in [TaskFrames -> PidOrNone]
  /\ task_page \in Pids

PagingInv ==
  /\ TypeInv
  /\ ~crashed => RecordsLeadHome /\ Mapped /\ MemoryKept

\* In these states the program on the processor is mapped, wherever it stores to,
\* and UserReach needs nothing else.
LEMMA PagingInvGivesReach == PagingInv => UserReach
<1> SUFFICES ASSUME PagingInv, ~crashed, cpu # 0 PROVE UserReach
  BY DEF UserReach
<1>1. task_page = cpu
  BY DEF PagingInv, RecordsLeadHome
<1>2. ASSUME NEW e \in Entries
      PROVE  Translation(page_directory, tlb, e) = page_directory[e]
  BY DEF Translation, PagingInv, Mapped
<1>3. ASSUME NEW e \in Entries, page_directory[e].present, page_directory[e].user
      PROVE  page_directory[e].frame \in {ScreenFrame, TaskFrame(cpu)}
  BY <1>1, <1>3 DEF PagingInv, Mapped, Entries, Entry
<1>4. page_directory[SCREENS].present /\ page_directory[KERNEL].present
  BY DEF PagingInv, Mapped, Entry
<1> QED
  BY <1>2, <1>3, <1>4 DEF UserReach

-----------------------------------------------------------------------------
(* The kernel's part of each step.                                         *)

LEMMA PagedStepIsStep == PagedNext => [Next]_vars
<1> SUFFICES ASSUME PagedNext PROVE [Next]_vars
  OBVIOUS
<1>1. CASE PagedTick
  BY <1>1 DEF PagedTick, Next, Tick
<1>2. CASE \E file \in Files : PagedExecute(file)
  BY <1>2 DEF PagedExecute, Next
<1>3. CASE PagedRefusal
  BY <1>3 DEF PagedRefusal, Next
<1>4. CASE PagedEnd
  BY <1>4 DEF PagedEnd, Next
<1>5. CASE \E t \in Terminals : PagedSwitchTerminal(t)
  BY <1>5 DEF PagedSwitchTerminal, Next
<1>6. CASE Vidmap \/ Store
  BY <1>6 DEF Vidmap, Store
<1> QED
  BY <1>1, <1>2, <1>3, <1>4, <1>5, <1>6 DEF PagedNext

\* A program that is started runs, is current, is mapped and is on record.
LEMMA StartLeadsHome ==
  ASSUME TypeInv, RecordsLeadHome,
         NEW table \in [PidOrNone -> {0, 1}], table[0] = 1,
         NEW file, NEW n \in Pids, NEW t \in Terminals, NEW left,
         StartProgram(table, file, n, t, left)
  PROVE  /\ \A p \in Pids : ebp'[p] \in {0, p}
         /\ cpu' = n /\ current_process' = n /\ current_pid' = n /\ task_page' = n
         /\ cur_term_pid' = [cur_term_pid EXCEPT ![t] = n]
         /\ \A p \in Pids \ {n} : pid_array'[p] = table[p]
         /\ pid_array'[n] = 1
<1>1. cpu # 0 => current_pid = cpu
  BY DEF TypeInv, RecordsLeadHome
<1>2. ASSUME NEW p \in Pids PROVE ebp'[p] \in {0, p}
  BY <1>1 DEF StartProgram, ParentOf, TypeInv, TypeOK, RecordsLeadHome
<1>3. \A p \in Pids : p \in PidOrNone
  BY DEF Pids, PidOrNone
<1> QED
  BY <1>2, <1>3 DEF StartProgram, RecordTerminal

\* What the timer saves leads home too, if the save does not fault.
LEMMA SavedLeadsHome ==
  ASSUME TypeInv, RecordsLeadHome, ~SaveFaults
  PROVE  /\ SavedContexts \in [Pids -> PidOrNone]
         /\ \A p \in Pids : SavedContexts[p] \in {0, p}
<1>1. cur_term_pid[scheduled] \in PidOrNone /\ ebp_switch \in [Pids -> PidOrNone]
  BY DEF TypeInv, TypeOK
<1>2. CASE boot_flag = 1 /\ cpu # 0
  <2>1. cur_term_pid[scheduled] = cpu
    BY <1>2 DEF SaveFaults, RecordsLeadHome
  <2> QED
    BY <1>1, <1>2, <2>1 DEF SavedContexts, RecordsLeadHome, TypeInv, TypeOK
<1>3. CASE boot_flag = 1 /\ cpu = 0
  <2>1. SavedContexts = [ebp_switch EXCEPT ![cur_term_pid[scheduled]] = 0]
    BY <1>3 DEF SavedContexts
  <2>2. 0 \in PidOrNone
    BY DEF PidOrNone
  <2>3. SavedContexts \in [Pids -> PidOrNone]
    BY <1>1, <2>1, <2>2
  <2>4. ASSUME NEW p \in Pids PROVE SavedContexts[p] \in {0, p}
    BY <1>1, <2>1 DEF RecordsLeadHome
  <2> QED
    BY <2>3, <2>4
<1>4. CASE boot_flag # 1
  BY <1>1, <1>4 DEF SavedContexts, RecordsLeadHome
<1> QED
  BY <1>2, <1>3, <1>4

LEMMA RecordsTickBoot ==
  ASSUME TypeInv, RecordsLeadHome, TickBoot
  PROVE  /\ RecordsLeadHome'
         /\ \/ /\ pid_array' # pid_array
               /\ current_pid' \in Pids
               /\ task_page' = current_pid'
               /\ \A p \in Pids : pid_array'[p] = 1 => pid_array[p] = 1 \/ p = current_pid'
            \/ UNCHANGED <<pid_array, task_page>>
<1> DEFINE next == NextTerminal
<1>1. next \in Terminals
  BY NextTerminalRotates DEF TypeInv, TypeOK
<1>2. /\ ~SaveFaults /\ ~shell_exists[next]
      /\ ebp_switch' = SavedContexts
      /\ scheduled' = next
      /\ shell_exists' = [shell_exists EXCEPT ![next] = TRUE]
  BY DEF TickBoot
<1>3. \A p \in Pids : ebp_switch'[p] \in {0, p}
  BY <1>2, SavedLeadsHome
<1>4. /\ shell_exists'[scheduled']
      /\ \A t \in Terminals : ~shell_exists'[t] => ~shell_exists[t] /\ t # next
  BY <1>1, <1>2 DEF TypeInv, TypeOK
<1>5. CASE \E n \in PidOrNone :
             /\ IsNextPid(pid_array, n)
             /\ StartProgram(pid_array, "shell", n, next,
                             IF ParentOf("shell", n) >= 1 THEN {"tick", "execute"}
                                                          ELSE {"tick"})
  <2>1. PICK n \in PidOrNone :
             /\ IsNextPid(pid_array, n)
             /\ StartProgram(pid_array, "shell", n, next,
                             IF ParentOf("shell", n) >= 1 THEN {"tick", "execute"}
                                                          ELSE {"tick"})
    BY <1>5
  <2>2. pid_array \in [PidOrNone -> {0, 1}] /\ pid_array[0] = 1
    BY DEF TypeInv, TypeOK
  <2>3. n \in Pids /\ pid_array[n] = 0
    BY <2>1, <2>2, NextPidIsPid
  <2>4. /\ \A p \in Pids : ebp'[p] \in {0, p}
        /\ cpu' = n /\ current_process' = n /\ current_pid' = n /\ task_page' = n
        /\ cur_term_pid' = [cur_term_pid EXCEPT ![next] = n]
        /\ \A p \in Pids \ {n} : pid_array'[p] = pid_array[p]
        /\ pid_array'[n] = 1
    <3>1. StartProgram(pid_array, "shell", n, next,
                       IF ParentOf("shell", n) >= 1 THEN {"tick", "execute"} ELSE {"tick"})
      BY <2>1
    <3>2. PICK marks : StartProgram(pid_array, "shell", n, next, marks)
      BY <3>1
    <3> QED
      BY <1>1, <2>2, <2>3, <3>2, StartLeadsHome
  <2>5. \A t \in Terminals : cur_term_pid'[t] = IF t = next THEN n ELSE cur_term_pid[t]
    BY <2>4 DEF TypeInv, TypeOK
  <2>6. RecordsLeadHome'
    BY <1>1, <1>2, <1>3, <1>4, <2>4, <2>5 DEF RecordsLeadHome
  <2> QED
    BY <2>3, <2>4, <2>6
<1>6. CASE UNCHANGED <<pid_array, parent_pid, ebp, current_pid, current_process,
                       cur_term_pid, esp0, task_page, cpu, kstack, home>>
  <2>1. cur_term_pid[next] = 0
    BY <1>1, <1>2 DEF RecordsLeadHome
  <2> QED
    BY <1>1, <1>2, <1>3, <1>4, <1>6, <2>1 DEF RecordsLeadHome
<1> QED
  BY <1>5, <1>6 DEF TickBoot

LEMMA RecordsTickSwitch ==
  ASSUME TypeInv, RecordsLeadHome, TickSwitch, ~crashed'
  PROVE  RecordsLeadHome' /\ task_page' \in Pids /\ UNCHANGED pid_array
<1> DEFINE next == NextTerminal
           p == cur_term_pid[next]
<1>1. next \in Terminals /\ p \in PidOrNone
  BY NextTerminalRotates DEF TypeInv, TypeOK
<1>2. /\ ~SaveFaults /\ shell_exists[next] /\ p # 0
      /\ ebp_switch' = SavedContexts
      /\ scheduled' = next /\ current_process' = p /\ task_page' = p
      /\ Resume(SavedContexts[p], "tick", Interrupted)
      /\ UNCHANGED <<pid_array, ebp, shell_exists, cur_term_pid>>
  BY DEF TickSwitch
<1>3. p \in Pids
  BY <1>1, <1>2 DEF Pids, PidOrNone
<1>4. \A x \in Pids : ebp_switch'[x] \in {0, x}
  BY <1>2, SavedLeadsHome
<1>5. SavedContexts[p] \in {0, p}
  BY <1>2, <1>3, SavedLeadsHome
<1>6. cpu' = p
  BY <1>2, <1>5 DEF Resume
<1> QED
  BY <1>1, <1>2, <1>3, <1>4, <1>6 DEF RecordsLeadHome

LEMMA RecordsTickIdle ==
  ASSUME TypeInv, RecordsLeadHome, TickIdle
  PROVE  RecordsLeadHome' /\ UNCHANGED <<pid_array, task_page>>
<1>1. NextTerminal \in Terminals
  BY NextTerminalRotates DEF TypeInv, TypeOK
<1>2. \A p \in Pids : ebp_switch'[p] \in {0, p}
  BY SavedLeadsHome DEF TickIdle
<1> QED
  BY <1>1, <1>2 DEF TickIdle, RecordsLeadHome, ghostVars

LEMMA RecordsExecute ==
  ASSUME TypeInv, RecordsLeadHome, NEW file, Execute(file)
  PROVE  /\ RecordsLeadHome'
         /\ current_pid' \in Pids
         /\ task_page' = current_pid'
         /\ \A p \in Pids : pid_array'[p] = 1 => pid_array[p] = 1 \/ p = current_pid'
<1>1. PICK n \in PidOrNone :
           /\ IsNextPid(pid_array, n)
           /\ StartProgram(pid_array, file, n, scheduled, {"execute"})
  BY DEF Execute
<1>2. pid_array \in [PidOrNone -> {0, 1}] /\ pid_array[0] = 1 /\ scheduled \in Terminals
  BY DEF TypeInv, TypeOK
<1>3. n \in Pids
  BY <1>1, <1>2, NextPidIsPid
<1>4. /\ \A p \in Pids : ebp'[p] \in {0, p}
      /\ cpu' = n /\ current_process' = n /\ current_pid' = n /\ task_page' = n
      /\ cur_term_pid' = [cur_term_pid EXCEPT ![scheduled] = n]
      /\ \A p \in Pids \ {n} : pid_array'[p] = pid_array[p]
  <2>1. PICK marks : StartProgram(pid_array, file, n, scheduled, marks)
    BY <1>1
  <2> QED
    BY <1>2, <1>3, <2>1, StartLeadsHome
<1>5. cpu # 0 /\ UNCHANGED <<ebp_switch, scheduled, shell_exists>>
  BY DEF Execute
<1>6. \A t \in Terminals : cur_term_pid'[t] = IF t = scheduled THEN n ELSE cur_term_pid[t]
  BY <1>4 DEF TypeInv, TypeOK
<1>7. RecordsLeadHome'
  BY <1>2, <1>4, <1>5, <1>6 DEF RecordsLeadHome
<1> QED
  BY <1>3, <1>4, <1>7

\* A program that ends and whose caller is resumed gives it the processor with
\* its page and its record; otherwise the kernel has crashed.
LEMMA RecordsHaltToParent ==
  ASSUME TypeInv, RecordsLeadHome, cpu # 0, parent_pid[current_process] # 0,
         NEW status, NEW fault, HaltToParent(status, fault), ~crashed'
  PROVE  /\ RecordsLeadHome'
         /\ task_page' \in Pids
         /\ \A p \in Pids : pid_array'[p] = 1 => pid_array[p] = 1
<1> DEFINE q == parent_pid[current_process]
           stacks == [kstack EXCEPT ![cpu] = {}]
<1>1. current_process \in Pids /\ q \in Pids /\ scheduled \in Terminals
  BY DEF TypeInv, TypeOK, Pids, PidOrNone
<1>2. /\ task_page' = q /\ current_process' = q
      /\ pid_array' = [pid_array EXCEPT ![current_pid] = 0]
      /\ cur_term_pid' = [cur_term_pid EXCEPT ![scheduled] = q]
      /\ Resume(ebp[q], "execute", stacks)
      /\ UNCHANGED <<ebp, ebp_switch, scheduled, shell_exists>>
  BY DEF HaltToParent, PageAfterHalt, FreedByHalt, RecordTerminal
<1>3. cpu' = ebp[q] /\ ebp[q] # 0
  BY <1>2 DEF Resume
<1>4. cpu' = q
  BY <1>1, <1>3 DEF RecordsLeadHome
<1>5. \A t \in Terminals : cur_term_pid'[t] = IF t = scheduled THEN q ELSE cur_term_pid[t]
  BY <1>2 DEF TypeInv, TypeOK
<1>6. \A p \in Pids : pid_array'[p] = 1 => pid_array[p] = 1
  BY <1>2 DEF TypeInv, TypeOK, Pids, PidOrNone
<1>7. shell_exists[scheduled]
  BY DEF RecordsLeadHome
<1>8. RecordsLeadHome'
  BY <1>1, <1>2, <1>4, <1>5, <1>7 DEF RecordsLeadHome
<1> QED
  BY <1>1, <1>2, <1>6, <1>8

LEMMA RecordsRestart ==
  ASSUME TypeInv, RecordsLeadHome, cpu # 0, NEW fault, RestartShell(fault)
  PROVE  /\ RecordsLeadHome'
         /\ current_pid' \in Pids
         /\ task_page' = current_pid'
         /\ \A p \in Pids : pid_array'[p] = 1 => pid_array[p] = 1 \/ p = current_pid'
<1>1. RestartedPid \in Pids /\ 0 \in PidOrNone /\ RestartedPid # 0
  BY DEF RestartedPid, TypeInv, TypeOK, Terminals, Pids, PidOrNone
<1>2. PICK table \in [PidOrNone -> {0, 1}] : table = [pid_array EXCEPT ![RestartedPid] = 0]
  BY DEF TypeInv, TypeOK
<1>0. table[0] = 1 /\ scheduled \in Terminals
  BY <1>1, <1>2 DEF TypeInv, TypeOK
<1>3. PICK n \in PidOrNone :
           /\ IsNextPid(table, n)
           /\ StartProgram(table, "shell", n, scheduled,
                           IF ParentOf("shell", n) >= 1 THEN {"execute"} ELSE {})
  BY <1>2 DEF RestartShell
<1>4. n \in Pids
  BY <1>0, <1>3, NextPidIsPid
<1>5. /\ \A p \in Pids : ebp'[p] \in {0, p}
      /\ cpu' = n /\ current_process' = n /\ current_pid' = n /\ task_page' = n
      /\ cur_term_pid' = [cur_term_pid EXCEPT ![scheduled] = n]
      /\ \A p \in Pids \ {n} : pid_array'[p] = table[p]
  <2>1. PICK left : StartProgram(table, "shell", n, scheduled, left)
    BY <1>3
  <2>2. /\ \A p \in Pids : ebp'[p] \in {0, p}
        /\ cpu' = n /\ current_process' = n /\ current_pid' = n /\ task_page' = n
        /\ cur_term_pid' = [cur_term_pid EXCEPT ![scheduled] = n]
        /\ \A p \in Pids \ {n} : pid_array'[p] = table[p]
        /\ pid_array'[n] = 1
    BY <1>0, <1>4, <2>1, StartLeadsHome, Zenon
  <2> QED
    BY <2>2
<1>6. UNCHANGED <<ebp_switch, scheduled, shell_exists>>
  BY DEF RestartShell
<1>7. \A t \in Terminals : cur_term_pid'[t] = IF t = scheduled THEN n ELSE cur_term_pid[t]
  BY <1>5 DEF TypeInv, TypeOK
<1>8. shell_exists[scheduled] /\ scheduled \in Terminals
  BY <1>0 DEF RecordsLeadHome
<1>9. RecordsLeadHome'
  BY <1>4, <1>5, <1>6, <1>7, <1>8 DEF RecordsLeadHome
<1>10. \A p \in Pids : table[p] = 1 => pid_array[p] = 1
  BY <1>1, <1>2 DEF TypeInv, TypeOK, Pids, PidOrNone
<1> QED
  BY <1>4, <1>5, <1>9, <1>10

-----------------------------------------------------------------------------
(* The address space's part of each step.                                  *)

LEMMA TypesOfEntries ==
  /\ \A e \in {SCREENS, KERNEL, PROGRAM, VIDMAP} : e \in Entries
  /\ SCREENS # KERNEL /\ SCREENS # PROGRAM /\ SCREENS # VIDMAP
  /\ KERNEL # PROGRAM /\ KERNEL # VIDMAP /\ PROGRAM # VIDMAP
  /\ ScreenFrame \in Int /\ KernelFrame \in Int
  /\ \A p \in Pids : TaskFrame(p) \in Int /\ TaskFrame(p) \in TaskFrames
<1>1. /\ TaskFrame(1) = 2 /\ TaskFrame(2) = 3 /\ TaskFrame(3) = 32
      /\ TaskFrame(4) = 5 /\ TaskFrame(5) = 6 /\ TaskFrame(6) = 7
  BY DEF TaskFrame, TaskAddress, OFFSET_4MB
<1>2. \A p \in Pids : TaskFrame(p) \in Int
  BY <1>1, PidsHaveAddresses
<1>3. \A p \in Pids : TaskFrame(p) \in TaskFrames
  BY DEF TaskFrames
<1> QED
  BY <1>2, <1>3 DEF Entries, SCREENS, KERNEL, PROGRAM, VIDMAP, ScreenFrame, KernelFrame

\* allocate_tasks maps the task it is given and leaves no translation cached.
LEMMA AllocateMaps ==
  ASSUME Mapped, NEW p \in Pids, AllocateTasks(p), task_page' = p,
         memory' \in [TaskFrames -> PidOrNone]
  PROVE  Mapped' /\ LoadThrough = TaskFrame(p)
<1>1. /\ page_directory' = [page_directory EXCEPT ![PROGRAM] = Entry(TRUE, TRUE, TaskFrame(p))]
      /\ tlb' = [e \in Entries |-> NotCached]
  BY DEF AllocateTasks, MapTask, Flushed
<1>2. /\ Entry(TRUE, TRUE, TaskFrame(p)) \in [present : BOOLEAN, user : BOOLEAN, frame : Int]
      /\ NotCached \in [present : BOOLEAN, user : BOOLEAN, frame : Int]
  BY TypesOfEntries DEF Entry, NotCached
<1>3. page_directory' \in [Entries -> [present : BOOLEAN, user : BOOLEAN, frame : Int]]
  BY <1>1, <1>2 DEF Mapped
<1>4. /\ page_directory'[PROGRAM] = Entry(TRUE, TRUE, TaskFrame(p))
      /\ \A e \in Entries \ {PROGRAM} : page_directory'[e] = page_directory[e]
  BY <1>1, TypesOfEntries DEF Mapped
<1>5. tlb' \in [Entries -> [present : BOOLEAN, user : BOOLEAN, frame : Int]]
  BY <1>1, <1>2
<1>6. /\ page_directory'[SCREENS] = page_directory[SCREENS]
      /\ page_directory'[KERNEL] = page_directory[KERNEL]
      /\ page_directory'[VIDMAP] = page_directory[VIDMAP]
  BY <1>4, TypesOfEntries
<1>7. Mapped'
  BY <1>1, <1>3, <1>4, <1>5, <1>6, TypesOfEntries DEF Mapped
<1>8. LoadThrough = TaskFrame(p)
  BY <1>1, <1>4, TypesOfEntries DEF LoadThrough, Translation, Entry
<1> QED
  BY <1>7, <1>8

\* A program is loaded into its own frame, and the others' are left alone.
LEMMA LoadKeepsMemory ==
  ASSUME Mapped, \A p \in Allocated : memory[TaskFrame(p)] = p,
         NEW n \in Pids, LoadProgram(n), task_page' = n,
         \A p \in Pids : pid_array'[p] = 1 => pid_array[p] = 1 \/ p = n
  PROVE  Mapped' /\ MemoryKept'
<1>1. n \in PidOrNone /\ TaskFrame(n) \in TaskFrames
  BY TypesOfEntries DEF Pids, PidOrNone
<1>2. memory' \in [TaskFrames -> PidOrNone]
  BY <1>1 DEF LoadProgram, Mapped
<1>3. Mapped' /\ LoadThrough = TaskFrame(n)
  BY <1>2, AllocateMaps DEF LoadProgram
<1>4. memory' = [memory EXCEPT ![TaskFrame(n)] = n]
  BY <1>3 DEF LoadProgram
<1>5. ASSUME NEW p \in Allocated' PROVE memory'[TaskFrame(p)] = p
  <2>1. p \in Pids /\ (p \in Allocated \/ p = n)
    BY DEF Allocated
  <2>2. TaskFrame(p) \in TaskFrames
    BY <2>1, TypesOfEntries
  <2>3. CASE p = n
    BY <1>1, <1>4, <2>3 DEF Mapped
  <2>4. CASE p # n
    <3>1. TaskFrame(p) # TaskFrame(n)
      BY <2>1, <2>4, TaskFramesDistinct
    <3> QED
      BY <1>4, <2>1, <2>2, <2>4, <3>1 DEF Mapped
  <2> QED
    BY <2>3, <2>4
<1> QED
  BY <1>3, <1>5 DEF MemoryKept

\* Another task is mapped, and no memory is written.
LEMMA MapKeepsMemory ==
  ASSUME Mapped, \A p \in Allocated : memory[TaskFrame(p)] = p,
         NEW n \in Pids, AllocateTasks(n), memory' = memory, task_page' = n,
         \A p \in Pids : pid_array'[p] = 1 => pid_array[p] = 1
  PROVE  Mapped' /\ MemoryKept'
<1>1. Mapped'
  BY AllocateMaps DEF Mapped
<1>2. \A p \in Allocated' : p \in Allocated
  BY DEF Allocated
<1> QED
  BY <1>1, <1>2 DEF MemoryKept

\* The cache may be emptied at any time.
LEMMA FlushKeepsMemory ==
  ASSUME Mapped, \A p \in Allocated : memory[TaskFrame(p)] = p,
         tlb' \in {tlb, Flushed}, UNCHANGED <<page_directory, memory, pid_array, task_page>>
  PROVE  Mapped' /\ MemoryKept'
<1>1. NotCached \in [present : BOOLEAN, user : BOOLEAN, frame : Int]
  BY DEF NotCached, Entry
<1>2. CASE tlb' = tlb
  BY <1>2 DEF Mapped, MemoryKept, Allocated
<1>3. CASE tlb' = Flushed
  <2>1. tlb' \in [Entries -> [present : BOOLEAN, user : BOOLEAN, frame : Int]]
    BY <1>1, <1>3 DEF Flushed
  <2>2. \A e \in Entries : tlb'[e] = NotCached
    BY <1>3 DEF Flushed
  <2> QED
    BY <2>1, <2>2 DEF Mapped, MemoryKept, Allocated
<1> QED
  BY <1>2, <1>3

-----------------------------------------------------------------------------
(* The invariant.                                                          *)

LEMMA PagingInvInit == PagedInit => PagingInv
<1> SUFFICES ASSUME PagedInit PROVE PagingInv
  OBVIOUS
<1>1. Init /\ PagingInit
  BY DEF PagedInit
<1>2. TypeInv
  BY <1>1, TypeInvInit
<1>3. RecordsLeadHome
  BY <1>1 DEF Init, RecordsLeadHome
<1>4. 1 \in Pids /\ 0 \in PidOrNone
  BY DEF Pids, PidOrNone
<1>5. \A present, user \in BOOLEAN : \A f \in Int :
        Entry(present, user, f) \in [present : BOOLEAN, user : BOOLEAN, frame : Int]
  BY DEF Entry
<1>6. BlankPageDir \in [Entries -> [present : BOOLEAN, user : BOOLEAN, frame : Int]]
  <2>1. Entry(FALSE, FALSE, 0) \in [present : BOOLEAN, user : BOOLEAN, frame : Int]
    BY DEF Entry
  <2> QED
    BY <2>1 DEF BlankPageDir
<1>7. SetPageTable(BlankPageDir) \in [Entries -> [present : BOOLEAN, user : BOOLEAN, frame : Int]]
  BY <1>5, <1>6, TypesOfEntries DEF SetPageTable
<1>8. /\ SetPageTable(BlankPageDir)[SCREENS] = Entry(TRUE, FALSE, ScreenFrame)
      /\ SetPageTable(BlankPageDir)[KERNEL] = Entry(TRUE, FALSE, KernelFrame)
      /\ SetPageTable(BlankPageDir)[VIDMAP] = Entry(FALSE, FALSE, 0)
  BY <1>6, TypesOfEntries DEF SetPageTable, BlankPageDir
<1>9. /\ page_directory = [SetPageTable(BlankPageDir) EXCEPT ![PROGRAM] = Entry(TRUE, TRUE, TaskFrame(1))]
      /\ task_page = 1
      /\ tlb = [e \in Entries |-> NotCached]
      /\ memory = [f \in TaskFrames |-> 0]
  BY <1>1 DEF PagingInit, MapTask, Init
<1>10. Entry(TRUE, TRUE, TaskFrame(1)) \in [present : BOOLEAN, user : BOOLEAN, frame : Int]
  BY <1>4, <1>5, TypesOfEntries
<1>11. page_directory \in [Entries -> [present : BOOLEAN, user : BOOLEAN, frame : Int]]
  BY <1>7, <1>9, <1>10
<1>12. /\ page_directory[SCREENS] = Entry(TRUE, FALSE, ScreenFrame)
       /\ page_directory[KERNEL] = Entry(TRUE, FALSE, KernelFrame)
       /\ page_directory[VIDMAP] = Entry(FALSE, FALSE, 0)
       /\ page_directory[PROGRAM] = Entry(TRUE, TRUE, TaskFrame(task_page))
  BY <1>7, <1>8, <1>9, TypesOfEntries
<1>13. tlb \in [Entries -> [present : BOOLEAN, user : BOOLEAN, frame : Int]]
  <2>1. NotCached \in [present : BOOLEAN, user : BOOLEAN, frame : Int]
    BY DEF NotCached, Entry
  <2> QED
    BY <1>9, <2>1
<1>14. Mapped
  BY <1>4, <1>9, <1>11, <1>12, <1>13 DEF Mapped
<1>15. MemoryKept
  BY <1>1 DEF Init, InitTable, Allocated, Pids, PidOrNone, MemoryKept
<1> QED
  BY <1>2, <1>3, <1>14, <1>15 DEF PagingInv

LEMMA PagingInvTick ==
  ASSUME PagingInv, ~crashed, PagedTick, ~crashed'
  PROVE  RecordsLeadHome' /\ Mapped' /\ MemoryKept'
<1>1. TypeInv /\ RecordsLeadHome /\ Mapped /\ \A p \in Allocated : memory[TaskFrame(p)] = p
  BY DEF PagingInv, MemoryKept
<1>2. CASE TickFault /\ UNCHANGED pagingVars
  BY <1>2 DEF TickFault
<1>3. CASE /\ TickBoot
           /\ IF pid_array' # pid_array THEN LoadProgram(current_pid')
                                        ELSE UNCHANGED pagingVars
  <2>1. /\ RecordsLeadHome'
        /\ \/ /\ pid_array' # pid_array
              /\ current_pid' \in Pids
              /\ task_page' = current_pid'
              /\ \A p \in Pids : pid_array'[p] = 1 => pid_array[p] = 1 \/ p = current_pid'
           \/ UNCHANGED <<pid_array, task_page>>
    BY <1>1, <1>3, RecordsTickBoot
  <2>2. CASE pid_array' # pid_array
    <3>1. LoadProgram(current_pid')
      BY <1>3, <2>2
    <3>2. PICK n \in Pids : n = current_pid'
      BY <2>1, <2>2
    <3>3. /\ LoadProgram(n) /\ task_page' = n
          /\ \A p \in Pids : pid_array'[p] = 1 => pid_array[p] = 1 \/ p = n
      BY <2>1, <2>2, <3>1, <3>2
    <3> QED
      BY <1>1, <2>1, <3>3, LoadKeepsMemory
  <2>3. CASE pid_array' = pid_array
    BY <1>1, <1>3, <2>1, <2>3, FlushKeepsMemory DEF pagingVars
  <2> QED
    BY <2>2, <2>3
<1>4. CASE TickSwitch /\ AllocateTasks(task_page') /\ UNCHANGED memory
  <2>1. RecordsLeadHome' /\ task_page' \in Pids /\ UNCHANGED pid_array
    BY <1>1, <1>4, RecordsTickSwitch
  <2>2. PICK n \in Pids : n = task_page'
    BY <2>1
  <2>3. AllocateTasks(n) /\ memory' = memory /\ task_page' = n
    BY <1>4, <2>2
  <2> QED
    BY <1>1, <2>1, <2>3, MapKeepsMemory
<1>5. CASE TickIdle /\ Flush
  <2>1. RecordsLeadHome' /\ UNCHANGED <<pid_array, task_page>>
    BY <1>1, <1>5, RecordsTickIdle
  <2> QED
    BY <1>1, <1>5, <2>1, FlushKeepsMemory DEF Flush
<1> QED
  BY <1>2, <1>3, <1>4, <1>5 DEF PagedTick

LEMMA PagingInvExecute ==
  ASSUME PagingInv, ~crashed, NEW file, PagedExecute(file)
  PROVE  RecordsLeadHome' /\ Mapped' /\ MemoryKept'
<1>1. TypeInv /\ RecordsLeadHome /\ Mapped /\ \A p \in Allocated : memory[TaskFrame(p)] = p
  BY DEF PagingInv, MemoryKept
<1>2. /\ RecordsLeadHome'
      /\ current_pid' \in Pids
      /\ task_page' = current_pid'
      /\ \A p \in Pids : pid_array'[p] = 1 => pid_array[p] = 1 \/ p = current_pid'
  BY <1>1, RecordsExecute DEF PagedExecute
<1>3. PICK n \in Pids : n = current_pid'
  BY <1>2
<1>4. LoadProgram(n) /\ task_page' = n
      /\ \A p \in Pids : pid_array'[p] = 1 => pid_array[p] = 1 \/ p = n
  BY <1>2, <1>3 DEF PagedExecute
<1> QED
  BY <1>1, <1>2, <1>4, LoadKeepsMemory

LEMMA PagingInvEnd ==
  ASSUME PagingInv, ~crashed, PagedEnd, ~crashed'
  PROVE  RecordsLeadHome' /\ Mapped' /\ MemoryKept'
<1>1. TypeInv /\ RecordsLeadHome /\ Mapped /\ \A p \in Allocated : memory[TaskFrame(p)] = p
  BY DEF PagingInv, MemoryKept
<1>2. cpu # 0
  BY DEF PagedEnd, Halt, Exception
<1>3. CASE parent_pid[current_process] = 0
  <2>1. PICK fault : RestartShell(fault)
    BY <1>3 DEF PagedEnd, Halt, Exception
  <2>2. /\ RecordsLeadHome'
        /\ current_pid' \in Pids
        /\ task_page' = current_pid'
        /\ \A p \in Pids : pid_array'[p] = 1 => pid_array[p] = 1 \/ p = current_pid'
    BY <1>1, <1>2, <2>1, RecordsRestart
  <2>3. PICK n \in Pids : n = current_pid'
    BY <2>2
  <2>4. LoadProgram(n) /\ task_page' = n
        /\ \A p \in Pids : pid_array'[p] = 1 => pid_array[p] = 1 \/ p = n
    BY <1>3, <2>2, <2>3 DEF PagedEnd
  <2> QED
    BY <1>1, <2>2, <2>4, LoadKeepsMemory
<1>4. CASE parent_pid[current_process] # 0
  <2>1. PICK status, fault : HaltToParent(status, fault)
    BY <1>4 DEF PagedEnd, Halt, Exception
  <2>2. /\ RecordsLeadHome'
        /\ task_page' \in Pids
        /\ \A p \in Pids : pid_array'[p] = 1 => pid_array[p] = 1
    BY <1>1, <1>2, <1>4, <2>1, RecordsHaltToParent
  <2>3. PICK n \in Pids : n = task_page'
    BY <2>2
  <2>4. AllocateTasks(n) /\ memory' = memory /\ task_page' = n
    BY <1>4, <2>3 DEF PagedEnd
  <2> QED
    BY <1>1, <2>2, <2>4, MapKeepsMemory
<1> QED
  BY <1>3, <1>4

\* The programs' own steps: the page of vidmap, and a store, which goes to the
\* frame of the program that runs because what is cached agrees with the directory.
LEMMA PagingInvProgram ==
  ASSUME PagingInv, ~crashed, Vidmap \/ Store
  PROVE  RecordsLeadHome' /\ Mapped' /\ MemoryKept'
<1>1. TypeInv /\ RecordsLeadHome /\ Mapped /\ \A p \in Allocated : memory[TaskFrame(p)] = p
  BY DEF PagingInv, MemoryKept
<1>2. /\ UNCHANGED vars /\ RecordsLeadHome' /\ cpu # 0
      /\ UNCHANGED <<pid_array, task_page, cpu>>
  <2>1. UNCHANGED vars /\ cpu # 0
    BY DEF Vidmap, Store
  <2>2. UNCHANGED <<pid_array, ebp, ebp_switch, current_pid, current_process, task_page, cur_term_pid,
                    parent_pid, scheduled, shell_exists, cpu, kstack, home, crashed>>
    BY <2>1 DEF vars, kernelVars, terminalVars, ghostVars
  <2> QED
    BY <1>1, <2>1, <2>2 DEF RecordsLeadHome
<1>3. CASE Vidmap
  <2>1. /\ page_directory' = [page_directory EXCEPT ![VIDMAP] = Entry(TRUE, TRUE, ScreenFrame)]
        /\ tlb' = [e \in Entries |-> NotCached]
        /\ memory' = memory
    BY <1>3 DEF Vidmap, Flushed
  <2>2. /\ Entry(TRUE, TRUE, ScreenFrame) \in [present : BOOLEAN, user : BOOLEAN, frame : Int]
        /\ NotCached \in [present : BOOLEAN, user : BOOLEAN, frame : Int]
    BY TypesOfEntries DEF Entry, NotCached
  <2>3. /\ page_directory' \in [Entries -> [present : BOOLEAN, user : BOOLEAN, frame : Int]]
        /\ tlb' \in [Entries -> [present : BOOLEAN, user : BOOLEAN, frame : Int]]
    BY <1>1, <2>1, <2>2 DEF Mapped
  <2>4. /\ page_directory'[VIDMAP] = Entry(TRUE, TRUE, ScreenFrame)
        /\ page_directory'[SCREENS] = page_directory[SCREENS]
        /\ page_directory'[KERNEL] = page_directory[KERNEL]
        /\ page_directory'[PROGRAM] = page_directory[PROGRAM]
        /\ \A e \in Entries : tlb'[e] = NotCached
    BY <1>1, <2>1, TypesOfEntries DEF Mapped
  <2>5. Mapped'
    BY <1>1, <1>2, <2>1, <2>3, <2>4 DEF Mapped
  <2>6. MemoryKept'
    BY <1>1, <1>2, <2>1 DEF MemoryKept, Allocated
  <2> QED
    BY <1>2, <2>5, <2>6
<1>4. CASE Store
  <2> DEFINE page == Translation(page_directory, tlb, PROGRAM)
  <2>1. page = page_directory[PROGRAM]
    BY <1>1, TypesOfEntries DEF Translation, Mapped
  <2>2. task_page = cpu /\ cpu \in Pids /\ cpu \in PidOrNone
    BY <1>1, <1>2 DEF RecordsLeadHome, Mapped, Pids, PidOrNone
  <2>3. page.frame = TaskFrame(cpu)
    BY <1>1, <2>1, <2>2 DEF Mapped, Entry
  <2>4. /\ tlb' = [tlb EXCEPT ![PROGRAM] = page_directory[PROGRAM]]
        /\ memory' = [memory EXCEPT ![TaskFrame(cpu)] = cpu]
        /\ page_directory' = page_directory
    BY <1>4, <2>1, <2>3 DEF Store
  <2>5. /\ tlb' \in [Entries -> [present : BOOLEAN, user : BOOLEAN, frame : Int]]
        /\ \A e \in Entries : tlb'[e] \in {NotCached, page_directory'[e]}
    BY <1>1, <2>4, TypesOfEntries DEF Mapped
  <2>6. memory' \in [TaskFrames -> PidOrNone]
    BY <1>1, <2>2, <2>4 DEF Mapped
  <2>7. Mapped'
    BY <1>1, <1>2, <2>4, <2>5, <2>6 DEF Mapped
  <2>8. ASSUME NEW p \in Allocated PROVE memory'[TaskFrame(p)] = p
    <3>1. p \in Pids /\ TaskFrame(p) \in TaskFrames
      BY TypesOfEntries DEF Allocated
    <3>2. p # cpu => TaskFrame(p) # TaskFrame(cpu)
      BY <2>2, <3>1, TaskFramesDistinct
    <3> QED
      BY <1>1, <2>4, <3>1, <3>2 DEF Mapped
  <2>9. MemoryKept'
    BY <1>2, <2>8 DEF MemoryKept, Allocated
  <2> QED
    BY <1>2, <2>7, <2>9
<1> QED
  BY <1>3, <1>4

LEMMA PagingInvNext == PagingInv /\ [PagedNext]_<<vars, pagingVars>> => PagingInv'
<1> SUFFICES ASSUME PagingInv, [PagedNext]_<<vars, pagingVars>> PROVE PagingInv'
  OBVIOUS
<1>1. TypeInv'
  BY PagedStepIsStep, TypeInvNext DEF PagingInv
<1>2. SUFFICES ASSUME ~crashed' PROVE RecordsLeadHome' /\ Mapped' /\ MemoryKept'
  BY <1>1 DEF PagingInv
<1>3. CASE UNCHANGED <<vars, pagingVars>>
  <2>1. ~crashed /\ RecordsLeadHome /\ Mapped /\ MemoryKept
    BY <1>2, <1>3 DEF PagingInv, vars, ghostVars
  <2>2. RecordsLeadHome'
    BY <1>3, <2>1 DEF vars, kernelVars, terminalVars, ghostVars, RecordsLeadHome
  <2>3. Mapped' /\ MemoryKept'
    BY <1>3, <2>1 DEF vars, kernelVars, ghostVars, pagingVars, Mapped, MemoryKept, Allocated
  <2> QED
    BY <2>2, <2>3
<1>4. CASE PagedTick
  BY <1>2, <1>4, PagingInvTick DEF PagedTick
<1>5. CASE \E file \in Files : PagedExecute(file)
  BY <1>5, PagingInvExecute DEF PagedExecute, Execute, Running
<1>6. CASE PagedRefusal
  <2>1. ~crashed /\ RecordsLeadHome /\ Mapped /\ MemoryKept
    BY <1>6 DEF PagingInv, PagedRefusal, ExecuteInvalid, ExecuteFull, Running
  <2>2. UNCHANGED <<kernelVars, terminalVars, cpu, pagingVars>>
    BY <1>6 DEF PagedRefusal, ExecuteInvalid, ExecuteFull
  <2>3. RecordsLeadHome'
    BY <2>1, <2>2 DEF kernelVars, terminalVars, RecordsLeadHome
  <2>4. Mapped' /\ MemoryKept'
    BY <2>1, <2>2 DEF kernelVars, pagingVars, Mapped, MemoryKept, Allocated
  <2> QED
    BY <2>3, <2>4
<1>7. CASE PagedEnd
  BY <1>2, <1>7, PagingInvEnd DEF PagedEnd, Halt, Exception, Running
<1>8. CASE \E t \in Terminals : PagedSwitchTerminal(t)
  <2>1. /\ ~crashed /\ RecordsLeadHome /\ Mapped
        /\ \A p \in Allocated : memory[TaskFrame(p)] = p
    BY <1>8 DEF PagingInv, MemoryKept, PagedSwitchTerminal, SwitchTerminal, Running
  <2>2. UNCHANGED <<kernelVars, scheduled, shell_exists, cur_term_pid, cpu>> /\ Flush
    BY <1>8 DEF PagedSwitchTerminal, SwitchTerminal, ghostVars
  <2>3. RecordsLeadHome'
    BY <2>1, <2>2 DEF kernelVars, RecordsLeadHome
  <2> QED
    BY <2>1, <2>2, <2>3, FlushKeepsMemory DEF Flush, kernelVars
<1>9. CASE Vidmap \/ Store
  BY <1>9, PagingInvProgram DEF Vidmap, Store, Running
<1> QED
  BY <1>3, <1>4, <1>5, <1>6, <1>7, <1>8, <1>9 DEF PagedNext

-----------------------------------------------------------------------------
\* A program's memory stays its own: allocate_tasks and flush_tlb are called on
\* every path by which a program gets the processor or is loaded, so that no
\* image is ever loaded over another program's and no store leaves the program's
\* own 4 MB, as long as the kernel has not followed a wild frame pointer.
THEOREM MemoryStaysOwn == PagedSpec => []MemoryKept
<1>1. PagingInv => MemoryKept
  BY DEF PagingInv, MemoryKept
<1> QED
  BY <1>1, PagingInvInit, PagingInvNext, PTL DEF PagedSpec

\* A program reaches its own memory and the screens in user mode and nothing else,
\* also through what the processor has cached of the directory, while the
\* kernel's own pages are present for every program.
THEOREM ReachStaysOwn == PagedSpec => []UserReach
<1> QED
  BY PagingInvGivesReach, PagingInvInit, PagingInvNext, PTL DEF PagedSpec

\* Adding the address space to the kernel takes nothing away and adds nothing:
\* the paged kernel behaves as Processes says, so that every theorem about Spec
\* holds of it.
THEOREM PagedKernelIsKernel == PagedSpec => Spec
<1>1. PagedInit => Init
  BY DEF PagedInit
<1>2. [PagedNext]_<<vars, pagingVars>> => [Next]_vars
  BY PagedStepIsStep DEF vars
<1> QED
  BY <1>1, <1>2, PTL DEF PagedSpec, Spec

\* With the keyboard and the programs waiting for the boot, and base shells that
\* end only where the user looks, the proviso of MemoryKept falls away.
THEOREM MemoryNeverLost ==
  ASSUME OrderlyEnvironment
  PROVE  PagedSpec => [](\A p \in Allocated : memory[TaskFrame(p)] = p)
<1>1. NoWildReturn /\ MemoryKept => \A p \in Allocated : memory[TaskFrame(p)] = p
  BY DEF NoWildReturn, MemoryKept
<1>2. PagedSpec => []NoWildReturn
  BY PagedKernelIsKernel, NeverWild, PTL
<1> QED
  BY <1>1, <1>2, MemoryStaysOwn, PTL
=============================================================================
