---------------------------- MODULE AddressSpaces ----------------------------
(***************************************************************************)
(* Where a program's addresses lead: student-distrib/paging.c,             *)
(* set_paging.S, loader.c and the calls of allocate_tasks in execute, halt *)
(* and the scheduler, added to the actions of Processes.                   *)
(*                                                                         *)
(* There is one page directory for all programs.  Its entry for 128 MB is  *)
(* rewritten whenever another program gets the processor, and the          *)
(* processor may go on using a translation it has cached until the next    *)
(* write to CR3.  Physical memory is counted in frames of 4 MB; what a     *)
(* frame holds is modelled by the program whose image was put there.       *)
(***************************************************************************)
EXTENDS Processes, Sequences

\* The entries of the page directory that are ever present: the first 4 MB
\* (video memory and the saved screens), the kernel, the program, the page
\* vidmap gives to programs.  The others are blank.
SCREENS == 0
KERNEL == 1
PROGRAM == 32
VIDMAP == 50
Entries == {SCREENS, KERNEL, PROGRAM, VIDMAP}

OFFSET_4MB == 4194304

\* The addresses in allocate_tasks.  The third is not a multiple of 4 MB:
\* the mask leaves the frame at 128 MB.
TaskAddress == <<8388608, 12582912, 137922056, 20971520, 25165824, 29360128>>
TaskFrame(task) == TaskAddress[task] \div OFFSET_4MB
TaskFrames == {TaskFrame(p) : p \in Pids}
KernelFrame == 1
ScreenFrame == 0

ASSUME AddressSpacesAssumption == NPids <= Len(TaskAddress)

VARIABLES
  page_directory,  \* [Entries -> entry]
  tlb,             \* [Entries -> entry or NotCached]
  memory           \* [TaskFrames -> PidOrNone]: whose image is there

pagingVars == <<page_directory, tlb, memory>>

Entry(present, user, frame) == [present |-> present, user |-> user, frame |-> frame]
NotCached == Entry(FALSE, FALSE, -1)

-----------------------------------------------------------------------------
(* paging.c and set_paging.S                                               *)

BlankPageDir == [e \in Entries |-> Entry(FALSE, FALSE, 0)]

\* The screens and the kernel are for the supervisor only.
SetPageTable(directory) ==
  [directory EXCEPT ![SCREENS] = Entry(TRUE, FALSE, ScreenFrame),
                    ![KERNEL] = Entry(TRUE, FALSE, KernelFrame)]

MapTask(directory, task) ==
  [directory EXCEPT ![PROGRAM] = Entry(TRUE, TRUE, TaskFrame(task))]

FlushedNot == tlb
Flushed == [e \in Entries |-> NotCached]

\* allocate_tasks
AllocateTasks(task) ==
  /\ page_directory' = MapTask(page_directory, task)
  /\ tlb' = Flushed

\* flush_tlb alone: the scheduler and terminal_switch, for the screens.
Flush ==
  /\ tlb' = Flushed
  /\ UNCHANGED <<page_directory, memory>>

\* How the processor finds a page.
Translation(directory, cached, e) ==
  IF cached[e] # NotCached THEN cached[e] ELSE directory[e]

\* execute_help maps the new program's page, and then program_loader copies the
\* image to where it is mapped.
LoadThroughOld == Translation(page_directory, tlb, PROGRAM).frame
LoadThrough == Translation(page_directory', tlb', PROGRAM).frame
LoadProgram(task) ==
  /\ AllocateTasks(task)
  /\ memory' = [memory EXCEPT ![LoadThrough] = task]

-----------------------------------------------------------------------------
\* entry: blank_page_dir, set_page_table, allocate_tasks(1), then CR3 is loaded.
PagingInit ==
  /\ page_directory = MapTask(SetPageTable(BlankPageDir), 1)
  /\ tlb = [e \in Entries |-> NotCached]
  /\ memory = [f \in TaskFrames |-> 0]

\* The kernel's actions, each with what it does to the address space.
PagedTick ==
  \/ ~crashed /\ TickFault /\ UNCHANGED pagingVars
  \/ /\ ~crashed /\ TickBoot
     /\ IF pid_array' # pid_array THEN LoadProgram(current_pid')
                                  ELSE UNCHANGED pagingVars
  \/ ~crashed /\ TickSwitch /\ AllocateTasks(task_page') /\ UNCHANGED memory
  \/ ~crashed /\ TickIdle /\ Flush

PagedExecute(file) == Execute(file) /\ LoadProgram(current_pid')

PagedRefusal == (ExecuteInvalid \/ ExecuteFull) /\ UNCHANGED pagingVars

PagedEnd ==
  /\ (\E status \in Status : Halt(status)) \/ Exception
  /\ IF parent_pid[current_process] = 0
     THEN LoadProgram(current_pid')
     ELSE AllocateTasks(task_page') /\ UNCHANGED memory

PagedSwitchTerminal(t) == SwitchTerminal(t) /\ Flush

\* vidmap
Vidmap ==
  /\ Running /\ cpu # 0
  /\ page_directory' = [page_directory EXCEPT ![VIDMAP] = Entry(TRUE, TRUE, ScreenFrame)]
  /\ tlb' = Flushed
  /\ UNCHANGED <<vars, memory>>

\* The program that runs writes to its image, at 128 MB, and the processor caches
\* how that page is mapped.  (The page of vidmap never changes its frame here, so
\* whether it is cached makes no difference.)
Store ==
  LET page == Translation(page_directory, tlb, PROGRAM) IN
  /\ Running /\ cpu # 0
  /\ page.present /\ page.user
  /\ tlb' = [tlb EXCEPT ![PROGRAM] = page]
  /\ memory' = [memory EXCEPT ![page.frame] = cpu]
  /\ UNCHANGED <<vars, page_directory>>

PagedInit == Init /\ PagingInit

PagedNext ==
  \/ PagedTick
  \/ \E file \in Files : PagedExecute(file)
  \/ PagedRefusal
  \/ PagedEnd
  \/ \E t \in Terminals : PagedSwitchTerminal(t)
  \/ Vidmap
  \/ Store

PagedSpec == PagedInit /\ [][PagedNext]_<<vars, pagingVars>>

-----------------------------------------------------------------------------
(* Properties.                                                             *)

\* The memory of every program, running, suspended by the timer or waiting for a
\* program it executed, holds that program's image: no other one is ever loaded
\* there, and no other one's stores arrive there, through the directory or
\* through a translation the processor still has cached.
MemoryKept == ~crashed => \A p \in Allocated : memory[TaskFrame(p)] = p

\* In user mode a program reaches its own memory and the screens, and neither the
\* kernel nor another program; the kernel's own pages are there at all times.
UserReach ==
  ~crashed /\ cpu # 0 =>
    /\ \A e \in Entries : LET page == Translation(page_directory, tlb, e) IN
         page.present /\ page.user => page.frame \in {ScreenFrame, TaskFrame(cpu)}
    /\ \A e \in {SCREENS, KERNEL} : page_directory[e].present
=============================================================================
