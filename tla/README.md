# EdwardOS in TLA+

A verification development for EdwardOS, the kernel under `src/student-distrib`:
three terminals, a round-robin scheduler driven by the programmable interval
timer, six processes, a read-only file system, a keyboard, a virtualised
real-time clock. The modules are translated from the C and assembly sources;
`PROJECT.json` maps every definition to the lines it stands for.

## 1. Inventory

| Component | State | Operations | Interacts with |
|---|---|---|---|
| execute and halt (`syscall_helper.c`, `halt.S`, `iret.S`) | `pid_array`, `current_pid`, `current_process`, the PCBs (`parent_pid`, `ebp`, `ebp_switch`), `GOD`, TSS `esp0`, the page at 128 MB | `execute_help`, `halt_help`, `find_next_pid`, `initialize_pcb` | scheduler (which terminal, which context), exceptions, file system (image), terminals (record) |
| scheduler (`scheduler.c`, `schedule_switch.S`, `pit_link.S`) | `terminal_array[].scheduled`, `.shell_exists`, `.cur_term_pid`, `boot_flag` | `PIT_handler`, `scheduler` | execute (starts the shells), PCBs, TSS, page tables, display |
| terminals (`terminal.c`) | `terminal_array[]` | `terminal_init`, `terminal_switch`, `terminal_read`, `terminal_write`, `set_next_scheduled` | keyboard (buffers), display (screens) |
| keyboard (`keyboard.c`) | the modifiers, `keyboard_buffer`, `old_buffer`, `buffer_position`, `terminal_can_read` | `keyboard_handler` | terminals, display |
| exceptions (`idt.c`) | `GOD` | one handler for each exception, all of which halt the program | halt |
| interrupt controllers, gates, stubs, boot (`i8259.c`, `idt.c`, `linker.S`, `pit_link.S`, `boot.S`, `kernel.c`) | the controllers' mask, request and in-service registers, the interrupt flag, the handlers' frames on the kernel stacks | `i8259_init`, `enable_irq`, `send_eoi`, the way into and out of each handler, `entry` | every handler; the scheduler, which leaves a stack in the middle of one |
| page directory, loader (`paging.c`, `set_paging.S`, `loader.c`) | `page_directory`, the processor's cached translations, the programs' memory | `set_page_table`, `allocate_tasks`, `flush_tlb`, `vidmap_helper`, `program_loader` | execute, halt, scheduler, terminal switch |
| file system, descriptors (`file.c`, `syscalls.c`, part of `syscall_helper.c`) | `file_d_array`, `cur_file_dentry` in each PCB; the globals `dentry_index`, `location` | `open`, `close`, `read`, `write`, `read_data`, `read_dentry_by_name`, `directory_read` | RTC and terminals through the jump table of a descriptor |
| real-time clock (`rtc.c`) | `terminal_freq`, `terminal_count`, `interrupt_occured` | `RTC_handler`, `RTC_open`, `RTC_read`, `RTC_write` | terminals (index), descriptors |
| display (`lib.c`, `paging.c`, `cursor.c`) | video memory, a saved screen for each terminal, `screen_x`, `screen_y`, the page of video memory | `putc_*`, `save_vid_mem`, `swap_vid_mem`, `vidmap_helper` | terminal switch, scheduler |
| arguments (`syscall_helper.c`) | `arguments`, `arg_length` in the PCB | `parse_arguments`, `getargs_helper` | execute, the program that asks for them |
| grep (`syscalls/ece391grep.c`), for the user programs | its buffer, the line it is in | `main`, `do_one_file`, `search_file` | getargs, read |

### What is hard here

* **Stacks as continuations.** A program's kernel stack holds the frame of
  `execute` that its child returns through and the frame of the timer that the
  scheduler returns through. `halt_asm` and `schedule_switch` load a saved frame
  pointer and return: whether the frame is still there is nobody's check.
* **Two notions of "this terminal".** The displayed one (`active`) and the one
  whose program runs (`scheduled`) move independently; each operation must use
  the right one.
* **Open windows.** `execute` and `halt` run with interrupts off, except between
  `sti` and the end of the call; reads and all other system calls run with
  interrupts on (the system call gate is a trap gate).
* **Globals where the state belongs to a process**: `GOD`, `dentry_index`,
  `location`, `current_parent_pid`.
* **Order of arrival**: keys between Enter and the read of the line, a terminal
  switch before all shells are up, the end of a shell that is not displayed.
* **Limits**: six pids, 128 characters of a line, eight descriptors.

`PROJECT.json` lists these as hazards at their lines.

### What makes each component correct

* execute, halt, scheduler: one process is the current one for pid, PCB, TSS and
  page; a caller stays suspended, with its frame, until its callee ends; every
  terminal that does not run can be resumed; no process is lost; a pid in use
  belongs to one terminal; 256 means an exception; every terminal gets its turn.
* keyboard and terminals: a line stays in its buffer, what is shown is what is
  buffered, the reader of a terminal gets that terminal's line, whole, once.
* descriptors and files: an open file's successive reads are its contents, and
  one process's calls never change another's descriptors.
* real-time clock: a terminal's clock ticks at its own rate and a reader wakes.
* display: what a program writes is on its own terminal's screen and is there
  when the terminal is displayed again.

## 2. Modules

| Module | Models | Built on |
|---|---|---|
| `Processes` | execute, halt, the scheduler, exceptions, terminal switch: one action for each kernel entry | |
| `TerminalStacks` | abstract: each terminal is a stack of programs | |
| `ProcessesRefinement` | the mapping under which `Processes` implements `TerminalStacks` | both |
| `ProcessesProofs` | theorems about `Processes`, its refinement of `TerminalStacks`, and `AddressSpaces`, with proofs | `ProcessesRefinement`, `AddressSpaces` |
| `ContextSwitch` | the same kernel frame by frame, with the interrupt windows of execute and halt | `TerminalStacks` |
| `ContextSwitchProofs` | theorems about `ContextSwitch` and its refinement of `TerminalStacks`, with proofs | `ContextSwitch` |
| `TerminalInput` | keyboard handler and `terminal_read` | |
| `MCTerminalInput` | the names that Tab completes in the checked instances | `TerminalInput` |
| `TerminalInputProofs` | theorems about `TerminalInput`, with proofs | `TerminalInput` |
| `FileBlocks` | the place in a file from which `read_data` takes each byte | |
| `Descriptors` | open, close, read, the descriptor tables, the directory, `read_data` | `FileBlocks` |
| `OpenFiles` | abstract: each program has its own map from descriptors to objects and positions | |
| `MCDescriptors` | the directory of the checked instances; `ImplementsOpenFiles` is in `Descriptors` | `Descriptors` |
| `DescriptorsProofs` | theorems about `Descriptors` and its refinement of `OpenFiles`, with proofs | `Descriptors` |
| `RealTimeClock` | the interrupt handler, `RTC_open`, `RTC_read`, `RTC_write` | |
| `RealTimeClockProofs` | theorems about `RealTimeClock`, with proofs | `RealTimeClock` |
| `Display` | video memory, the saved screens, the pages that lead to them, `putc_term`, `putc_key`, `removec_key`, Control-L, the terminal switch, `vidmap`, the cursor | |
| `Screens` | abstract: each terminal has a screen of its own, of which one is shown | |
| `MCDisplay` | the banner of the checked instance; `ImplementsScreens` is in `Display` | `Display` |
| `DisplayProofs` | theorems about `Display` and its refinement of `Screens`, with proofs | `Display` |
| `Interrupts` | controllers, gates, the three handlers and their frames on every stack, boot | |
| `InterruptsProofs` | theorems about `Interrupts`, with proofs | `Interrupts` |
| `AddressSpaces` | the page directory, the translation cache, what each program's memory holds | `Processes` |
| `Arguments` | `parse_arguments`, the copy into the PCB, `getargs` | |
| `Grep` | a program that gets its arguments and searches a file through a buffer | `Arguments`, `FileBlocks` |
| `MCGrep` | the bytes, the name and the texts of the checked instance | `Grep` |
| `GrepProofs` | theorems about `Arguments` and `Grep`, with proofs | `Grep` |

### Processes

State is named after the code's: `pid_array`, `parent_pid`, `ebp`, `ebp_switch`,
`current_pid`, `current_process`, `cur_term_pid`, `shell_exists`, `boot_flag`,
`GOD`. `scheduled` and `active` are the indices `get_scheduled_term_idx` and
`get_active_term` return; `esp0` and `task_page` are the pid whose kernel stack is
in the TSS and whose image is mapped at 128 MB. A frame pointer is modelled by
the pid of the stack it points into. Four variables are not the code's and no
guard of the code's reads them: `cpu` (who really runs), `kstack` (which frames
are really on each stack), `home` (the terminal a program was started on) and
`answer` (what execute returned to whom and why). `crashed` records that the
kernel returned through a frame that is gone, or wrote through a PCB that is not
mapped.

One action is one kernel entry: `Tick` (`PIT_handler` with `scheduler`: starts a
missing shell, switches, or goes on), `Execute` and its refusals, `Halt` and
`Exception` (through `halt_help` to the parent, or the restart of a base shell),
`SwitchTerminal`. The start of a shell by the scheduler and by `halt_help`
include the whole of `execute_help`.

Three constants describe the environment. `EarlyInput`: programs and keyboard
act before all shells are up. `InactiveExit`: a base shell may end while another
terminal is displayed. `ShellFaults`: a base shell may be ended by an exception.
Where the code goes wrong under one of them, a run shows it (section 4), and the
remaining runs and theorems say what holds without it.

### TerminalStacks and the refinement

`TerminalStacks` says what the user of the system is promised without a process
table: `Boot` a shell, `Rotate`, `Call` a program on top of the scheduled stack,
`Return` the top program's status to the one below, `Refuse`, `Restart`.
`ProcessesRefinement` reads each terminal's stack off `cur_term_pid` and
`parent_pid` (`PathTo`); `ImplementsStacks` is the abstract specification with its
fairness, checked as a property.

### ContextSwitch

`Processes` has each kernel entry atomic. `ContextSwitch` models the stacks as
sequences of frames, lets the timer interrupt a program in user mode and, per
the constant `TickIn`, in the window of execute between `sti` and `iret`
("launch"), and in the window of halt between `sti` and `halt_asm` or the new
`execute` ("halt"). In the window of execute the new program's context is saved on
the stack of its caller, above the frame that halt will return through.

### TerminalInput

The keyboard interrupt is one action (a trap into a handler with interrupts
off); `terminal_read` waits and copies with interrupts on, so its wait and each
character copied are actions (`ReadWakes`, `ReadCopies`, `ReadFull`) that
interleave with keys, terminal switches and the timer. Scan codes are taken
after decoding. Cells that lie behind `keyboard_buffer` are `old_buffer`, as in
`terminal_t`. `typed` and `line` are what the screen's echo shows and what Enter
completed: they are not read by the code.

The user may press any key at any moment. A character or a tab typed after Enter
and before the program reads is stored over the line and takes it back
(`keyboard.c:342`): that is the code's, although the comment at `terminal.c:186`
says that `terminal_read` reads "once enter was pressed". The next Enter completes
what is then in the buffer, and `DeliversLine` and `LineIsRead` are about that. A
key that comes while `terminal_read` copies the line stores the next one over
cells that are still to be copied, and Up while a line waits writes the old line
over it. There the code makes one line of two and no comment promises otherwise;
`mixed` records that it happened on a terminal, and `ShownIsBuffered` and
`DeliversLine` say nothing of that terminal from then on. They do cover every
tick, every switch and every key on the other terminals inside a copy.

`RecallEmpty` TRUE is a user who presses Up only on
an empty line; otherwise, Up on a line that is not empty
can bring the position to the end of the buffer, past the cell at which the test
for a full buffer stops it, and `LineFits` fails.

### Descriptors

`fds` is `file_d_array` of each program's PCB, `cur` the entry in its
`cur_file_dentry`; `location` and `dentry_index` are the kernel's globals. One more
cell, the memory behind the array, is part of each table, because `close` accepts
descriptor 8. `alloc_file` is modelled statement by statement (`Search`,
`StoreFotp`, `StoreInode`, `StorePos`, `StoreFlags`, and the return with the device's
open in `OpenDevice`), since a timer interrupt may come between any two of
them and they share `location` with `init_zero`, which every `execute` calls.
`directory_read` is two steps about `dentry_index`. The calls that touch only the
program's own PCB are one step each.

`stream` and `listing` record what the reads returned; the code does not read
them. `SharedOpen` lets two programs be in `open` or `execute` at once,
`SharedListing` lets two programs have the directory open at once. The first one's
failure is the run `shared_open`; with the second TRUE the listings of two programs
share `dentry_index` and `ListsInOrder` fails.

`Position`, in `FileBlocks`, is where `read_data` takes a byte from: it turns to the
next block when the first one is at its end, and then, because line 321 lets
`cur_byte` start at the offset in the first block again, every
`BLOCK - offset % BLOCK` bytes. A read that begins inside a block and goes on for
more than two such stretches is not the file's next bytes, and may
come to blocks the file has not, although line 320 says that it is to "go to the next
block": with a file of four blocks and requests of one block and a half
`ReadsTheFile` fails. `descriptors` has reads that never do so (`FitsBlocks`), `Grep`
has reads that do.

`OpenFiles` is the promise: tables of private descriptors, on which `open` takes a
free descriptor, `read` moves a position by no more than is left of the file,
`close` frees, a new program starts with none.

### RealTimeClock

The handler runs with interrupts off and is one action; so is `RTC_frequency`.
`RTC_open`'s three stores and the two accesses of `RTC_read` are steps, because
the handler may come between them. `since` (hardware interrupts since the clock
was set or fired) and `earned` (virtual interrupts no read has returned for) are
not the code's. Between `RTC_open`'s stores of the rate and of the count the clock
runs at the new rate from the old count, and its first interrupt may come early:
`since` is `Unset` there until one comes. That one interrupt of an open is
excepted from `FiresOnTime`; it counts as earned, since a reader cannot tell.
`RTC_frequency` has a range test that refuses nothing. 0 is accepted, the clock
then stands still and a read never returns: with 0 in `Frequencies` `ReaderWakes`
fails. A rate above the hardware's is accepted, among them 1024, which the comment
at `rtc.c:113` allows, and the clock fires at the hardware's, as `FiresOnTime`
says. `get_scheduled_term_idx` is always the caller's own terminal, since a
program runs only while its terminal is scheduled (`CpuCoherent` of `Processes`).

### Display

`memory` has one frame for each saved screen (1 MB, 1 MB + 4 KB, ...) and `VIDEO`,
the one the hardware shows. Two page table entries lead to them: `page_table` is
the kernel's page at 0xB8000, which `putc_term` points at the frame of the
terminal that runs and leaves there, and which each function of the keyboard
interrupt points at `VIDEO` and puts back; `page_table_vid_mem` is the page at
200 MB, which `vidmap` points at `VIDEO` and each tick at the frame of the
terminal it schedules. `mappers` (terminals whose programs have called `vidmap`) and
`settled` (a tick has set the page since it last became another terminal's) are not
the code's. Text is written a character at a time; `terminal_write` holds
interrupts off for a whole buffer, so the model has more interleavings than the
code. `Banner` is what `swap_vid_mem` prints when a terminal is first displayed.

`LateStores` FALSE lets a program store through the page at 200 MB only while it is
settled. With TRUE, `ImplementsScreens` fails: a switch of terminals, or `vidmap`
called by a program of a hidden terminal, leaves the page on a screen that is
not the program's until the next tick. No comment of the code promises more.

`Screens` is the promise: rows of text for each terminal, on which the program that
runs writes and draws and the user of the terminal shown types; showing another
terminal changes no screen, except that a terminal shown for the first time gets
the banner.

### Interrupts

The frames of handlers on each kernel stack are a sequence, and each frame is at
one of six points, the places where the code turns interrupts on or leaves the
stack: `entry`, `switched` (`terminal_switch` ends with `sti`, the keyboard handler
has not yet signalled), `window` (`send_eoi` ends with `sti`, `scheduler` begins
with `cli`), `switch`, `suspended`, `return`. `thread` is where the program below
the handlers is. Requests are latched in `irr`, masked or not, and go through by
the priorities of the controllers; while one can go through nothing else happens.
`entry` of `kernel.c` is the sequence of `BootStep`. `SoftwareInterrupt` and `Fault`
enter any gate by its type and privilege level.

The other modules take a handler, and a section between `cli` and `sti`, for one
step: `BodiesRunThrough` is what that rests on. What remains between them are the
windows of `ContextSwitch` and steps of their own in the other modules.

Two constants of the environment are the devices' speed. The timer's next request
is 10 ms away, which is longer than any handler runs: it finds the last tick
done, and also the handlers that tick resumed (`settled`). This excludes a second
tick between the `sti` of `scheduler` and `schedule_switch`, which would save a
frame pointer into the record of a terminal that does not run. A keyboard or a
clock makes at most `MaxFrames` requests while its handlers on the stack are under
way. `EarlySwitch` FALSE keeps Alt and a function key until the first shell runs.
With TRUE `EveryRequestServed` fails: the handler then runs on the stack of `entry`,
`terminal_switch` turns interrupts on before the end of the interrupt is signalled,
the first tick leaves that stack for good, and line 1 stays in service, which
shuts out the keyboard and the clock behind it. It takes a key within the 10 ms
before the first tick.

### AddressSpaces

The actions of `Processes`, each with its calls of `allocate_tasks`, `flush_tlb` and
`program_loader`, and two of its own: `Vidmap`, and `Store`, the program writing to
its image through the directory or a cached translation. Physical memory is
counted in frames of 4 MB and holds the pid whose image or store is there. The
addresses in `allocate_tasks` are kept: the third is not a multiple of 4 MB and
its frame is the one at 128 MB. There are six, so `NPids` is at most 6. A write to
CR3 empties the cache; without one a cached translation stays for as long as the
processor likes.

### Arguments and Grep

`Parsed` is `parse_arguments` by positions, with the two things it reads that are
not the command: the byte after the NUL, because a word ends only when the
position is beyond the length, and what the caller's local array held, because a
command without arguments never stores into it. The NUL counts as a letter of the
word: a name as long as a name can be is accepted only with something after it.
`syscalls.c:17` says that a command is words separated by spaces, of which the
first names the file and the rest is provided to `getargs`, and
`syscall_helper.c:227` that the rest is stripped of leading spaces; `Splits` is
these sentences, as a definition that the properties compare with. A program that
was called without arguments is given left-over ones, if there are any in the
variable, which is the code's error and the model's too. `GivesOwnArguments` says that
this is the only way in which the sentence about `getargs` fails: a program with
arguments gets its own, one without is refused or given a left-over.

`Grep` searches one file. `read` gives as many bytes as were asked for or are
left, each from the `Position` at which `read_data` looks for it. grep asks for
its buffer less the kept line, so its reads begin inside blocks, and in a file of
more than one block they may leave it: of 60 lines of 81 bytes the read of 920
bytes at 3940 takes 156 from the first block, 156 from the second and goes on
where a third one would be. Behind the end of a file there is the rest of its last
block, and then whatever block the inode's next number happens to name (`Strays`),
or -1 is returned if it is no number of a block (`ReadFails`), with which the
search of all files ends. So `PrintsMatches` speaks of files of one block
(`OneBlockOfText`), where `Position` is the byte's own place, and `SearchEnds` of
all files. A NUL in a file cuts the copy of a kept line and what is printed of a
match (`UpToNul`); `PrintsMatches` speaks of text without any, `SearchEnds` of
both. A line that fills the buffer is cut, so `PrintsMatches` speaks of files
whose lines are shorter. The byte behind what was read is looked at before
anything was stored there: `Residues` is what it may be. With a newline in
`Residues`, which the stack may hold, the last line of the first full buffer is
cut in two and `PrintsMatches` fails.

## 3. Fairness

* `WF_vars(Tick)` in `Processes`: the PIT interrupts at 100 Hz for ever and no
  kernel entry blocks, so a tick that stays possible happens.
* `SF_vars` of the timer in `ContextSwitch`: ticks are possible only in some of
  the windows, but the interrupt controller latches the request and delivers it
  at the next moment interrupts are on.
* In `RealTimeClock`, weak fairness of the hardware's interrupt, and of the steps of
  a reader inside `RTC_read`: the scheduler gives its terminal the processor again
  and again (`EveryTerminalRuns`), and a step that is possible stays possible.
* In `TerminalInput`, weak fairness of the timer, and strong fairness of
  `terminal_read`'s own steps while its terminal is scheduled: a program in the
  kernel goes on when it has the processor, and a time slice is long enough for
  a step.
* In `Interrupts`, weak fairness of the processor (it takes a request that goes
  through, and goes on with `entry`, a handler, an exception, a section between
  `cli` and `sti`) and of the timer's requests. A system call need not end.
* In `Grep`, weak fairness of the program's own steps while it searches, a read that
  fails among them.

Nothing else is fair: other programs need not call, end or read, keys need not come.

## 4. Runs

| Run | Instance | Shows |
|---|---|---|
| `processes` | 3 terminals, 5 pids, one status; orderly environment | the invariants and action properties of `Processes`, the refinement, and liveness |
| `switch` | 2 terminals, 4 pids; ticks in user mode and in execute's window | contexts and callers are intact frame by frame; the refinement |
| `halt_window` (violation) | as `switch`, ticks in halt's window too | a context is saved on a stack that is already free |
| `inactive_exit` (violation) | a base shell ends while not displayed | a live shell's pid is given away |
| `terminal_input` | 2 terminals, buffer 4, old buffer 5, 5 keys at any moment, requests of 1 and 5 | lines fit, are shown as buffered, are delivered whole, to the right reader, at last |
| `descriptors` | 2 programs, 2 free descriptors each, a directory of two entries, a file of a block and a half; requests of half a block and of one | tables, files and directory are what `OpenFiles` and a reader expect, while one program at a time opens, and one at a time lists |
| `shared_open` (violation) | two programs in `open` or `execute` | open returns a descriptor that is not the file's |
| `display` | 2 terminals, a screen of 2 rows and 2 columns, one glyph and the blank, four characters written, typed or stored | every terminal has its own screen (`Screens`), the position stays on it, the cursor is the displayed terminal's |
| `clock` | 2 terminals, a hardware rate of 4, every rate up to it and twice it | clocks fire on time, a rate above the hardware's at the hardware's, reads are earned, readers wake |
| `interrupts` | 2 terminals and the stack of `entry`, 3 devices, one handler of each of keyboard and clock on a stack | handlers' bodies run through, the signals match the lines in service, no device is cut off |
| `address_spaces` | 3 terminals, 3 pids; programs and keys before boot is over, faulting shells | no program's memory is touched by another, until the kernel crashes |
| `grep` | commands of up to 5 bytes of a letter, a space and 255; names of up to 2, arguments of up to 2, every file of up to 6 bytes, which is one block, files with NUL of up to 4, two files of two blocks, a buffer of 4 | the first word runs, the rest reaches it, grep prints the matching lines and ends |

Bounds and why they are enough. Three terminals are the kernel's own number.
Five pids leave two beyond the shells: one terminal can nest two programs, two
terminals can each call one, and the table can be full; the sixth adds a third
program, and the theorems hold for any number. `address_spaces` needs no further
pid: the table is full once the shells are up, programs that execute earlier take
the pids of terminals that have no shell yet, and the third task's frame is among
them. For `ContextSwitch` two terminals
suffice for a stack freed by one and taken by the other, and four pids for two
nested programs. A buffer of 4 with 5 keys fills the line, passes its end and
starts the next one; tab writes four blanks, more than there is room for; a
request of 1 is shorter than the line and one of 5 longer than the buffer. A line,
Enter, a key before the read, Enter again and a key inside the copy are 5 keys.
Two terminals tell displayed from scheduled.

Two free descriptors hold a file and the directory, or two files at different
positions, and fill up with the second `open`. A file of a block and a half read
in halves and wholes has reads that start at a block, inside one, end with one,
cross into the next, and stop at the end of the file; the directory is read one
entry past its last (`MaxListed`). The programs of `Descriptors` are
interchangeable and nothing is checked about liveness, so permuting them is a
sound symmetry. A hardware rate of 4 has the rates 1, 2, 4 and 8, one of each kind:
slower than what `RTC_open` sets, the same, as fast as the hardware, and faster,
as 1024 is; 3 is refused. `MaxEarned` 2 tells one interrupt that was not read from several.

A screen of two rows and two columns wraps after two characters and scrolls after
four; the banner, a line and a prompt, leaves a terminal one character away from
scrolling, so that what is written before and after a switch, from both sides,
meets on each screen with fewer than `MaxWritten` 4. Two terminals tell the
displayed one, the scheduled one and the one that is switched to apart in pairs.

For `Interrupts` two terminals and the stack of `entry` tell the stack a tick leaves,
the one it resumes and one that is never resumed apart; a third terminal is one
more of the second kind. With one handler of the keyboard and one of the clock on
each stack, all three devices still nest, and a suspended handler owes its signal
while the other stack's handlers wait for it.

In `Grep`, a name and an argument of 2, the limits of 2 and commands of 5 bytes make
a word that just fits, one that is a byte too long, spaces before, between and
after, and arguments past what `getargs` gives. A buffer of 4 is filled once
and filled again by a file of 6: lines end before, at and behind its end, are
kept and completed, and fill it. The two files of two blocks have a line that makes
the third read begin at the last byte of a block of 6: it turns after each byte, and
its third byte is past the end of the file.

What goes wrong if an environment constant of `Processes` is TRUE (the first is the run
`inactive_exit`; the others are seen by setting the constant in its cfg):

* `InactiveExit`: the pid freed is that of the displayed terminal, and
  `PidStaysWithTerminal` fails.
* `ShellFaults`: an exception of a base shell leaves `GOD` set, since `halt_help`
  leaves through line 153 and never reaches line 195 that clears it, and `execute`
  returns 256 for the next program that calls halt: `AnswerTellsException` fails.
* `EarlyInput`: if another terminal is displayed when the first shell starts,
  `boot_flag` stays 0 until that terminal's turn, the shells that start before are
  interrupted without a saved context, and the scheduler returns through a frame
  pointer nobody wrote: `NoWildReturn` fails. And a program that executes before the
  last shell is up takes the pid of a terminal that has none yet: `BaseShellPids`
  fails. `address_spaces` runs through these states, up to the crash; it also
  reaches the two kinds of tick that an orderly environment never does, `TickFault`
  and `TickIdle`.

What the first display of a terminal clears (its shell may have written before) and
what backspace leaves on the row above, when a line has wrapped, are in `Display`
and in `Screens` alike: nothing in the repository promises otherwise.

A deadlock check is off where the system may stop for good: a crashed kernel
(`address_spaces`).

## 5. Theorems

`ProcessesProofs` proves, for every number of terminals and pids (at least as
many pids as terminals, `ProcessesAssumption`):

* in every environment: `TypeCorrect` (types) and `AlwaysKernelCoherent` (pid, PCB
  pointer, TSS and page are one program's);
* if base shells do not fault: `ExceptionToldApart`;
* in an orderly environment (`OrderlyEnvironment`: neither `EarlyInput` nor
  `InactiveExit`): the inductive invariant `InvHolds`, and from it `NeverWild`,
  `AlwaysCoherent`, `CallersAlwaysWait`, `ContextAlwaysSaved`, `NoneStranded`,
  `BaseShellsKeepPids`, and the action properties `PidsStay` and
  `AlwaysReturnsToCaller`.

The properties are not inductive one by one. That a switch resumes a live frame
needs `ContextSaved`; that this survives a halt needs `CallerWaits` (the caller
becomes the program on record and must be the one whose frame is there) and
`CpuCoherent` (the pid that is freed is that of the program on record);
that a new program does not take a suspended one's stack needs that every
process reachable from a record is allocated; that the shells get their own pids
needs `BootInOrder`, which describes the states before the last shell is up,
one by one. `Glue` adds the rest: that the two marks of the current program
agree, that the running program has no frame on its own stack, that contexts are
saved exactly when a program runs, and that a program without a caller is its
terminal's base shell. `Inv` is their conjunction; the proof has one step for
each action and below it one for each conjunct.

From the same invariant follows `KernelIsStacks`: in an orderly environment whose
shells do not fault, every step of `Processes` is a step of `TerminalStacks` or
changes nothing there, which is `ImplementsStacks` without its fairness. Without the
second hypothesis a fault of a shell leaves `GOD` set and the next halt is answered
with 256 (section 4), which `Return` does not allow. The invariant added for it,
`StacksInv`, has two parts. Each terminal that has a shell has a chain of programs
in use, from a program without a parent to the one on record, each the parent of
the next; the argument about `PathTo` and such chains is that of
`StacksImplemented`, below. And every program in use is in one of them (`Covered`):
so `TerminalStacks` has no identity left exactly when the table is full, as its
`Refuse` demands (`SameInUse`), and the pid `find_next_pid` returns is nobody's there.

The last two sections of the module prove, for every number of terminals, every number
of pids that have a task address (at most six) and every environment of
`Processes`, of `AddressSpaces` `MemoryStaysOwn` and `ReachStaysOwn`, from an
invariant that the program on the processor is the one whose page is in the directory,
that the translation cache holds nothing that the directory does not say, and
that records lead to programs that have their memory. `PagedKernelIsKernel` says
that the paged kernel is a kernel in the sense of `Processes`, so all theorems
above hold of it; with `NeverWild`, `MemoryNeverLost` states `MemoryKept`
without its proviso for an orderly environment.

`RealTimeClockProofs` proves, for every number of terminals and every hardware
rate of at least 2, `ClockTypes` (a count is always below the hardware's rate),
`EveryReadIsEarned` and `EveryClockFiresOnTime`. `ReadIsEarned` is inductive once
the types are known: the flag is set only with an interrupt counted, and a reader
between its loop and the reset holds one. Conversely, that the count of earned
interrupts never drops below 0 when a read returns, a part of the types, is
`ReadIsEarned`, so the two are proved together. `FiresOnTime` follows from
`RateInv`: a terminal's count is its rate times the interrupts since the clock was
set, but for the moment in which `RTC_open` has stored a rate and no count, and a
rate divides the hardware's or is above it, where every interrupt fires. The
theorem keeps the exception of that moment: an early interrupt there is the
code's. The provers do not know that a power of two divides a larger one;
`PowersDivide` assumes it up to the hardware's rate, and TLC evaluates it for that
of the run.

`ContextSwitchProofs` proves, for every number of terminals and pids,
`ContextAlwaysIntact` and `CallersAlwaysIntact` under `TimerIsOrderly`: the timer
comes in user code and in launches, as in the run `switch` (`halt_window` shows
what a tick in halt's window does). Its invariant says that the pids in use are a
tree of one path for each terminal, from the base shell to the program on
record; that the context of a terminal that waits is on top of that program's
stack or of its caller's, at depth 1 or 2; and that a caller's stack holds its
frame of `execute` and at most a context above it. Seven shapes of a kernel stack
are left. Nobody but the running program of a terminal, and its caller in a
launch, has frames where the processor works; paths of different terminals have
no pid in common; so a step disturbs no context and no caller's frame. A shell
that restarts has freed its pid and is in the tree nevertheless; it gets the same
pid back because all smaller ones belong to the other shells.

From the same tree follows `StacksImplemented`: every step is a step of
`TerminalStacks` or changes nothing there, which is `ImplementsStacks` without its
fairness. `PathTo` reads the stack of a terminal off the parents, and a proof about
it is an induction over its first argument. The induction theorems of the library
take the property as an operator, which the provers cannot fill in; here a
property is the set of the numbers that have it (`Induction`, from the least element
of a set of numbers), and `PathExists` builds the function, step by step, that the
definition names. `ChainIsPath` then says that the only sequence of programs from a
base shell down to p, each the next one's caller, is what `PathTo` finds; it is at
most `NPids` long since no program is in it twice (`ChainIsShort`). A boot starts
such a chain, a call lengthens it, a return shortens it, and all others stay.

`TerminalInputProofs` proves, for every number of terminals, every size of the
buffers, every set of names and every request, if Up is pressed on an empty line only
(`RecallEmpty`): `LineAlwaysFits`, and, up to a key that mixes two lines (`mixed`, section
2), `ShownAlwaysBuffered` and `LineAlwaysDelivered`. `FitsInv` is the
type of what a terminal holds with the reason why a line fits: the last cell of
the buffer has Enter or nothing in it, and `old_buffer` has nothing from there on.
`AgreeInv` relates buffer, screen, line and reader cell by cell: what was typed is
before the position; a line that was entered and not typed over is behind the reader's
index, and what the reader has got is the line before it.

`DescriptorsProofs` proves, for every number of programs and descriptors, every
block length and every directory, while programs take turns in `alloc_file`
(`SharedOpen` FALSE; `shared_open` shows what happens otherwise):
`OpenAlwaysGivesFile`; `OpenFilesImplemented`, that every step of open, read and
close is a step of `OpenFiles` or changes nothing there; `ListingInOrder`, if one
program at a time lists the directory (`SharedListing` FALSE); `ReadingTheFile`, for
requests that are one or two of a number of bytes that divides a block
(`FitsBlocks`). `OpenInv` says how far the call in `alloc_file` has filled its cell,
line by line, and that all cells before it are in use: the cell is still free for
everybody else and already its own. `ListInv` ties `dentry_index` to how far the
lister has come. `StreamInv` says that a position is a whole number of steps from
the beginning or the end of the file; the hypothesis is not idle: `read_data` keeps
the first block's offset, and a read that begins inside a block and goes on for
more than one skips bytes.

`InterruptsProofs` proves, for every number of terminals and of handlers on a stack,
with `EarlySwitch` or without, `BodiesAlwaysRunThrough` and `ServiceAlwaysOwed`. A
stack that the processor has left ends in a handler of the timer that is
suspended (`StacksInv`), so nothing under way is left behind but by a tick; and for
each line in service there is one place, stack and depth, where a handler owes
its signal (`ServiceInv`, which counts nothing).

`DisplayProofs` proves, for every number of terminals, every size of the screen and
every text of the banner, `CursorAlwaysFollows`, whatever programs store and when,
and `ScreensImplemented`, that `Display` implements `Screens`, if no program stores
between a switch and the next tick (`LateStores` FALSE; section 2 says what happens
otherwise). The cell of a row and a column is `Place`: that cells of different places
differ, that scrolling moves a cell by one row, and that every cell has a place are
the only facts of arithmetic the rest needs. `PutcIsPut` and `RemovecIsRub` say that
`putc_term` and `removec_key` do to a frame what `Screens` does to rows; for the
banner this is an induction along its characters, over the fold's own function
(`PrintingExists`). The invariant adds to the types that the page at 200 MB, once a
tick has set it, leads to the frame of the terminal that runs, `DrawsOnOwn`. Since the
frames of terminals differ, each step then changes one screen (`OneScreenChanges`,
`OneScreenIsShown`).

`GrepProofs` proves, for every set of bytes and of names, every limit of a name,
an argument and a command, whatever the caller's local array held, `FirstWordRuns`
and `ArgumentsAreOwn`, both with the exceptions their properties name; for every
text of one block without NUL, every size of block and buffer and lines shorter
than the buffer, if the bytes the stack holds at first are not newlines,
`MatchesArePrinted`. The first two rest on what a command is: leading spaces, a
first word, spaces, and a rest that does not begin with one (`Parts`). A command
that is not all spaces has exactly one such cut (`PartsExist`, `PartsAgree`), it
is what `Splits` finds (`SplitsAreParts`), and so do the positions of `Parsed`
(`ParsedIsSplit`), whatever lies behind the NUL. `CommandInv` carries that to
`getargs`: the word that runs and what the PCB holds stay those of the command
while the program runs.

`MatchesArePrinted` is about a loop inside a loop. `SearchInv` says that, whenever a
line has been looked at, the buffer holds the text from the beginning of the next
line up to what has been read; that a buffer which is not full after a read is the
end of the file; and that what was printed are the matching lines before that
place. The order of printing is `Rank`, the number of matches up to a line: the
lines shown are as many as the matches, and the one with rank n is the nth. The
hypothesis on `Residues` is the one without which the property fails (section 2).
`SearchInv` speaks of the text read so far only while the file is one block of text:
`InOneBlock` is the fact about `Position` that makes the reads contiguous there.

## 6. Only model-checked

Liveness (`EveryTerminalRuns`, `LineIsRead`, `ReaderWakes`, `EveryRequestServed`,
`SearchEnds`), which is out of the prover's reach; with it the fairness in
`ImplementsStacks`. The safety part of that, for `Processes` and for `ContextSwitch`,
and every other property of a passing run are also stated by a theorem, some under
a hypothesis that section 5 names.

## 7. Plan

Compositions: the terminals' buffers and the screens with `Processes` in place of
a free rotation, so that a program reads and writes only while it is the one that
runs.

## 8. Not modelled

* The segment descriptors (`x86_desc.S`, the GDT, LDT and TSS set-up in `kernel.c`)
  and the reading of the multiboot header: straight-line code that runs once, with
  interrupts off, and whose result never changes. The TSS field that does change,
  `esp0`, is in `Processes`.
* A tick of `Interrupts` that stays on the stack it interrupted, because the first
  shell of a terminal was refused or there is no program to go to. `Processes` has it
  (`TickIdle`); it takes a full table in the first three ticks, that is `EarlyInput`.
* The registers around a system call, and the range test of the call's number;
  each call is an action of the module of its component. `set_handler` and
  `sigreturn` return -1.
* Scan code decoding, `printf` and its conversions, the memory functions: no state
  of the kernel beyond the caller's buffer.
* `disable_irq`, `RTC_close`, and the functions for one screen: nothing but the tests calls them.
* The in-kernel tests, and the user programs other than grep, which are loops
  around one system call, with their library and its emulation: the modules let a
  program make any call in any order.
