------------------------------ MODULE Interrupts ------------------------------
(***************************************************************************)
(* Interrupts, from the request to the iret: the two interrupt controllers *)
(* (student-distrib/i8259.c), the gates of idt.c, the entry stubs of       *)
(* linker.S and pit_link.S, the order in which the three handlers signal   *)
(* the end of their interrupt and turn interrupts on again, and the boot   *)
(* sequence that enables them (boot.S, kernel.c).                          *)
(*                                                                         *)
(* The other modules take a handler for one step.  This one shows what     *)
(* that rests on.  A frame of a handler lies on the kernel stack of the    *)
(* interrupted code and is at one of these points:                         *)
(*   "entry"      its body, up to the end-of-interrupt signal              *)
(*   "switched"   keyboard: after terminal_switch turned interrupts on     *)
(*   "window"     timer: between send_eoi and the cli of scheduler         *)
(*   "switch"     timer: after the sti of scheduler, before another stack  *)
(*   "suspended"  timer: the processor is on another terminal's stack      *)
(*   "return"     the way back to the iret of the stub                     *)
(*                                                                         *)
(* Two limits stand for the devices' speed.  The timer's next request is   *)
(* 10 ms away: it finds the last tick done, and everything the tick        *)
(* resumed.  And a device has at most MaxFrames handlers under way on the  *)
(* stack the processor is on when it makes a request.                      *)
(***************************************************************************)
EXTENDS Integers, Sequences, FiniteSets, SequencesExt

CONSTANTS
  NTerminals,   \* 3 in the kernel
  MaxFrames,    \* handlers of one device on one stack, see above
  EarlySwitch   \* may the user switch terminals before the first shell is up?

ASSUME InterruptsAssumption ==
  /\ NTerminals \in Nat \ {0, 1}
  /\ MaxFrames \in Nat \ {0}
  /\ EarlySwitch \in BOOLEAN

Terminals == 0..(NTerminals - 1)
BootStack == NTerminals        \* the stack of entry, which ends in its hlt loop
KernelStacks == 0..NTerminals

\* The lines of the controllers in use; the slave reports through CASCADE.
TIMER == 0
KEYBOARD == 1
CASCADE == 2
RTC == 8
Devices == {TIMER, KEYBOARD, RTC}
Lines == Devices \cup {CASCADE}
IsSlave(line) == line >= 8

VARIABLES
  booting,     \* the next step of entry, "done" in the hlt loop
  masks,       \* the lines masked, of both controllers
  irr,         \* requests latched
  isr,         \* lines in service
  interrupts,  \* the processor's interrupt flag
  thread,      \* [Terminals -> where its program is, below any handler]
  frames,      \* [KernelStacks -> Seq(frame)]: interrupt handlers under way
  sp,          \* the stack the processor is on
  scheduled,   \* the terminal scheduler chose
  settled      \* the frames of the stack, as the last tick found it, have left

picVars == <<masks, irr, isr>>
stackVars == <<frames, sp, scheduled, settled>>
vars == <<booting, picVars, interrupts, thread, stackVars>>

-----------------------------------------------------------------------------
(* The controllers.                                                        *)

\* i8259_init masks all lines but the cascade; enable_irq unmasks one.
MaskAfterInit == Lines \ {CASCADE}
Enabled(line) == masks' = masks \ {line}

\* send_eoi: a slave's line is in service at both controllers.  It ends with sti.
EndedMaster(line) == {line}
Ended(line) == {line} \cup IF IsSlave(line) THEN {CASCADE} ELSE {}
SendEoi(line) ==
  /\ isr' = isr \ Ended(line)
  /\ interrupts' = TRUE

\* Fixed priorities: a request goes through if nothing of its priority or above
\* is in service, and the highest of them goes first.
InServiceBy(line) == IF IsSlave(line) THEN {line, CASCADE} ELSE {line}
Priority(line) == IF IsSlave(line) THEN CASCADE ELSE line
Deliverable(line) ==
  /\ line \in irr \ masks
  /\ IsSlave(line) => CASCADE \notin masks
  /\ \A served \in isr : Priority(line) < Priority(served)

-----------------------------------------------------------------------------
(* The gates.                                                              *)

\* Vector offsets ICW2_MASTER and ICW2_SLAVE.
Vector(line) == IF IsSlave(line) THEN 40 + line - 8 ELSE 32 + line
Exceptions == (0..19) \ {15}
SYSCALL == 128
Vectors == Exceptions \cup {Vector(line) : line \in Devices} \cup {SYSCALL}

\* Whether entry through the gate turns interrupts off, and who may call it.
TrapGate == [turnsOff |-> FALSE, dpl |-> 0]
InterruptGateOpen == [turnsOff |-> FALSE, dpl |-> 0]
InterruptGate == [turnsOff |-> TRUE, dpl |-> 0]
SyscallGateClosed == [turnsOff |-> TRUE, dpl |-> 3]
SyscallGate == [turnsOff |-> FALSE, dpl |-> 3]
Gate(v) ==
  IF v = SYSCALL THEN SyscallGate
  ELSE IF v \in {2, 14, 32, 33, 40} THEN InterruptGate
  ELSE TrapGate

\* The processor goes through gate v on the stack it is on.
Frame(line, at) == [line |-> line, at |-> at]
Enter(v) ==
  /\ interrupts' = (interrupts /\ ~Gate(v).turnsOff)
  /\ IF \E line \in Devices : Vector(line) = v
     THEN \E line \in Devices :
            /\ Vector(line) = v
            /\ frames' = [frames EXCEPT ![sp] = Append(@, Frame(line, "entry"))]
            /\ UNCHANGED thread
     ELSE /\ thread' = [thread EXCEPT ![sp] = IF v = SYSCALL THEN "kernel" ELSE "fault"]
          /\ UNCHANGED frames

-----------------------------------------------------------------------------
Init ==
  /\ booting = "pic"
  /\ masks \in SUBSET Lines  \* what the boot loader left
  /\ irr \in SUBSET Devices
  /\ isr \in SUBSET Devices
  /\ interrupts = FALSE
  /\ thread = [t \in Terminals |-> "none"]
  /\ frames = [s \in KernelStacks |-> <<>>]
  /\ sp = BootStack
  /\ scheduled = NTerminals - 1
  /\ settled = TRUE

\* entry, in its order; interrupts are off until the last step.  The first
\* initialisation word clears what the controllers had latched and in service.
BootPic ==
  /\ booting = "pic"
  /\ booting' = "rtc"
  /\ masks' = MaskAfterInit
  /\ irr' = {}
  /\ isr' = {}
  /\ UNCHANGED <<interrupts, thread, stackVars>>

BootEnable(step, line, next) ==
  /\ booting = step
  /\ booting' = next
  /\ Enabled(line)
  /\ UNCHANGED <<irr, isr, interrupts, thread, stackVars>>

\* RTC_init, keyboard_init and PIT_init.
BootDevices ==
  \/ BootEnable("rtc", RTC, "keyboard")
  \/ BootEnable("keyboard", KEYBOARD, "pit")
  \/ BootEnable("pit", TIMER, "memory")

\* Paging, the terminals and the screen.
BootMemory ==
  /\ booting = "memory"
  /\ booting' = "sti"
  /\ UNCHANGED <<picVars, interrupts, thread, stackVars>>

BootSti ==
  /\ booting = "sti"
  /\ booting' = "done"
  /\ interrupts' = TRUE
  /\ UNCHANGED <<picVars, thread, stackVars>>

BootStep == BootPic \/ BootDevices \/ BootMemory \/ BootSti

-----------------------------------------------------------------------------
(* Requests and their delivery.                                            *)

FramesOf(line) == {i \in DOMAIN frames[sp] : frames[sp][i].line = line}

\* The processor takes a request that goes through before its next instruction:
\* nothing else happens while one is due.
Due == interrupts /\ \E line \in Devices : Deliverable(line)

\* A device asks for service; the controller latches the edge, masked or not.
Request(line) ==
  /\ ~Due
  /\ line \notin irr
  /\ IF line = TIMER THEN settled /\ FramesOf(TIMER) = {}
                     ELSE Cardinality(FramesOf(line)) < MaxFrames
  /\ irr' = irr \cup {line}
  /\ UNCHANGED <<booting, masks, isr, interrupts, thread, stackVars>>

Deliver(line) ==
  /\ interrupts
  /\ Deliverable(line)
  /\ \A other \in Devices : Deliverable(other) => Priority(line) <= Priority(other)
  /\ irr' = irr \ {line}
  /\ isr' = isr \cup InServiceBy(line)
  /\ Enter(Vector(line))
  /\ UNCHANGED <<booting, masks, sp, scheduled, settled>>

-----------------------------------------------------------------------------
(* The handlers.                                                           *)

Top == frames[sp][Len(frames[sp])]
TopIs(line, at) == frames[sp] # <<>> /\ Top = Frame(line, at)
TopAt(at) == [frames EXCEPT ![sp] = Append(Front(@), [Top EXCEPT !.at = at])]

\* PIT_handler signals the end of the interrupt before it calls scheduler.
TimerEoi ==
  /\ ~Due
  /\ TopIs(TIMER, "entry")
  /\ SendEoi(TIMER)
  /\ frames' = TopAt("window")
  /\ UNCHANGED <<booting, masks, irr, thread, sp, scheduled, settled>>

\* set_next_scheduled
NextTerminal == (scheduled + 1) % NTerminals

\* scheduler, from its cli to its sti: the next terminal is chosen.
Scheduler ==
  /\ ~Due
  /\ TopIs(TIMER, "window")
  /\ scheduled' = NextTerminal
  /\ interrupts' = TRUE
  /\ frames' = TopAt("switch")
  /\ UNCHANGED <<booting, picVars, thread, sp, settled>>

\* schedule_switch, or the start of the terminal's shell with execute: the tick
\* goes on on the stack of the scheduled terminal, or starts it.  What is on
\* BootStack is never resumed.  (scheduler returns without a switch only where the
\* terminal's first shell was refused: that takes a full table of processes in the
\* first three ticks, which module Processes has as EarlyInput.)
SwitchStack ==
  /\ ~Due
  /\ TopIs(TIMER, "switch")
  /\ sp' = scheduled
  /\ IF frames[scheduled] = <<>>
     THEN /\ frames' = TopAt("suspended")
          /\ thread' = [thread EXCEPT ![scheduled] = "user"]
          /\ settled' = TRUE
     ELSE /\ frames' = [TopAt("suspended") EXCEPT ![scheduled] =
                          Append(Front(@), Frame(TIMER, "return"))]
          /\ settled' = FALSE
          /\ UNCHANGED thread
  /\ UNCHANGED <<booting, picVars, interrupts, scheduled>>

\* The keyboard handler's other work needs one step: interrupts are off.
KeyboardEoi ==
  /\ ~Due
  /\ TopIs(KEYBOARD, "entry") \/ TopIs(KEYBOARD, "switched")
  /\ SendEoi(KEYBOARD)
  /\ frames' = TopAt("return")
  /\ UNCHANGED <<booting, masks, irr, thread, sp, scheduled, settled>>

\* Alt and a function key: terminal_switch ends with sti, before the signal.
KeyboardSwitches ==
  /\ ~Due
  /\ TopIs(KEYBOARD, "entry")
  /\ EarlySwitch \/ sp # BootStack
  /\ interrupts' = TRUE
  /\ frames' = TopAt("switched")
  /\ UNCHANGED <<booting, picVars, thread, sp, scheduled, settled>>

RtcEoi ==
  /\ ~Due
  /\ TopIs(RTC, "entry")
  /\ SendEoi(RTC)
  /\ frames' = TopAt("return")
  /\ UNCHANGED <<booting, masks, irr, thread, sp, scheduled, settled>>

\* The stub restores the flags it pushed, with interrupts off, and iret those of
\* the interrupted code, with interrupts on.
Return ==
  /\ ~Due
  /\ frames[sp] # <<>> /\ Top.at = "return"
  /\ interrupts' = TRUE
  /\ frames' = [frames EXCEPT ![sp] = Front(@)]
  /\ settled' = (settled \/ Len(frames[sp]) = 1)
  /\ UNCHANGED <<booting, picVars, thread, sp, scheduled>>

Handler == TimerEoi \/ Scheduler \/ SwitchStack \/ KeyboardEoi \/ RtcEoi \/ Return

-----------------------------------------------------------------------------
(* The program of the terminal whose stack the processor is on.            *)

Runs(where) == sp \in Terminals /\ frames[sp] = <<>> /\ thread[sp] = where

\* An int instruction: a gate the program may not call is a general protection
\* fault, number 13.  Vectors without a gate fault likewise.
SoftwareInterrupt(v) ==
  /\ ~Due
  /\ Runs("user")
  /\ Enter(IF Gate(v).dpl = 3 THEN v ELSE 13)
  /\ UNCHANGED <<booting, picVars, sp, scheduled, settled>>

\* Any other exception the program may cause.
Fault(v) ==
  /\ ~Due
  /\ Runs("user")
  /\ Enter(v)
  /\ UNCHANGED <<booting, picVars, sp, scheduled, settled>>

Move(from, to, flag) ==
  /\ ~Due
  /\ Runs(from)
  /\ thread' = [thread EXCEPT ![sp] = to]
  /\ interrupts' = flag
  /\ UNCHANGED <<booting, picVars, stackVars>>

\* A system call that works with interrupts off for a while: terminal_write,
\* execute, halt, RTC_frequency.
Cli == Move("kernel", "critical", FALSE)
\* Every exception handler begins with cli, and halts the program.
FaultCli == Move("fault", "critical", FALSE)
Sti == Move("critical", "kernel", TRUE)
\* iret of syscall_handler.
SyscallReturn == Move("kernel", "user", TRUE)

Next ==
  \/ BootStep
  \/ \E line \in Devices : Request(line) \/ Deliver(line)
  \/ Handler
  \/ KeyboardSwitches
  \/ \E v \in Vectors : SoftwareInterrupt(v)
  \/ \E v \in Exceptions : Fault(v)
  \/ Cli \/ FaultCli \/ Sti \/ SyscallReturn

\* The processor executes what it is in, and the timer goes on for ever.  A
\* system call need not end: a read waits, for the user or for the clock.
Fairness ==
  /\ \A line \in Devices : WF_vars(Deliver(line))
  /\ WF_vars(BootStep) /\ WF_vars(Handler) /\ WF_vars(FaultCli \/ Sti)
  /\ WF_vars(Request(TIMER))

Spec == Init /\ [][Next]_vars
FairSpec == Spec /\ Fairness

-----------------------------------------------------------------------------
(* Properties.                                                             *)

\* What lets the other modules take a handler's body, and a section between cli
\* and sti, for one step: nothing comes in between.  No frame lies above a body
\* or such a section, and no other stack was switched to.  Before entry's sti
\* (kernel.c:204: not before the IDT is set up) no handler runs at all.
BodiesRunThrough ==
  /\ \A s \in KernelStacks : \A i \in DOMAIN frames[s] :
       frames[s][i].at = "entry" => s = sp /\ i = Len(frames[s]) /\ ~interrupts
  /\ \A t \in Terminals :
       thread[t] = "critical" => t = sp /\ frames[t] = <<>> /\ ~interrupts
  /\ booting # "done" => \A s \in KernelStacks : frames[s] = <<>>

\* The handlers that have not signalled the end of their interrupt yet.
Owes(frame, line) == frame.line = line /\ frame.at \in {"entry", "switched"}
Owing(line) ==
  {p \in UNION {{s} \X DOMAIN frames[s] : s \in KernelStacks} :
     Owes(frames[p[1]][p[2]], line)}

\* A line is in service exactly while one handler of it, on whatever stack, has
\* yet to signal the end: none is signalled twice, for another line, or never,
\* though a tick may suspend a handler that owes it.  The slave's signal ends
\* the service at both controllers.
InServiceIsOwed ==
  booting # "pic" =>
    /\ \A line \in Devices :
         Cardinality(Owing(line)) = IF line \in isr THEN 1 ELSE 0
    /\ CASCADE \in isr <=> RTC \in isr

\* No device is cut off: every request is served, although a tick may suspend
\* the keyboard handler for a whole round while it keeps its line, and with it the
\* clock's, in service, and although reads wait in the kernel for ever.
EveryRequestServed ==
  \A line \in Devices : (line \in irr) ~> (line \notin irr)
=============================================================================
