---------------------------- MODULE RealTimeClock -----------------------------
(***************************************************************************)
(* The virtual real-time clocks of student-distrib/rtc.c: one interrupt of *)
(* the hardware, BASE times a second, drives a clock of its own rate for   *)
(* each terminal, and a program waits in RTC_read for its terminal's.      *)
(*                                                                         *)
(* RTC_handler is one step, and so is RTC_frequency, which turns           *)
(* interrupts off.  RTC_open and RTC_read run with interrupts on, and each *)
(* of their accesses is a step.                                            *)
(***************************************************************************)
EXTENDS Integers

CONSTANTS
  NTerminals,  \* 3 in the kernel
  BASE,        \* the rate of the hardware (512 Hz)
  Frequencies, \* what programs write to the clock
  MaxEarned    \* bound on the interrupts counted for a reader

ASSUME RealTimeClockAssumption ==
  /\ NTerminals \in Nat \ {0}
  /\ BASE \in Nat /\ BASE >= 2
  /\ \E k \in 1..BASE : BASE = 2^k
  /\ Frequencies \subseteq Nat
  /\ MaxEarned \in Nat \ {0}

\* A power of two divides the larger ones: arithmetic the provers do not know.
ASSUME PowersDivide ==
  \A k, l \in 0..BASE : k <= l /\ 2^l <= BASE => 2^l % 2^k = 0

Terminals == 0..(NTerminals - 1)

VARIABLES
  terminal_freq,      \* 0: never opened
  terminal_count,
  interrupt_occured,
  pc,                 \* where the program of each terminal is
  since,              \* hardware interrupts since the clock was set or fired, or Unset
  earned              \* virtual interrupts that no read has returned for

vars == <<terminal_freq, terminal_count, interrupt_occured, pc, since, earned>>

\* RTC_open has stored the rate of the clock; its count is still that of the old one.
Unset == -1

Init ==
  /\ terminal_freq = [t \in Terminals |-> 0]
  /\ terminal_count = [t \in Terminals |-> 0]
  /\ interrupt_occured = [t \in Terminals |-> 0]
  /\ pc = [t \in Terminals |-> "closed"]
  /\ since = [t \in Terminals |-> 0]
  /\ earned = [t \in Terminals |-> 0]

-----------------------------------------------------------------------------
(* RTC_handler.                                                            *)

FullAbove(count) == count > BASE
Full(count) == count >= BASE

\* The terminals whose clock fires at this interrupt of the hardware.
Firing ==
  {t \in Terminals : terminal_freq[t] # 0 /\ Full(terminal_count[t] + terminal_freq[t])}

Handler ==
  /\ interrupt_occured' = [t \in Terminals |-> IF t \in Firing THEN 1 ELSE interrupt_occured[t]]
  /\ terminal_count' =
       [t \in Terminals |-> IF t \in Firing THEN 0 ELSE terminal_count[t] + terminal_freq[t]]
  /\ since' = [t \in Terminals |->
                 IF t \in Firing \/ terminal_freq[t] = 0 THEN 0
                 ELSE IF since[t] = Unset THEN Unset ELSE since[t] + 1]
  /\ earned' = [t \in Terminals |->
                  IF t \in Firing /\ earned[t] < MaxEarned THEN earned[t] + 1 ELSE earned[t]]
  /\ UNCHANGED <<terminal_freq, pc>>

-----------------------------------------------------------------------------
(* RTC_open: three stores.                                                 *)

Open(t) ==
  /\ pc[t] \in {"closed", "user"}
  /\ interrupt_occured' = [interrupt_occured EXCEPT ![t] = 0]
  /\ earned' = [earned EXCEPT ![t] = 0]
  /\ pc' = [pc EXCEPT ![t] = "set_freq"]
  /\ UNCHANGED <<terminal_freq, terminal_count, since>>

OpenedAtNone == 0
OpenedAt == 2

OpenFreq(t) ==
  /\ pc[t] = "set_freq"
  /\ terminal_freq' = [terminal_freq EXCEPT ![t] = OpenedAt]
  /\ since' = [since EXCEPT ![t] = Unset]
  /\ pc' = [pc EXCEPT ![t] = "set_count"]
  /\ UNCHANGED <<terminal_count, interrupt_occured, earned>>

OpenCount(t) ==
  /\ pc[t] = "set_count"
  /\ terminal_count' = [terminal_count EXCEPT ![t] = 0]
  /\ since' = [since EXCEPT ![t] = 0]
  /\ pc' = [pc EXCEPT ![t] = "user"]
  /\ UNCHANGED <<terminal_freq, interrupt_occured, earned>>

-----------------------------------------------------------------------------
(* RTC_write and RTC_read.                                                 *)

\* RTC_frequency refuses what is not a power of two.  (Its range test refuses
\* nothing, so 0 is let through, of which no bit is set, and every power.)
Accepted(freq) == freq = 0 \/ \E k \in 0..freq : freq = 2^k

CountAfterWriteKept(t) == terminal_count[t]
CountAfterWrite(t) == 0

Write(t, freq) ==
  /\ pc[t] = "user"
  /\ Accepted(freq)
  /\ terminal_freq' = [terminal_freq EXCEPT ![t] = freq]
  /\ terminal_count' = [terminal_count EXCEPT ![t] = CountAfterWrite(t)]
  /\ since' = [since EXCEPT ![t] = 0]
  /\ UNCHANGED <<interrupt_occured, pc, earned>>

Read(t) ==
  /\ pc[t] = "user"
  /\ pc' = [pc EXCEPT ![t] = "waiting"]
  /\ UNCHANGED <<terminal_freq, terminal_count, interrupt_occured, since, earned>>

\* The loop of RTC_read ends ...
ReadWakes(t) ==
  /\ pc[t] = "waiting"
  /\ interrupt_occured[t] = 1
  /\ pc' = [pc EXCEPT ![t] = "reset"]
  /\ UNCHANGED <<terminal_freq, terminal_count, interrupt_occured, since, earned>>

FlagAfterReadKept == 1
FlagAfterRead == 0

\* ... and it takes the flag back and returns.
ReadReturns(t) ==
  /\ pc[t] = "reset"
  /\ interrupt_occured' = [interrupt_occured EXCEPT ![t] = FlagAfterRead]
  /\ earned' = [earned EXCEPT ![t] = @ - 1]
  /\ pc' = [pc EXCEPT ![t] = "user"]
  /\ UNCHANGED <<terminal_freq, terminal_count, since>>

Next ==
  \/ Handler
  \/ \E t \in Terminals :
       \/ Open(t)
       \/ OpenFreq(t)
       \/ OpenCount(t)
       \/ \E freq \in Frequencies : Write(t, freq)
       \/ Read(t)
       \/ ReadWakes(t)
       \/ ReadReturns(t)

\* The hardware interrupts for ever, and the scheduler gives every terminal's
\* program, wherever in RTC_read it is, its turn.
Fairness ==
  /\ WF_vars(Handler)
  /\ \A t \in Terminals : WF_vars(ReadWakes(t)) /\ WF_vars(ReadReturns(t))

Spec == Init /\ [][Next]_vars
FairSpec == Spec /\ Fairness

-----------------------------------------------------------------------------
(* Properties.                                                             *)

\* Every variable has its type; a count that reached BASE has fired.
TypeOK ==
  /\ terminal_freq \in [Terminals -> Nat]
  /\ terminal_count \in [Terminals -> 0..(BASE - 1)]
  /\ interrupt_occured \in [Terminals -> {0, 1}]
  /\ pc \in [Terminals -> {"closed", "set_freq", "set_count", "user", "waiting", "reset"}]
  /\ since \in [Terminals -> Nat \cup {Unset}]
  /\ earned \in [Terminals -> 0..MaxEarned]

\* RTC_read returns only for an interrupt of its terminal's clock (its comment
\* says so), and never twice for one, though interrupts may come between the
\* end of its loop and the reset of the flag.
ReadIsEarned ==
  \A t \in Terminals :
    interrupt_occured[t] = 1 \/ pc[t] = "reset" => earned[t] > 0

\* A clock keeps the rate its program set: it fires BASE / freq hardware interrupts
\* after it was set or fired last, and at every one if the rate is above the
\* hardware's; it is never early and never late.  Of an open at most one interrupt
\* comes at another time: the first between the stores of the rate and the count.
FiresOnTime ==
  [][\A t \in Terminals :
       /\ earned'[t] > earned[t] /\ since[t] # Unset =>
            IF terminal_freq[t] > BASE THEN since[t] = 0
            ELSE (since[t] + 1) * terminal_freq[t] = BASE
       /\ pc'[t] # "set_count" =>
            since'[t] # Unset /\ since'[t] * terminal_freq'[t] < BASE]_vars

\* A program that waits for its clock is woken, whatever is opened and written
\* on the other terminals.
ReaderWakes == \A t \in Terminals : pc[t] = "waiting" ~> pc[t] = "user"
=============================================================================
