------------------------- MODULE RealTimeClockProofs --------------------------
(***************************************************************************)
(* Theorems about RealTimeClock for every number of terminals and every    *)
(* rate of the hardware.  The types and ReadIsEarned need each other: that *)
(* a reader's account does not run below 0 is both a type and the reason   *)
(* why a set flag always stands for an interrupt.  RateInv, that a count   *)
(* is its rate times the interrupts since it was set, is on top of both.   *)
(***************************************************************************)
EXTENDS RealTimeClock, TLAPS

IInv == TypeOK /\ ReadIsEarned

LEMMA InitInvariant == Init => IInv
<1> SUFFICES ASSUME Init PROVE IInv
  OBVIOUS
<1> USE RealTimeClockAssumption
<1>1. TypeOK
  BY DEF Init, TypeOK
<1>2. ReadIsEarned
  BY DEF Init, ReadIsEarned
<1> QED
  BY <1>1, <1>2 DEF IInv

LEMMA HandlerStep == IInv /\ Handler => IInv'
<1> SUFFICES ASSUME IInv, Handler PROVE IInv'
  OBVIOUS
<1> USE RealTimeClockAssumption DEF IInv
<1>1. TypeOK'
  <2>1. /\ terminal_freq' \in [Terminals -> Nat]
        /\ pc' \in [Terminals -> {"closed", "set_freq", "set_count", "user", "waiting", "reset"}]
    BY DEF TypeOK, Handler
  <2>2. terminal_count' \in [Terminals -> 0..(BASE - 1)]
    BY DEF TypeOK, Handler, Firing, Full
  <2>3. interrupt_occured' \in [Terminals -> {0, 1}]
    BY DEF TypeOK, Handler
  <2>4. since' \in [Terminals -> Nat \cup {Unset}]
    BY DEF TypeOK, Handler, Unset
  <2>5. earned' \in [Terminals -> 0..MaxEarned]
    BY DEF TypeOK, Handler
  <2> QED
    BY <2>1, <2>2, <2>3, <2>4, <2>5 DEF TypeOK
<1>2. ReadIsEarned'
  <2> SUFFICES ASSUME NEW t \in Terminals, interrupt_occured'[t] = 1 \/ pc'[t] = "reset"
               PROVE  earned'[t] > 0
    BY DEF ReadIsEarned
  <2>1. CASE t \in Firing
    BY <2>1 DEF TypeOK, Handler
  <2>2. CASE t \notin Firing
    BY <2>2 DEF TypeOK, Handler, ReadIsEarned
  <2> QED
    BY <2>1, <2>2
<1> QED
  BY <1>1, <1>2

LEMMA ProgramStep ==
  ASSUME IInv, NEW t \in Terminals,
         \/ Open(t) \/ OpenFreq(t) \/ OpenCount(t)
         \/ \E freq \in Frequencies : Write(t, freq)
         \/ Read(t) \/ ReadWakes(t) \/ ReadReturns(t)
  PROVE  IInv'
<1> USE RealTimeClockAssumption DEF IInv
<1>1. CASE Open(t)
  BY <1>1 DEF TypeOK, ReadIsEarned, Open
<1>2. CASE OpenFreq(t)
  BY <1>2 DEF TypeOK, ReadIsEarned, OpenFreq, OpenedAt, Unset
<1>3. CASE OpenCount(t)
  BY <1>3 DEF TypeOK, ReadIsEarned, OpenCount
<1>4. CASE \E freq \in Frequencies : Write(t, freq)
  <2>1. PICK freq \in Frequencies : Write(t, freq)
    BY <1>4
  <2>2. freq \in Nat
    OBVIOUS
  <2> QED
    BY <2>1, <2>2 DEF TypeOK, ReadIsEarned, Write, CountAfterWrite
<1>5. CASE Read(t)
  BY <1>5 DEF TypeOK, ReadIsEarned, Read
<1>6. CASE ReadWakes(t)
  BY <1>6 DEF TypeOK, ReadIsEarned, ReadWakes
<1>7. CASE ReadReturns(t)
  \* The reader leaves "reset", where its account was above 0.
  <2>1. earned[t] \in 1..MaxEarned
    BY <1>7 DEF TypeOK, ReadIsEarned, ReadReturns
  <2> QED
    BY <1>7, <2>1 DEF TypeOK, ReadIsEarned, ReadReturns, FlagAfterRead
<1> QED
  BY <1>1, <1>2, <1>3, <1>4, <1>5, <1>6, <1>7

LEMMA NextInvariant == IInv /\ [Next]_vars => IInv'
<1> SUFFICES ASSUME IInv, [Next]_vars PROVE IInv'
  OBVIOUS
<1>1. CASE Handler
  BY <1>1, HandlerStep
<1>2. CASE \E t \in Terminals :
             \/ Open(t) \/ OpenFreq(t) \/ OpenCount(t)
             \/ \E freq \in Frequencies : Write(t, freq)
             \/ Read(t) \/ ReadWakes(t) \/ ReadReturns(t)
  BY <1>2, ProgramStep
<1>3. CASE UNCHANGED vars
  BY <1>3 DEF IInv, TypeOK, ReadIsEarned, vars
<1> QED
  BY <1>1, <1>2, <1>3 DEF Next

LEMMA Invariant == Spec => []IInv
  BY InitInvariant, NextInvariant, PTL DEF Spec

\* Every variable keeps its type: in particular no count passes BASE, and no
\* reader's account runs below 0.
THEOREM ClockTypes == Spec => []TypeOK
<1>1. IInv => TypeOK
  BY DEF IInv
<1> QED
  BY Invariant, <1>1, PTL

\* RTC_read returns at most once for each interrupt of its terminal's clock,
\* for any number of terminals, any rates and any order of stores and handler.
THEOREM EveryReadIsEarned == Spec => []ReadIsEarned
<1>1. IInv => ReadIsEarned
  BY DEF IInv
<1> QED
  BY Invariant, <1>1, PTL

-----------------------------------------------------------------------------
(* The rate.  A clock counts its rate at every interrupt of the hardware,  *)
(* but for the moment in which RTC_open has stored a rate and no count; a  *)
(* rate is a power of two, so one up to that of the hardware divides it.   *)

RateInv ==
  \A t \in Terminals :
    /\ since[t] = Unset => pc[t] = "set_count" /\ terminal_freq[t] = OpenedAt
    /\ since[t] # Unset => terminal_count[t] = since[t] * terminal_freq[t]
    /\ terminal_freq[t] \in 1..BASE => BASE % terminal_freq[t] = 0

\* A power of two up to the hardware's rate divides it.
LEMMA RateDivides ==
  ASSUME NEW freq \in 1..BASE, NEW k \in 0..BASE, freq = 2^k
  PROVE  BASE % freq = 0
<1>1. PICK m \in 1..BASE : BASE = 2^m
  BY RealTimeClockAssumption
<1>2. BASE \in Nat /\ BASE >= 2 /\ k \in Int /\ m \in Int
  BY RealTimeClockAssumption
<1>3. CASE k <= m
  <2>1. 2^m % 2^k = 0
    BY <1>1, <1>2, <1>3, PowersDivide
  <2> QED
    BY <1>1, <2>1
<1>4. CASE m <= k
  <2>1. 2^k % 2^m = 0
    BY <1>1, <1>2, <1>4, PowersDivide
  <2>2. freq % BASE = 0
    BY <1>1, <2>1
  <2>3. freq = BASE
    BY <1>2, <2>2
  <2> QED
    BY <1>2, <2>3
<1> QED
  BY <1>2, <1>3, <1>4

LEMMA DivisorTimes ==
  ASSUME NEW b \in Nat, NEW f \in Nat \ {0}, b % f = 0
  PROVE  \E q \in Nat : b = q * f
<1>1. b = f * (b \div f)
  OBVIOUS
<1>2. b \div f \in Nat
  OBVIOUS
<1>3. PICK q \in Nat : q = b \div f
  BY <1>2
<1>4. f * q = q * f
  OBVIOUS
<1>5. b = q * f
  BY <1>1, <1>3, <1>4
<1> QED
  BY <1>5

\* The first multiple of f that reaches a multiple of it is that multiple.
LEMMA FirstToReach ==
  ASSUME NEW f \in Nat, NEW q \in Nat, NEW n \in Nat, n * f < q * f, q * f <= (n + 1) * f
  PROVE  (n + 1) * f = q * f
<1>1. f > 0
  OBVIOUS
<1>2. n < q
  <2>1. CASE n >= q
    <3>1. n * f >= q * f
      BY <1>1, <2>1
    <3> QED
      BY <3>1
  <2> QED
    BY <2>1
<1>3. q <= n + 1
  <2>1. CASE q >= n + 2
    <3>1. q * f >= (n + 2) * f
      BY <1>1, <2>1
    <3>2. (n + 2) * f = (n + 1) * f + f
      OBVIOUS
    <3> QED
      BY <1>1, <3>1, <3>2
  <2> QED
    BY <2>1
<1> QED
  BY <1>2, <1>3

LEMMA OneMore == \A n \in Nat, f \in Nat : n * f + f = (n + 1) * f /\ 0 * f = 0
OBVIOUS

LEMMA NoRate == \A n \in Nat : n * 0 = 0
OBVIOUS

LEMMA RateInvInit == Init => RateInv
BY DEF Init, RateInv, Unset

LEMMA RateInvHandler ==
  ASSUME TypeOK, RateInv, Handler
  PROVE  RateInv'
<1> SUFFICES ASSUME NEW t \in Terminals
             PROVE  /\ since'[t] = Unset => pc[t] = "set_count" /\ terminal_freq[t] = OpenedAt
                    /\ since'[t] # Unset => terminal_count'[t] = since'[t] * terminal_freq[t]
                    /\ terminal_freq[t] \in 1..BASE => BASE % terminal_freq[t] = 0
  BY DEF RateInv, Handler
<1>1. terminal_freq[t] \in 1..BASE => BASE % terminal_freq[t] = 0
  BY DEF RateInv
<1>2. PICK f \in Nat : f = terminal_freq[t]
  BY RealTimeClockAssumption DEF TypeOK
<1>3. since[t] \in Nat \cup {Unset} /\ terminal_count[t] \in 0..(BASE - 1)
  BY DEF TypeOK
<1>4. since'[t] = Unset => pc[t] = "set_count" /\ terminal_freq[t] = OpenedAt
  <2>1. since'[t] = Unset => since[t] = Unset
    BY <1>3 DEF Handler, Unset
  <2> QED
    BY <2>1 DEF RateInv
<1>5. ASSUME since'[t] # Unset PROVE terminal_count'[t] = since'[t] * terminal_freq[t]
  <2>2. CASE t \in Firing
    <3>1. terminal_count'[t] = 0 /\ since'[t] = 0
      BY <2>2 DEF Handler
    <3> QED
      BY <1>2, <3>1, OneMore
  <2>3. CASE t \notin Firing /\ f = 0
    <3>1. since'[t] = 0 /\ terminal_count'[t] = terminal_count[t] + 0
      BY <1>2, <2>3 DEF Handler
    <3>2. terminal_count[t] = 0
      <4>1. since[t] # Unset
        <5>1. since[t] = Unset => terminal_freq[t] = OpenedAt
          BY DEF RateInv
        <5> QED
          BY <1>2, <2>3, <5>1 DEF OpenedAt
      <4>2. PICK n \in Nat : n = since[t]
        BY <1>3, <4>1
      <4>3. terminal_count[t] = n * 0
        BY <1>2, <2>3, <4>1, <4>2 DEF RateInv
      <4> QED
        BY <4>3, NoRate
    <3> QED
      BY <1>2, <2>3, <3>1, <3>2, NoRate
  <2>4. CASE t \notin Firing /\ f # 0
    <3>1. since[t] # Unset
      BY <1>2, <1>5, <2>4 DEF Handler
    <3>2. PICK n \in Nat : n = since[t]
      BY <1>3, <3>1
    <3>3. terminal_count[t] = n * f
      BY <1>2, <3>1, <3>2 DEF RateInv
    <3>4. terminal_count'[t] = n * f + f /\ since'[t] = n + 1
      BY <1>2, <2>4, <3>1, <3>2, <3>3 DEF Handler
    <3> QED
      BY <1>2, <3>4, OneMore
  <2> QED
    BY <2>2, <2>3, <2>4
<1> QED
  BY <1>1, <1>4, <1>5

\* What one terminal's program does to its clock.
LEMMA RateInvProgram ==
  ASSUME TypeOK, RateInv, NEW t \in Terminals,
         \/ Open(t) \/ OpenFreq(t) \/ OpenCount(t)
         \/ \E freq \in Frequencies : Write(t, freq)
         \/ Read(t) \/ ReadWakes(t) \/ ReadReturns(t)
  PROVE  RateInv'
<1>1. CASE /\ UNCHANGED <<terminal_freq, terminal_count, since>> /\ pc[t] # "set_count"
           /\ \A u \in Terminals \ {t} : pc'[u] = pc[u]
  BY <1>1 DEF RateInv
<1>2. CASE OpenFreq(t)
  <2>1. 2 \in 1..BASE /\ 2 = 2^1 /\ 1 \in 0..BASE
    BY RealTimeClockAssumption
  <2>2. BASE % 2 = 0
    BY <2>1, RateDivides
  <2>3. /\ pc'[t] = "set_count" /\ terminal_freq'[t] = 2 /\ since'[t] = Unset
        /\ \A u \in Terminals \ {t} : /\ pc'[u] = pc[u] /\ terminal_freq'[u] = terminal_freq[u]
                                      /\ since'[u] = since[u]
        /\ UNCHANGED terminal_count
    BY <1>2 DEF OpenFreq, OpenedAt, TypeOK
  <2> QED
    BY <2>2, <2>3 DEF RateInv, OpenedAt
<1>3. CASE OpenCount(t)
  <2>1. PICK f \in Nat : f = terminal_freq[t]
    BY RealTimeClockAssumption DEF TypeOK
  <2>2. terminal_count'[t] = 0 /\ since'[t] = 0 /\ 0 = 0 * f
    BY <1>3, OneMore DEF OpenCount, TypeOK
  <2>3. /\ \A u \in Terminals \ {t} :
              pc'[u] = pc[u] /\ terminal_count'[u] = terminal_count[u] /\ since'[u] = since[u]
        /\ UNCHANGED terminal_freq
    BY <1>3 DEF OpenCount, TypeOK
  <2> QED
    BY <2>1, <2>2, <2>3 DEF RateInv, Unset
<1>4. CASE \E freq \in Frequencies : Write(t, freq)
  <2>1. PICK freq \in Frequencies : Write(t, freq)
    BY <1>4
  <2>2. freq \in Nat /\ BASE \in Nat
    BY RealTimeClockAssumption
  <2>3. freq \in 1..BASE => BASE % freq = 0
    <3> SUFFICES ASSUME freq \in 1..BASE PROVE BASE % freq = 0
      OBVIOUS
    <3>1. PICK k \in 0..freq : freq = 2^k
      BY <2>1 DEF Write, Accepted
    <3>2. k \in 0..BASE
      BY <2>2
    <3> QED
      BY <3>1, <3>2, RateDivides
  <2>4. terminal_freq'[t] = freq /\ terminal_count'[t] = 0 /\ since'[t] = 0 /\ 0 = 0 * freq
    BY <2>1, <2>2, OneMore DEF Write, CountAfterWrite, TypeOK
  <2>5. /\ \A u \in Terminals \ {t} :
             /\ terminal_freq'[u] = terminal_freq[u] /\ terminal_count'[u] = terminal_count[u]
             /\ since'[u] = since[u]
        /\ UNCHANGED pc
    BY <2>1 DEF Write, TypeOK
  <2> QED
    BY <2>3, <2>4, <2>5 DEF RateInv, Unset
<1>5. CASE Open(t) \/ Read(t) \/ ReadWakes(t) \/ ReadReturns(t)
  BY <1>1, <1>5 DEF Open, Read, ReadWakes, ReadReturns, TypeOK
<1> QED
  BY <1>2, <1>3, <1>4, <1>5

LEMMA RateInvNext == TypeOK /\ RateInv /\ [Next]_vars => RateInv'
<1> SUFFICES ASSUME TypeOK, RateInv, [Next]_vars PROVE RateInv'
  OBVIOUS
<1>1. CASE Handler
  BY <1>1, RateInvHandler
<1>2. CASE \E t \in Terminals :
             \/ Open(t) \/ OpenFreq(t) \/ OpenCount(t)
             \/ \E freq \in Frequencies : Write(t, freq)
             \/ Read(t) \/ ReadWakes(t) \/ ReadReturns(t)
  BY <1>2, RateInvProgram
<1>3. CASE UNCHANGED vars
  BY <1>3 DEF RateInv, vars
<1> QED
  BY <1>1, <1>2, <1>3 DEF Next

\* Only the handler makes a clock fire.
LEMMA HandlerFires ==
  ASSUME TypeOK, [Next]_vars, NEW t \in Terminals, earned'[t] > earned[t]
  PROVE  Handler /\ t \in Firing
<1>1. CASE Handler
  BY <1>1 DEF Handler, TypeOK
<1>2. CASE \E u \in Terminals :
         \/ Open(u) \/ OpenFreq(u) \/ OpenCount(u)
         \/ \E freq \in Frequencies : Write(u, freq)
         \/ Read(u) \/ ReadWakes(u) \/ ReadReturns(u)
  <2>1. PICK u \in Terminals :
         \/ Open(u) \/ OpenFreq(u) \/ OpenCount(u)
         \/ \E freq \in Frequencies : Write(u, freq)
         \/ Read(u) \/ ReadWakes(u) \/ ReadReturns(u)
    BY <1>2
  <2>2. \/ UNCHANGED earned
        \/ earned' = [earned EXCEPT ![u] = 0]
        \/ earned' = [earned EXCEPT ![u] = earned[u] - 1]
    BY <2>1 DEF Open, OpenFreq, OpenCount, Write, Read, ReadWakes, ReadReturns
  <2> QED
    BY <2>2 DEF TypeOK
<1>3. CASE UNCHANGED vars
  BY <1>3 DEF vars, TypeOK
<1> QED
  BY <1>1, <1>2, <1>3 DEF Next

\* A clock whose count is its rate times the interrupts since it was set fires at
\* the right one.
LEMMA FiresAtItsRate ==
  ASSUME TypeOK, RateInv, NEW t \in Terminals, t \in Firing, since[t] # Unset
  PROVE  IF terminal_freq[t] > BASE THEN since[t] = 0
         ELSE (since[t] + 1) * terminal_freq[t] = BASE
<1>1. PICK f \in Nat : f = terminal_freq[t]
  BY RealTimeClockAssumption DEF TypeOK
<1>2. PICK n \in Nat : n = since[t]
  BY DEF TypeOK
<1>3. BASE \in Nat
  BY RealTimeClockAssumption
<1>4. f # 0 /\ n * f + f >= BASE /\ n * f < BASE
  <2>1. terminal_count[t] = n * f /\ terminal_count[t] < BASE
    BY <1>1, <1>2, RealTimeClockAssumption DEF RateInv, TypeOK
  <2>2. f # 0 /\ terminal_count[t] + f >= BASE
    BY <1>1 DEF Firing, Full
  <2> QED
    BY <2>1, <2>2
<1>5. CASE f > BASE
  <2>1. ASSUME n >= 1 PROVE FALSE
    <3>1. n * f >= 1 * f
      BY <1>4, <2>1
    <3> QED
      BY <1>3, <1>4, <1>5, <3>1
  <2>2. n = 0
    BY <2>1
  <2> QED
    BY <1>1, <1>2, <1>5, <2>2
<1>6. CASE ~(f > BASE)
  <2>1. BASE % f = 0
    <3>1. terminal_freq[t] \in 1..BASE
      BY <1>1, <1>3, <1>4, <1>6
    <3> QED
      BY <1>1, <3>1 DEF RateInv
  <2>2. PICK q \in Nat : BASE = q * f
    BY <1>3, <1>4, <2>1, DivisorTimes
  <2>3. n * f < q * f /\ q * f <= (n + 1) * f
    BY <1>4, <2>2, OneMore
  <2>4. (n + 1) * f = q * f
    BY <2>3, FirstToReach
  <2> QED
    BY <1>1, <1>2, <1>6, <2>2, <2>4
<1> QED
  BY <1>5, <1>6

\* A virtual interrupt comes BASE / freq interrupts of the hardware after its clock
\* was set or fired last, or at every one if the rate is above the hardware's: it is
\* never early, never late and never skipped, at every rate RTC_frequency accepts.
\* Where the handler falls between RTC_open's stores of the rate and the count, one
\* interrupt may come early, and no other does.
THEOREM EveryClockFiresOnTime == Spec => FiresOnTime
<1>1. ASSUME TypeOK, TypeOK', RateInv, RateInv', [Next]_vars, NEW t \in Terminals
      PROVE  /\ earned'[t] > earned[t] /\ since[t] # Unset =>
                  IF terminal_freq[t] > BASE THEN since[t] = 0
                  ELSE (since[t] + 1) * terminal_freq[t] = BASE
             /\ pc'[t] # "set_count" =>
                  since'[t] # Unset /\ since'[t] * terminal_freq'[t] < BASE
  <2>1. earned'[t] > earned[t] /\ since[t] # Unset =>
          IF terminal_freq[t] > BASE THEN since[t] = 0
          ELSE (since[t] + 1) * terminal_freq[t] = BASE
    BY <1>1, HandlerFires, FiresAtItsRate
  <2>2. pc'[t] # "set_count" => since'[t] # Unset /\ since'[t] * terminal_freq'[t] < BASE
    <3>1. /\ since'[t] = Unset => pc'[t] = "set_count"
          /\ since'[t] # Unset => terminal_count'[t] = since'[t] * terminal_freq'[t]
      BY <1>1 DEF RateInv
    <3>2. terminal_count'[t] < BASE
      BY <1>1, RealTimeClockAssumption DEF TypeOK
    <3> QED
      BY <3>1, <3>2
  <2> QED
    BY <2>1, <2>2
<1>2. TypeOK /\ TypeOK' /\ RateInv /\ RateInv' /\ [Next]_vars =>
        [\A t \in Terminals :
           /\ earned'[t] > earned[t] /\ since[t] # Unset =>
                IF terminal_freq[t] > BASE THEN since[t] = 0
                ELSE (since[t] + 1) * terminal_freq[t] = BASE
           /\ pc'[t] # "set_count" =>
                since'[t] # Unset /\ since'[t] * terminal_freq'[t] < BASE]_vars
  BY <1>1
<1> QED
  BY <1>2, ClockTypes, RateInvInit, RateInvNext, PTL DEF Spec, FiresOnTime
=============================================================================
