------------------------- MODULE TerminalInputProofs -------------------------
(***************************************************************************)
(* Theorems about TerminalInput, for every number of terminals and every   *)
(* size of the buffers, every set of names and every nbytes.  They are for *)
(* a user who presses Up on an empty line only (RecallEmpty).              *)
(***************************************************************************)
EXTENDS TerminalInput, SequenceTheorems, TLAPS

-----------------------------------------------------------------------------
(* The invariant, of what a terminal holds: its buffers, the position, the *)
(* flag, its reader and what that has got, and the two lines.              *)

Typeable == Chars \ {NL}
Readers == [pc : {"none", "waiting", "copying"}, i : Nat, nbytes : Nat]

Holds(kb, old, pos, can, r, got, shown, entered) ==
  /\ kb \in [Cells -> Chars]
  /\ old \in [OldCells -> Typeable]
  /\ pos \in Nat
  /\ can \in {0, 1}
  /\ r \in Readers
  /\ got \in Seq(Chars)
  /\ shown \in Seq(Typeable)
  /\ entered \in Seq(Chars)

\* The last cell is kept for Enter, so no line that is kept is longer than the
\* others.
Fits(kb, old, pos, r) ==
  /\ pos <= BUF - 1
  /\ kb[BUF - 1] \in {NL, NUL}
  /\ \A i \in OldCells : i >= BUF - 1 => old[i] = NUL
  /\ r.nbytes <= BUF

\* A line that was entered is in the buffer, from where its reader has come to.
Entered(kb, r, entered) ==
  /\ Len(entered) \in 1..BUF
  /\ \A j \in 1..Len(entered) : entered[j] = NL <=> j = Len(entered)
  /\ \A j \in 1..Len(entered) : ~(r.pc = "copying" /\ j <= r.i) => kb[j - 1] = entered[j]

Agree(kb, pos, can, r, got, shown, entered) ==
  /\ Len(shown) = pos
  /\ \A j \in 1..pos : kb[j - 1] = shown[j]
  /\ can = 1 \/ r.pc = "copying" => pos = 0 /\ Entered(kb, r, entered)
  /\ r.pc = "waiting" => r.i = 0 /\ got = <<>>
  /\ r.pc = "copying" =>
       /\ r.i < Len(entered) /\ r.i <= r.nbytes
       /\ Len(got) = r.i
       /\ \A j \in 1..r.i : got[j] = entered[j]

FitsInv ==
  /\ mixed \in [Terminals -> BOOLEAN]
  /\ active \in Terminals /\ scheduled \in Terminals
  /\ keyboard_buffer \in [Terminals -> [Cells -> Chars]]
  /\ old_buffer \in [Terminals -> [OldCells -> Typeable]]
  /\ buffer_position \in [Terminals -> Nat]
  /\ terminal_can_read \in [Terminals -> {0, 1}]
  /\ reader \in [Terminals -> Readers]
  /\ out \in [Terminals -> Seq(Chars)]
  /\ typed \in [Terminals -> Seq(Typeable)]
  /\ line \in [Terminals -> Seq(Chars)]
  /\ \A t \in Terminals :
       Fits(keyboard_buffer[t], old_buffer[t], buffer_position[t], reader[t])

\* The lines of a terminal agree until the user mixes two of them.
AgreeInv ==
  \A t \in Terminals : ~mixed[t] =>
    Agree(keyboard_buffer[t], buffer_position[t], terminal_can_read[t], reader[t],
          out[t], typed[t], line[t])

USE TerminalInputAssumption

LEMMA CellFacts ==
  /\ Cells = 0..(BUF - 1) /\ BUF - 1 \in Cells /\ Cells \subseteq Nat
  /\ OldCells = 0..(OLD - 1) /\ Cells \subseteq OldCells
  /\ Letters \cup {SPACE} \subseteq Typeable
  /\ NUL \in Typeable /\ NL \in Chars /\ Typeable \subseteq Chars
  /\ 0 \in Terminals /\ NTerminals - 1 \in Terminals
<1>1. /\ Cells = 0..(BUF - 1) /\ BUF - 1 \in Cells /\ Cells \subseteq Nat
      /\ OldCells = 0..(OLD - 1) /\ Cells \subseteq OldCells
  BY DEF Cells, OldCells
<1>2. /\ NL \notin Letters /\ SPACE # NL /\ NUL # NL
  BY DEF SPACE, NL, NUL
<1>3. /\ Letters \cup {SPACE} \subseteq Typeable
      /\ NUL \in Typeable /\ NL \in Chars /\ Typeable \subseteq Chars
  BY <1>2 DEF Typeable, Chars
<1>4. 0 \in Terminals /\ NTerminals - 1 \in Terminals
  BY DEF Terminals
<1> QED
  BY <1>1, <1>3, <1>4

-----------------------------------------------------------------------------
(* Steps change what one terminal holds.                                   *)

Becomes(t, kb, old, pos, can, r, got, shown, entered, mix) ==
  /\ keyboard_buffer' = [keyboard_buffer EXCEPT ![t] = kb]
  /\ old_buffer' = [old_buffer EXCEPT ![t] = old]
  /\ buffer_position' = [buffer_position EXCEPT ![t] = pos]
  /\ terminal_can_read' = [terminal_can_read EXCEPT ![t] = can]
  /\ reader' = [reader EXCEPT ![t] = r]
  /\ out' = [out EXCEPT ![t] = got]
  /\ typed' = [typed EXCEPT ![t] = shown]
  /\ line' = [line EXCEPT ![t] = entered]
  /\ mixed' = [mixed EXCEPT ![t] = mix]

LEMMA BecomesKeepsFits ==
  ASSUME FitsInv, NEW t \in Terminals,
         NEW kb, NEW old, NEW pos, NEW can, NEW r, NEW got, NEW shown, NEW entered,
         NEW mix \in BOOLEAN,
         Becomes(t, kb, old, pos, can, r, got, shown, entered, mix),
         Holds(kb, old, pos, can, r, got, shown, entered),
         Fits(kb, old, pos, r),
         active' \in Terminals, scheduled' \in Terminals
  PROVE  FitsInv'
<1>1. \A u \in Terminals :
        /\ keyboard_buffer'[u] = IF u = t THEN kb ELSE keyboard_buffer[u]
        /\ old_buffer'[u] = IF u = t THEN old ELSE old_buffer[u]
        /\ buffer_position'[u] = IF u = t THEN pos ELSE buffer_position[u]
        /\ reader'[u] = IF u = t THEN r ELSE reader[u]
  BY DEF FitsInv, Becomes
<1>2. \A u \in Terminals :
        Fits(keyboard_buffer'[u], old_buffer'[u], buffer_position'[u], reader'[u])
  <2> SUFFICES ASSUME NEW u \in Terminals
               PROVE  Fits(keyboard_buffer'[u], old_buffer'[u], buffer_position'[u], reader'[u])
    OBVIOUS
  <2>1. CASE u = t
    BY <1>1, <2>1
  <2>2. CASE u # t
    BY <1>1, <2>2 DEF FitsInv
  <2> QED
    BY <2>1, <2>2
<1>3. /\ keyboard_buffer' \in [Terminals -> [Cells -> Chars]]
      /\ old_buffer' \in [Terminals -> [OldCells -> Typeable]]
      /\ buffer_position' \in [Terminals -> Nat]
      /\ terminal_can_read' \in [Terminals -> {0, 1}]
  BY DEF FitsInv, Becomes, Holds
<1>4. /\ reader' \in [Terminals -> Readers]
      /\ out' \in [Terminals -> Seq(Chars)]
      /\ typed' \in [Terminals -> Seq(Typeable)]
      /\ line' \in [Terminals -> Seq(Chars)]
      /\ mixed' \in [Terminals -> BOOLEAN]
  BY DEF FitsInv, Becomes, Holds
<1> QED
  BY <1>2, <1>3, <1>4 DEF FitsInv, Fits

LEMMA BecomesKeepsAgree ==
  ASSUME FitsInv, AgreeInv, NEW t \in Terminals,
         NEW kb, NEW old, NEW pos, NEW can, NEW r, NEW got, NEW shown, NEW entered,
         NEW mix \in BOOLEAN,
         Becomes(t, kb, old, pos, can, r, got, shown, entered, mix),
         ~mix => Agree(kb, pos, can, r, got, shown, entered)
  PROVE  AgreeInv'
<1>1. \A u \in Terminals :
        /\ keyboard_buffer'[u] = IF u = t THEN kb ELSE keyboard_buffer[u]
        /\ buffer_position'[u] = IF u = t THEN pos ELSE buffer_position[u]
        /\ terminal_can_read'[u] = IF u = t THEN can ELSE terminal_can_read[u]
        /\ reader'[u] = IF u = t THEN r ELSE reader[u]
        /\ out'[u] = IF u = t THEN got ELSE out[u]
        /\ typed'[u] = IF u = t THEN shown ELSE typed[u]
        /\ line'[u] = IF u = t THEN entered ELSE line[u]
        /\ mixed'[u] <=> IF u = t THEN mix ELSE mixed[u]
  <2>1. \A u \in Terminals : mixed'[u] <=> IF u = t THEN mix ELSE mixed[u]
    BY Zenon DEF FitsInv, Becomes
  <2> QED
    BY <2>1 DEF FitsInv, Becomes
<1> SUFFICES ASSUME NEW u \in Terminals, ~mixed'[u]
             PROVE  Agree(keyboard_buffer'[u], buffer_position'[u], terminal_can_read'[u],
                          reader'[u], out'[u], typed'[u], line'[u])
  BY DEF AgreeInv, Agree, Entered
<1>2. CASE u = t
  BY <1>1, <1>2
<1>3. CASE u # t
  BY <1>1, <1>3 DEF AgreeInv
<1> QED
  BY <1>2, <1>3

\* What a terminal holds, by its type.
LEMMA TerminalHolds ==
  ASSUME FitsInv, NEW t \in Terminals
  PROVE  /\ Holds(keyboard_buffer[t], old_buffer[t], buffer_position[t], terminal_can_read[t],
                  reader[t], out[t], typed[t], line[t])
         /\ Fits(keyboard_buffer[t], old_buffer[t], buffer_position[t], reader[t])
BY DEF FitsInv, Holds

\* What a step leaves alone.
LEMMA Unchanged ==
  ASSUME FitsInv, NEW t \in Terminals
  PROVE  /\ keyboard_buffer = [keyboard_buffer EXCEPT ![t] = keyboard_buffer[t]]
         /\ old_buffer = [old_buffer EXCEPT ![t] = old_buffer[t]]
         /\ buffer_position = [buffer_position EXCEPT ![t] = buffer_position[t]]
         /\ terminal_can_read = [terminal_can_read EXCEPT ![t] = terminal_can_read[t]]
         /\ reader = [reader EXCEPT ![t] = reader[t]]
         /\ out = [out EXCEPT ![t] = out[t]]
         /\ typed = [typed EXCEPT ![t] = typed[t]]
         /\ line = [line EXCEPT ![t] = line[t]]
         /\ mixed = [mixed EXCEPT ![t] = mixed[t]]
BY DEF FitsInv

\* What a key makes of the record that two lines were mixed.
LEMMA MixesBecomes ==
  ASSUME FitsInv, NEW t \in Terminals, NEW over \in BOOLEAN, Mixes(t, over)
  PROVE  \E mix \in BOOLEAN :
           /\ mix <=> mixed[t] \/ over
           /\ mixed' = [mixed EXCEPT ![t] = mix]
<1>1. mixed' = [mixed EXCEPT ![t] = mixed[t] \/ over]
  BY DEF Mixes
<1>2. (mixed[t] \/ over) \in BOOLEAN
  OBVIOUS
<1> QED
  BY <1>1, <1>2, Zenon

LEMMA FitsInvInit == Init => FitsInv
<1> SUFFICES ASSUME Init PROVE FitsInv
  OBVIOUS
<1>1. /\ <<>> \in Seq(Chars) /\ <<>> \in Seq(Typeable) /\ <<NL>> \in Seq(Chars)
      /\ [pc |-> "none", i |-> 0, nbytes |-> 0] \in Readers
  BY CellFacts DEF Readers
<1>2. \A t \in Terminals :
        Fits(keyboard_buffer[t], old_buffer[t], buffer_position[t], reader[t])
  BY CellFacts DEF Init, Fits
<1>3. /\ keyboard_buffer \in [Terminals -> [Cells -> Chars]]
      /\ old_buffer \in [Terminals -> [OldCells -> Typeable]]
  BY CellFacts DEF Init
<1> QED
  BY <1>1, <1>2, <1>3, CellFacts DEF Init, FitsInv

LEMMA AgreeInvInit == Init => AgreeInv
BY DEF Init, AgreeInv, Agree

-----------------------------------------------------------------------------
(* The keys.                                                               *)

\* Characters, blanks and the rest of a name go into the buffer and on the
\* screen alike, and never into the last cell.
LEMMA InsertStep ==
  ASSUME FitsInv, NEW t \in Terminals, t = active, NEW s \in Seq(Typeable),
         buffer_position[t] + Len(s) <= BUF - 1,
         Insert(t, s),
         NEW can \in {0, 1}, terminal_can_read' = [terminal_can_read EXCEPT ![t] = can],
         UNCHANGED <<active, scheduled, reader, out, line>>
  PROVE  /\ FitsInv'
         /\ AgreeInv /\ (~mixed[t] => can = 0) => AgreeInv'
<1> DEFINE pos == buffer_position[t]
           Stored(i) == pos <= i /\ i < pos + Len(s)
<1>1. /\ Holds(keyboard_buffer[t], old_buffer[t], pos, terminal_can_read[t],
               reader[t], out[t], typed[t], line[t])
      /\ Fits(keyboard_buffer[t], old_buffer[t], pos, reader[t])
  BY TerminalHolds
<1>2. Len(s) \in Nat /\ \A j \in 1..Len(s) : s[j] \in Typeable
  BY ElementOfSeq, LenProperties
<1>3. PICK kb : kb = [i \in Cells |-> IF Stored(i) THEN s[i - pos + 1] ELSE keyboard_buffer[t][i]]
  OBVIOUS
<1>4. keyboard_buffer' = [keyboard_buffer EXCEPT ![t] = kb]
  BY <1>3 DEF Insert
<1>5. old_buffer' = [old_buffer EXCEPT ![t] = old_buffer[t]]
  <2>1. old_buffer' = [old_buffer EXCEPT ![t] =
          [i \in OldCells |-> IF Stored(BUF + i) THEN s[BUF + i - pos + 1] ELSE old_buffer[t][i]]]
    BY DEF Insert
  <2>2. \A i \in OldCells : ~Stored(BUF + i)
    BY <1>1, <1>2, CellFacts DEF Holds
  <2>3. [i \in OldCells |-> IF Stored(BUF + i) THEN s[BUF + i - pos + 1] ELSE old_buffer[t][i]]
          = [i \in OldCells |-> old_buffer[t][i]]
    BY <2>2
  <2>4. [i \in OldCells |-> old_buffer[t][i]] = old_buffer[t]
    BY <1>1 DEF Holds
  <2> QED
    BY <2>1, <2>3, <2>4
<1>6. PICK shown \in Seq(Typeable) :
        /\ shown = typed[t] \o s
        /\ Len(shown) = Len(typed[t]) + Len(s)
        /\ \A j \in 1..(Len(typed[t]) + Len(s)) :
             shown[j] = IF j <= Len(typed[t]) THEN typed[t][j] ELSE s[j - Len(typed[t])]
  <2>1. /\ typed[t] \o s \in Seq(Typeable)
        /\ Len(typed[t] \o s) = Len(typed[t]) + Len(s)
        /\ \A j \in 1..(Len(typed[t]) + Len(s)) :
             (typed[t] \o s)[j] = IF j <= Len(typed[t]) THEN typed[t][j] ELSE s[j - Len(typed[t])]
    <3>1. typed[t] \in Seq(Typeable)
      BY <1>1 DEF Holds
    <3> QED
      BY <3>1, ConcatProperties
  <2> QED
    BY <2>1
<1>15. PICK mix \in BOOLEAN : /\ mix <=> mixed[t] \/ Copied(t)
                              /\ mixed' = [mixed EXCEPT ![t] = mix]
  <2>1. Mixes(t, Copied(t)) /\ Copied(t) \in BOOLEAN
    BY DEF Insert, Copied
  <2> QED
    BY <2>1, MixesBecomes
<1>7. Becomes(t, kb, old_buffer[t], pos + Len(s), can, reader[t], out[t], shown, line[t], mix)
  <2>1. /\ buffer_position' = [buffer_position EXCEPT ![t] = pos + Len(s)]
        /\ typed' = [typed EXCEPT ![t] = shown]
    BY <1>6 DEF Insert
  <2>2. /\ reader' = [reader EXCEPT ![t] = reader[t]]
        /\ out' = [out EXCEPT ![t] = out[t]]
        /\ line' = [line EXCEPT ![t] = line[t]]
    BY Unchanged
  <2> QED
    BY <1>4, <1>5, <1>15, <2>1, <2>2 DEF Becomes
<1>8. \A i \in Cells : /\ Stored(i) => kb[i] = s[i - pos + 1] /\ i - pos + 1 \in 1..Len(s)
                       /\ ~Stored(i) => kb[i] = keyboard_buffer[t][i]
  <2>1. ASSUME NEW i \in Cells
        PROVE  /\ Stored(i) => kb[i] = s[i - pos + 1]
               /\ ~Stored(i) => kb[i] = keyboard_buffer[t][i]
    BY <1>3
  <2>2. ASSUME NEW i \in Cells, Stored(i)
        PROVE  i - pos + 1 \in 1..Len(s)
    <3>1. i \in Nat /\ pos \in Nat /\ Len(s) \in Nat
      BY <1>1, <1>2, CellFacts DEF Holds
    <3> QED
      BY <2>2, <3>1
  <2> QED
    BY <2>1, <2>2
<1>9. kb \in [Cells -> Chars]
  <2>1. ASSUME NEW i \in Cells PROVE kb[i] \in Chars
    <3>1. CASE Stored(i)
      <4>1. kb[i] = s[i - pos + 1] /\ i - pos + 1 \in 1..Len(s)
        BY <1>8, <3>1
      <4>2. kb[i] \in Typeable
        BY <1>2, <4>1
      <4> QED
        BY <4>2, CellFacts
    <3>2. CASE ~Stored(i)
      <4>1. kb[i] = keyboard_buffer[t][i]
        BY <1>8, <3>2
      <4>2. keyboard_buffer[t] \in [Cells -> Chars]
        BY <1>1 DEF Holds
      <4> QED
        BY <4>1, <4>2
    <3> QED
      BY <3>1, <3>2
  <2> QED
    BY <1>3, <2>1
<1>10. Holds(kb, old_buffer[t], pos + Len(s), can, reader[t], out[t], shown, line[t])
  BY <1>1, <1>2, <1>6, <1>9 DEF Holds
<1>11. Fits(kb, old_buffer[t], pos + Len(s), reader[t])
  <2>1. kb[BUF - 1] = keyboard_buffer[t][BUF - 1]
    <3>1. ~Stored(BUF - 1)
      BY <1>1, <1>2 DEF Holds
    <3> QED
      BY <1>8, <3>1, CellFacts
  <2>2. pos + Len(s) <= BUF - 1
    BY <1>2
  <2>3. /\ keyboard_buffer[t][BUF - 1] \in {NL, NUL}
        /\ \A i \in OldCells : i >= BUF - 1 => old_buffer[t][i] = NUL
        /\ reader[t].nbytes <= BUF
    BY <1>1 DEF Fits
  <2> QED
    BY <2>1, <2>2, <2>3, Zenon DEF Fits
<1>12. FitsInv'
  <2>1. active' \in Terminals /\ scheduled' \in Terminals
    BY DEF FitsInv
  <2> QED
    BY <1>7, <1>10, <1>11, <2>1, BecomesKeepsFits
<1>13. ASSUME AgreeInv, ~mixed[t] => can = 0, ~mix
       PROVE  Agree(kb, pos + Len(s), can, reader[t], out[t], shown, line[t])
  <2>5. ~mixed[t] /\ can = 0 /\ reader[t].pc # "copying"
    BY <1>13, <1>15 DEF Copied
  <2>1. Agree(keyboard_buffer[t], pos, terminal_can_read[t], reader[t], out[t], typed[t], line[t])
    BY <1>13, <2>5 DEF AgreeInv
  <2>2. Len(shown) = pos + Len(s)
    BY <1>6, <2>1 DEF Agree
  <2>3. ASSUME NEW j \in 1..(pos + Len(s)) PROVE kb[j - 1] = shown[j]
    <3>1. j - 1 \in Cells /\ pos \in Nat /\ Len(typed[t]) = pos
      BY <1>1, <1>2, <2>1, CellFacts DEF Holds, Agree
    <3>2. CASE j <= pos
      <4>1. kb[j - 1] = keyboard_buffer[t][j - 1]
        BY <1>8, <3>1, <3>2
      <4>2. shown[j] = typed[t][j]
        BY <1>2, <1>6, <3>1, <3>2
      <4> QED
        BY <2>1, <3>1, <3>2, <4>1, <4>2 DEF Agree
    <3>3. CASE pos < j
      <4>1. kb[j - 1] = s[(j - 1) - pos + 1]
        <5>1. Stored(j - 1)
          BY <1>2, <3>1, <3>3
        <5> QED
          BY <1>8, <3>1, <5>1
      <4>2. shown[j] = s[j - pos]
        <5>1. ~(j <= pos)
          BY <3>1, <3>3
        <5> QED
          BY <1>6, <2>1, <3>1, <5>1
      <4> QED
        BY <3>1, <4>1, <4>2
    <3> QED
      BY <3>1, <3>2, <3>3
  <2> QED
    BY <2>1, <2>2, <2>3, <2>5 DEF Agree
<1>14. AgreeInv /\ (~mixed[t] => can = 0) => AgreeInv'
  BY <1>7, <1>13, BecomesKeepsAgree
<1> QED
  BY <1>12, <1>14

\* A part of a sequence.
LEMMA PartOfSeq ==
  ASSUME NEW S, NEW s \in Seq(S), NEW m \in 1..(Len(s) + 1), NEW n \in Nat, m - 1 <= n, n <= Len(s)
  PROVE  /\ SubSeq(s, m, n) \in Seq(S)
         /\ Len(SubSeq(s, m, n)) = n - m + 1
         /\ \A i \in 1..(n - m + 1) : SubSeq(s, m, n)[i] = s[m + i - 1]
<1>1. Len(s) \in Nat
  BY LenProperties
<1>2. \A i \in m..n : s[i] \in S
  BY <1>1, ElementOfSeq
<1>3. m \in Int /\ n \in Int
  BY <1>1
<1>4. /\ SubSeq(s, m, n) \in Seq(S)
      /\ Len(SubSeq(s, m, n)) = IF m <= n THEN n - m + 1 ELSE 0
      /\ \A i \in 1..(n - m + 1) : SubSeq(s, m, n)[i] = s[m + i - 1]
  BY <1>2, <1>3, SubSeqProperties
<1> QED
  BY <1>1, <1>3, <1>4

\* What is dropped at the end of the buffer.
LEMMA FittingFits ==
  ASSUME FitsInv, NEW t \in Terminals, NEW s \in Seq(Typeable)
  PROVE  /\ Fitting(t, s) \in Seq(Typeable)
         /\ buffer_position[t] + Len(Fitting(t, s)) <= BUF - 1
<1>1. buffer_position[t] \in Nat /\ buffer_position[t] <= BUF - 1
  BY DEF FitsInv, Fits
<1>2. PICK n \in Nat : n = Shorter(Len(s), Room(t))
  BY <1>1, LenProperties DEF Shorter, Room
<1>3. n <= Len(s) /\ buffer_position[t] + n <= BUF - 1 /\ Len(s) \in Nat
  BY <1>1, <1>2, LenProperties DEF Shorter, Room
<1>4. Fitting(t, s) = SubSeq(s, 1, n)
  BY <1>1, <1>2 DEF Fitting
<1>5. 1 \in 1..(Len(s) + 1) /\ 1 - 1 <= n
  BY <1>3
<1>6. SubSeq(s, 1, n) \in Seq(Typeable) /\ Len(SubSeq(s, 1, n)) = n - 1 + 1
  BY <1>3, <1>5, PartOfSeq
<1> QED
  BY <1>3, <1>4, <1>6

LEMMA NothingKeeps ==
  ASSUME FitsInv, active' \in Terminals, scheduled' \in Terminals,
         UNCHANGED <<buffers, program, history>>
  PROVE  FitsInv' /\ (AgreeInv => AgreeInv')
<1>1. UNCHANGED <<keyboard_buffer, old_buffer, buffer_position, terminal_can_read,
                  reader, out, typed, line, mixed>>
  BY DEF buffers, program, history
<1> QED
  BY <1>1 DEF FitsInv, AgreeInv

LEMMA CharacterKeeps ==
  ASSUME FitsInv, (\E c \in Letters \cup {SPACE} : Character(c)) \/ TabBlanks
  PROVE  FitsInv' /\ (AgreeInv => AgreeInv')
<1>1. PICK typing \in Seq(Typeable) :
        LET s == Fitting(active, typing) IN
        /\ IF s = <<>>
           THEN UNCHANGED <<buffers, history>>
           ELSE /\ Insert(active, s)
                /\ terminal_can_read' = [terminal_can_read EXCEPT ![active] = 0]
                /\ UNCHANGED line
        /\ UNCHANGED <<active, scheduled, program>>
  <2>1. ASSUME NEW c \in Letters \cup {SPACE}, Character(c)
        PROVE  <<c>> \in Seq(Typeable)
    BY <2>1, CellFacts
  <2>2. <<SPACE, SPACE, SPACE, SPACE>> \in Seq(Typeable)
    BY CellFacts
  <2> QED
    BY <2>1, <2>2 DEF Character, TabBlanks, TypedAt
<1>2. active \in Terminals /\ scheduled \in Terminals
  BY DEF FitsInv
<1>3. PICK s \in Seq(Typeable) : s = Fitting(active, typing)
  BY <1>2, FittingFits
<1>4. buffer_position[active] + Len(s) <= BUF - 1
  BY <1>2, <1>3, FittingFits
<1>5. CASE s = <<>>
  <2>1. UNCHANGED <<buffers, program, history, active, scheduled>>
    BY <1>1, <1>3, <1>5
  <2> QED
    BY <1>2, <2>1, NothingKeeps
<1>6. CASE s # <<>>
  <2>1. /\ Insert(active, s)
        /\ terminal_can_read' = [terminal_can_read EXCEPT ![active] = 0]
        /\ UNCHANGED <<active, scheduled, reader, out, line>>
    BY <1>1, <1>3, <1>6 DEF program
  <2>2. /\ FitsInv'
        /\ AgreeInv /\ (~mixed[active] => 0 = 0) => AgreeInv'
    BY <1>2, <1>4, <2>1, InsertStep
  <2> QED
    BY <2>2
<1> QED
  BY <1>5, <1>6

LEMMA TabCompletesKeeps ==
  ASSUME FitsInv, NEW name \in Names, NEW f \in 0..Len(name), TabCompletes(name, f)
  PROVE  FitsInv' /\ (AgreeInv => AgreeInv')
<1>1. /\ buffer_position[active] # 0 /\ buffer_position[active] + Len(name) <= BUF - 1
      /\ Insert(active, SubSeq(name, f + 1, Len(name)))
      /\ UNCHANGED <<active, scheduled, terminal_can_read, reader, out, line>>
  BY DEF TabCompletes, TypedAt, program
<1>2. active \in Terminals /\ buffer_position[active] \in Nat
  BY DEF FitsInv
<1>3. name \in Seq(Typeable) /\ Len(name) \in Nat
  <2>1. name \in Seq(Letters)
    OBVIOUS
  <2>2. Len(name) \in Nat /\ name \in [1..Len(name) -> Letters]
    BY <2>1, LenProperties
  <2>3. name \in [1..Len(name) -> Typeable]
    BY <2>2, CellFacts
  <2>4. Seq(Typeable) = UNION {[1..n -> Typeable] : n \in Nat}
    BY SeqDef
  <2> QED
    BY <2>2, <2>3, <2>4
<1>4. PICK s \in Seq(Typeable) : s = SubSeq(name, f + 1, Len(name)) /\ Len(s) = Len(name) - f
  <2>1. f + 1 \in 1..(Len(name) + 1) /\ (f + 1) - 1 <= Len(name)
    BY <1>3
  <2>2. /\ SubSeq(name, f + 1, Len(name)) \in Seq(Typeable)
        /\ Len(SubSeq(name, f + 1, Len(name))) = Len(name) - (f + 1) + 1
    BY <1>3, <2>1, PartOfSeq
  <2>3. Len(name) - (f + 1) + 1 = Len(name) - f
    BY <1>3
  <2> QED
    BY <2>2, <2>3
<1>5. PICK can \in {0, 1} : can = terminal_can_read[active]
  BY <1>2 DEF FitsInv
<1>6. /\ Insert(active, s) /\ buffer_position[active] + Len(s) <= BUF - 1
      /\ terminal_can_read' = [terminal_can_read EXCEPT ![active] = can]
  <2>1. terminal_can_read' = [terminal_can_read EXCEPT ![active] = can]
    BY <1>1, <1>2, <1>5, Unchanged
  <2>2. buffer_position[active] + Len(s) <= BUF - 1
    <3>1. buffer_position[active] + Len(name) <= BUF - 1 /\ BUF \in Nat /\ f \in Nat
      BY <1>1, <1>3
    <3> QED
      BY <1>2, <1>3, <1>4, <3>1
  <2>3. Insert(active, s)
    BY <1>1, <1>4, Zenon
  <2> QED
    BY <2>1, <2>2, <2>3
<1>7. /\ FitsInv'
      /\ AgreeInv /\ (~mixed[active] => can = 0) => AgreeInv'
  BY <1>1, <1>2, <1>6, InsertStep
<1>8. AgreeInv /\ ~mixed[active] => can = 0
  BY <1>1, <1>2, <1>5 DEF AgreeInv, Agree
<1> QED
  BY <1>7, <1>8

\* Enter always finds a cell, and what was typed is then a line in the buffer.
LEMMA EnterKeeps ==
  ASSUME FitsInv, Enter
  PROVE  FitsInv' /\ (AgreeInv => AgreeInv')
<1>1. PICK t \in Terminals : t = active
  BY DEF FitsInv
<1>2. /\ Holds(keyboard_buffer[t], old_buffer[t], buffer_position[t], terminal_can_read[t],
               reader[t], out[t], typed[t], line[t])
      /\ Fits(keyboard_buffer[t], old_buffer[t], buffer_position[t], reader[t])
  BY TerminalHolds
<1>3. PICK pos \in Cells : pos = buffer_position[t]
  BY <1>2, CellFacts DEF Holds, Fits
<1>4. PICK kb \in [Cells -> Chars] : kb = [keyboard_buffer[t] EXCEPT ![pos] = NL]
  BY <1>2, CellFacts DEF Holds
<1>5. /\ keyboard_buffer' = [keyboard_buffer EXCEPT ![t] = kb]
      /\ UNCHANGED <<old_buffer, active, scheduled, reader, out>>
      /\ terminal_can_read' = [terminal_can_read EXCEPT ![t] = 1]
      /\ buffer_position' = [buffer_position EXCEPT ![t] = 0]
      /\ line' = [line EXCEPT ![t] = Append(typed[t], NL)]
      /\ typed' = [typed EXCEPT ![t] = <<>>]
      /\ Mixes(t, Copied(t))
  BY <1>1, <1>3, <1>4, CellFacts DEF Enter, TypedAt, PositionAfterEnter, program
<1>14. PICK mix \in BOOLEAN : /\ mix <=> mixed[t] \/ Copied(t)
                              /\ mixed' = [mixed EXCEPT ![t] = mix]
  <2>1. Copied(t) \in BOOLEAN
    BY DEF Copied
  <2> QED
    BY <1>5, <2>1, MixesBecomes
<1>6. typed[t] \in Seq(Typeable) /\ Len(typed[t]) \in Nat
  BY <1>2, LenProperties DEF Holds
<1>7. typed[t] \in Seq(Chars)
  <2>1. typed[t] \in [1..Len(typed[t]) -> Typeable]
    BY <1>6, LenProperties
  <2>2. typed[t] \in [1..Len(typed[t]) -> Chars]
    BY <2>1, CellFacts
  <2>3. Seq(Chars) = UNION {[1..n -> Chars] : n \in Nat}
    BY SeqDef
  <2> QED
    BY <1>6, <2>2, <2>3
<1>8. PICK entered \in Seq(Chars) :
        /\ entered = Append(typed[t], NL)
        /\ Len(entered) = Len(typed[t]) + 1
        /\ \A j \in 1..Len(typed[t]) : entered[j] = typed[t][j]
        /\ entered[Len(typed[t]) + 1] = NL
  <2>1. NL \in Chars
    BY CellFacts
  <2>2. /\ Append(typed[t], NL) \in Seq(Chars)
        /\ Len(Append(typed[t], NL)) = Len(typed[t]) + 1
        /\ \A j \in 1..Len(typed[t]) : Append(typed[t], NL)[j] = typed[t][j]
        /\ Append(typed[t], NL)[Len(typed[t]) + 1] = NL
    BY <1>7, <2>1, AppendProperties
  <2> QED
    BY <2>2
<1>9. Becomes(t, kb, old_buffer[t], 0, 1, reader[t], out[t], <<>>, entered, mix)
  BY <1>5, <1>8, <1>14, Unchanged DEF Becomes
<1>10. Holds(kb, old_buffer[t], 0, 1, reader[t], out[t], <<>>, entered)
  BY <1>2 DEF Holds
<1>11. Fits(kb, old_buffer[t], 0, reader[t])
  <2>1. /\ keyboard_buffer[t][BUF - 1] \in {NL, NUL}
        /\ \A i \in OldCells : i >= BUF - 1 => old_buffer[t][i] = NUL
        /\ reader[t].nbytes <= BUF
    BY <1>2 DEF Fits
  <2>2. kb[BUF - 1] \in {NL, NUL}
    <3>1. keyboard_buffer[t] \in [Cells -> Chars] /\ BUF - 1 \in Cells
      BY <1>2, CellFacts DEF Holds
    <3> QED
      BY <1>4, <2>1, <3>1
  <2>3. 0 <= BUF - 1
    BY CellFacts
  <2> QED
    BY <2>1, <2>2, <2>3, Zenon DEF Fits
<1>12. FitsInv'
  <2>1. active' \in Terminals /\ scheduled' \in Terminals
    BY <1>5 DEF FitsInv
  <2> QED
    BY <1>5, <1>9, <1>10, <1>11, <2>1, BecomesKeepsFits
<1>13. ASSUME AgreeInv, ~mix
       PROVE  Agree(kb, 0, 1, reader[t], out[t], <<>>, entered)
  <2>2. ~mixed[t] /\ reader[t].pc # "copying"
    BY <1>13, <1>14 DEF Copied
  <2>1. Agree(keyboard_buffer[t], buffer_position[t], terminal_can_read[t], reader[t], out[t], typed[t], line[t])
    BY <1>13, <2>2 DEF AgreeInv
  <2>3. Len(typed[t]) = pos
    BY <1>3, <2>1 DEF Agree
  <2>4. Len(entered) \in 1..BUF
    BY <1>8, <2>3, CellFacts
  <2>5. \A j \in 1..Len(entered) : entered[j] = NL <=> j = Len(entered)
    <3>1. \A j \in 1..pos : typed[t][j] # NL
      BY <1>6, <2>3, ElementOfSeq DEF Typeable
    <3> QED
      BY <1>6, <1>8, <2>3, <3>1
  <2>6. ASSUME NEW j \in 1..Len(entered) PROVE kb[j - 1] = entered[j]
    <3>1. CASE j = pos + 1
      BY <1>2, <1>4, <1>8, <2>3, <3>1, CellFacts DEF Holds
    <3>2. CASE j # pos + 1
      <4>1. j \in 1..pos /\ j - 1 \in Cells /\ j - 1 # pos
        BY <1>8, <2>3, <2>4, <3>2, CellFacts
      <4>2. kb[j - 1] = keyboard_buffer[t][j - 1]
        BY <1>2, <1>4, <4>1 DEF Holds
      <4>3. keyboard_buffer[t][j - 1] = typed[t][j]
        BY <1>3, <2>1, <4>1 DEF Agree
      <4> QED
        BY <1>8, <2>3, <4>1, <4>2, <4>3
    <3> QED
      BY <3>1, <3>2
  <2>7. Entered(kb, reader[t], entered)
    BY <2>4, <2>5, <2>6 DEF Entered
  <2> QED
    BY <2>1, <2>2, <2>7 DEF Agree
<1>15. AgreeInv => AgreeInv'
  BY <1>9, <1>13, BecomesKeepsAgree
<1> QED
  BY <1>12, <1>15

LEMMA BackspaceKeeps ==
  ASSUME FitsInv, Backspace
  PROVE  FitsInv' /\ (AgreeInv => AgreeInv')
<1>1. PICK t \in Terminals : t = active
  BY DEF FitsInv
<1>2. /\ Holds(keyboard_buffer[t], old_buffer[t], buffer_position[t], terminal_can_read[t],
               reader[t], out[t], typed[t], line[t])
      /\ Fits(keyboard_buffer[t], old_buffer[t], buffer_position[t], reader[t])
  BY TerminalHolds
<1>3. /\ buffer_position[t] > 0
      /\ buffer_position' = [buffer_position EXCEPT ![t] = buffer_position[t] - 1]
      /\ typed' = [typed EXCEPT ![t] = SubSeq(typed[t], 1, Len(typed[t]) - 1)]
      /\ UNCHANGED <<active, scheduled, keyboard_buffer, old_buffer, terminal_can_read,
                     reader, out, line>>
      /\ Mixes(t, Copied(t))
  BY <1>1 DEF Backspace, TypedAt, CanErase, program
<1>14. PICK mix \in BOOLEAN : /\ mix <=> mixed[t] \/ Copied(t)
                              /\ mixed' = [mixed EXCEPT ![t] = mix]
  <2>1. Copied(t) \in BOOLEAN
    BY DEF Copied
  <2> QED
    BY <1>3, <2>1, MixesBecomes
<1>4. PICK pos \in Nat : pos = buffer_position[t] - 1
  BY <1>2, <1>3 DEF Holds
<1>5. typed[t] \in Seq(Typeable) /\ Len(typed[t]) \in Nat
  BY <1>2, LenProperties DEF Holds
<1>6. PICK n \in Int : n = Len(typed[t]) - 1
  BY <1>5
<1>7. \A i \in 1..n : typed[t][i] \in Typeable
  BY <1>5, <1>6, ElementOfSeq
<1>8. /\ SubSeq(typed[t], 1, n) \in Seq(Typeable)
      /\ Len(SubSeq(typed[t], 1, n)) = IF 1 <= n THEN n - 1 + 1 ELSE 0
      /\ \A i \in 1..(n - 1 + 1) : SubSeq(typed[t], 1, n)[i] = typed[t][1 + i - 1]
  BY <1>7, SubSeqProperties
<1>9. PICK shown \in Seq(Typeable) : shown = SubSeq(typed[t], 1, n)
  BY <1>8
<1>10. Becomes(t, keyboard_buffer[t], old_buffer[t], pos, terminal_can_read[t], reader[t], out[t],
               shown, line[t], mix)
  BY <1>3, <1>4, <1>6, <1>9, <1>14, Unchanged DEF Becomes
<1>11. /\ Holds(keyboard_buffer[t], old_buffer[t], pos, terminal_can_read[t], reader[t], out[t],
                shown, line[t])
       /\ Fits(keyboard_buffer[t], old_buffer[t], pos, reader[t])
  BY <1>2, <1>4 DEF Holds, Fits
<1>12. FitsInv'
  <2>1. active' \in Terminals /\ scheduled' \in Terminals
    BY <1>3 DEF FitsInv
  <2> QED
    BY <1>10, <1>11, <2>1, BecomesKeepsFits
<1>13. ASSUME AgreeInv, ~mix
       PROVE  Agree(keyboard_buffer[t], pos, terminal_can_read[t], reader[t], out[t], shown, line[t])
  <2>6. ~mixed[t] /\ reader[t].pc # "copying"
    BY <1>13, <1>14 DEF Copied
  <2>1. Agree(keyboard_buffer[t], buffer_position[t], terminal_can_read[t], reader[t], out[t], typed[t], line[t])
    BY <1>13, <2>6 DEF AgreeInv
  <2>2. terminal_can_read[t] # 1
    BY <1>2, <1>3, <2>1 DEF Agree, Holds
  <2>3. n = pos
    BY <1>4, <1>6, <2>1 DEF Agree
  <2>4. Len(shown) = pos /\ \A j \in 1..pos : shown[j] = typed[t][j]
    BY <1>8, <1>9, <2>3
  <2>5. ASSUME NEW j \in 1..pos PROVE keyboard_buffer[t][j - 1] = shown[j]
    <3>1. j \in 1..buffer_position[t]
      BY <1>2, <1>4 DEF Holds
    <3>2. keyboard_buffer[t][j - 1] = typed[t][j]
      BY <2>1, <3>1 DEF Agree
    <3> QED
      BY <2>4, <3>2
  <2> QED
    BY <2>1, <2>2, <2>4, <2>5, <2>6 DEF Agree
<1>15. AgreeInv => AgreeInv'
  BY <1>10, <1>13, BecomesKeepsAgree
<1> QED
  BY <1>12, <1>15

\* What Up does with an old line of n characters.
RecallsLine(t, n) ==
  /\ IsOldLength(t, n)
  /\ LET m == RecallLimit(t, n) IN
     /\ keyboard_buffer' = [keyboard_buffer EXCEPT ![t] =
          [i \in Cells |-> IF i < m THEN old_buffer[t][i] ELSE keyboard_buffer[t][i]]]
     /\ old_buffer' = [old_buffer EXCEPT ![t] =
          [i \in OldCells |-> IF i < m THEN NUL ELSE old_buffer[t][i]]]
     /\ buffer_position' = [buffer_position EXCEPT ![t] = buffer_position[t] + m]
     /\ typed' = [typed EXCEPT ![t] = typed[t] \o [i \in 1..m |-> old_buffer[t][i - 1]]]

\* The old line never reaches the last cell, so on an empty line it fits.
LEMMA RecallKeeps ==
  ASSUME FitsInv, RecallEmpty, Recall
  PROVE  FitsInv' /\ (AgreeInv => AgreeInv')
<1>1. PICK t \in Terminals : t = active
  BY DEF FitsInv
<1>2. /\ Holds(keyboard_buffer[t], old_buffer[t], buffer_position[t], terminal_can_read[t],
               reader[t], out[t], typed[t], line[t])
      /\ Fits(keyboard_buffer[t], old_buffer[t], buffer_position[t], reader[t])
  BY TerminalHolds
<1>3. PICK n \in 0..OLD : RecallsLine(t, n)
  <2>1. \E n \in 0..OLD : RecallsLine(active, n)
    BY DEF Recall, RecallsLine, TypedAt
  <2> QED
    BY <1>1, <2>1
<1>4. /\ buffer_position[t] = 0
      /\ UNCHANGED <<active, scheduled, terminal_can_read, reader, out, line>>
      /\ Mixes(t, Copied(t) \/ terminal_can_read[t] = 1)
  BY <1>1 DEF Recall, TypedAt, program
<1>18. PICK mix \in BOOLEAN : /\ mix <=> mixed[t] \/ Copied(t) \/ terminal_can_read[t] = 1
                              /\ mixed' = [mixed EXCEPT ![t] = mix]
  <2>1. (Copied(t) \/ terminal_can_read[t] = 1) \in BOOLEAN
    OBVIOUS
  <2> QED
    BY <1>4, <2>1, MixesBecomes
<1>5. n <= BUF - 1
  <2>1. CASE n > BUF - 1
    <3>1. BUF - 1 \in 0..(n - 1)
      BY <2>1
    <3> QED
      BY <1>2, <1>3, <3>1, CellFacts DEF RecallsLine, IsOldLength, Fits
  <2> QED
    BY <2>1
<1>6. RecallLimit(t, n) = n /\ n \in Nat
  BY <1>4, <1>5 DEF RecallLimit, Shorter
<1>7. PICK kb : kb = [i \in Cells |-> IF i < n THEN old_buffer[t][i] ELSE keyboard_buffer[t][i]]
  OBVIOUS
<1>8. PICK old : old = [i \in OldCells |-> IF i < n THEN NUL ELSE old_buffer[t][i]]
  OBVIOUS
<1>9. PICK recalled : recalled = [i \in 1..n |-> old_buffer[t][i - 1]]
  OBVIOUS
<1>10. /\ recalled \in Seq(Typeable) /\ Len(recalled) = n
       /\ \A j \in 1..n : recalled[j] = old_buffer[t][j - 1]
  <2>1. \A j \in 1..n : j - 1 \in OldCells /\ old_buffer[t][j - 1] \in Typeable
    BY <1>2, <1>5, CellFacts DEF Holds
  <2>2. recalled \in [1..n -> Typeable]
    BY <1>9, <2>1
  <2>3. Seq(Typeable) = UNION {[1..m -> Typeable] : m \in Nat}
    BY SeqDef
  <2>4. recalled \in Seq(Typeable)
    BY <1>6, <2>2, <2>3
  <2>5. Len(recalled) = n
    BY <1>6, <2>2, <2>4, LenProperties
  <2> QED
    BY <1>9, <2>4, <2>5
<1>11. typed[t] \in Seq(Typeable)
  BY <1>2 DEF Holds
<1>12. PICK shown \in Seq(Typeable) : shown = typed[t] \o recalled
  BY <1>10, <1>11, ConcatProperties
<1>13. Becomes(t, kb, old, n, terminal_can_read[t], reader[t], out[t], shown, line[t], mix)
  <2>1. /\ keyboard_buffer' = [keyboard_buffer EXCEPT ![t] = kb]
        /\ old_buffer' = [old_buffer EXCEPT ![t] = old]
    BY <1>3, <1>6, <1>7, <1>8 DEF RecallsLine
  <2>2. buffer_position' = [buffer_position EXCEPT ![t] = n]
    <3>1. buffer_position' = [buffer_position EXCEPT ![t] = buffer_position[t] + n]
      BY <1>3, <1>6 DEF RecallsLine
    <3>2. buffer_position[t] + n = n
      BY <1>4, <1>6
    <3> QED
      BY <3>1, <3>2
  <2>3. typed' = [typed EXCEPT ![t] = shown]
    BY <1>3, <1>6, <1>9, <1>12 DEF RecallsLine
  <2>4. /\ terminal_can_read' = [terminal_can_read EXCEPT ![t] = terminal_can_read[t]]
        /\ reader' = [reader EXCEPT ![t] = reader[t]]
        /\ out' = [out EXCEPT ![t] = out[t]]
        /\ line' = [line EXCEPT ![t] = line[t]]
    BY <1>4, Unchanged
  <2> QED
    BY <1>18, <2>1, <2>2, <2>3, <2>4 DEF Becomes
<1>14. Holds(kb, old, n, terminal_can_read[t], reader[t], out[t], shown, line[t])
  <2>1. \A i \in Cells : kb[i] \in Chars
    BY <1>2, <1>7, CellFacts DEF Holds
  <2>2. kb \in [Cells -> Chars]
    BY <1>7, <2>1
  <2>3. old \in [OldCells -> Typeable]
    BY <1>2, <1>8, CellFacts DEF Holds
  <2> QED
    BY <1>2, <1>6, <2>2, <2>3 DEF Holds
<1>15. Fits(kb, old, n, reader[t])
  <2>1. kb[BUF - 1] = keyboard_buffer[t][BUF - 1]
    BY <1>5, <1>7, CellFacts
  <2>2. \A i \in OldCells : i >= BUF - 1 => old[i] = NUL
    BY <1>2, <1>8 DEF Fits
  <2> QED
    BY <1>2, <1>5, <2>1, <2>2 DEF Fits
<1>16. FitsInv'
  <2>1. active' \in Terminals /\ scheduled' \in Terminals
    BY <1>4 DEF FitsInv
  <2> QED
    BY <1>13, <1>14, <1>15, <2>1, BecomesKeepsFits
<1>17. ASSUME AgreeInv, ~mix
       PROVE  Agree(kb, n, terminal_can_read[t], reader[t], out[t], shown, line[t])
  <2>2. ~mixed[t] /\ terminal_can_read[t] # 1 /\ reader[t].pc # "copying"
    BY <1>17, <1>18 DEF Copied
  <2>1. Agree(keyboard_buffer[t], buffer_position[t], terminal_can_read[t], reader[t], out[t], typed[t], line[t])
    BY <1>17, <2>2 DEF AgreeInv
  <2>3. Len(typed[t]) = 0
    BY <1>4, <2>1 DEF Agree
  <2>4. /\ Len(typed[t] \o recalled) = Len(typed[t]) + Len(recalled)
        /\ \A j \in 1..(Len(typed[t]) + Len(recalled)) : (typed[t] \o recalled)[j] =
             IF j <= Len(typed[t]) THEN typed[t][j] ELSE recalled[j - Len(typed[t])]
    <3>1. recalled \in Seq(Typeable)
      BY <1>10
    <3> QED
      BY <1>11, <3>1, ConcatProperties
  <2>5. Len(shown) = n /\ \A j \in 1..n : shown[j] = recalled[j]
    <3>1. Len(recalled) = n /\ n \in Nat
      BY <1>6, <1>10
    <3>2. Len(shown) = n
      BY <1>12, <2>3, <2>4, <3>1
    <3>3. ASSUME NEW j \in 1..n PROVE shown[j] = recalled[j]
      <4>1. j \in 1..(0 + n) /\ ~(j <= 0) /\ j - 0 = j
        BY <3>1
      <4>2. shown[j] = IF j <= 0 THEN typed[t][j] ELSE recalled[j - 0]
        BY <1>12, <2>3, <2>4, <3>1, <4>1, Zenon
      <4> QED
        BY <4>1, <4>2
    <3> QED
      BY <3>2, <3>3
  <2>6. \A j \in 1..n : kb[j - 1] = old_buffer[t][j - 1]
    BY <1>5, <1>7, CellFacts
  <2>7. \A j \in 1..n : kb[j - 1] = shown[j]
    BY <1>10, <2>5, <2>6
  <2> QED
    BY <2>1, <2>2, <2>5, <2>7 DEF Agree
<1>19. AgreeInv => AgreeInv'
  BY <1>13, <1>17, BecomesKeepsAgree
<1> QED
  BY <1>16, <1>19

-----------------------------------------------------------------------------
(* terminal_read.                                                          *)

LEMMA ReadKeeps ==
  ASSUME FitsInv, NEW nbytes \in Requests, Read(nbytes)
  PROVE  FitsInv' /\ (AgreeInv => AgreeInv')
<1>1. PICK t \in Terminals : t = scheduled
  BY DEF FitsInv
<1>2. /\ Holds(keyboard_buffer[t], old_buffer[t], buffer_position[t], terminal_can_read[t],
               reader[t], out[t], typed[t], line[t])
      /\ Fits(keyboard_buffer[t], old_buffer[t], buffer_position[t], reader[t])
  BY TerminalHolds
<1>3. PICK n \in Nat : n = Shorter(nbytes, BUF) /\ n <= BUF
  BY DEF Shorter
<1>4. PICK r \in Readers : r = [pc |-> "waiting", i |-> 0, nbytes |-> n]
  BY DEF Readers
<1>5. /\ reader[t].pc = "none"
      /\ reader' = [reader EXCEPT ![t] = r]
      /\ out' = [out EXCEPT ![t] = <<>>]
      /\ UNCHANGED <<active, scheduled, buffers, history>>
  BY <1>1, <1>3, <1>4 DEF Read
<1>6. Becomes(t, keyboard_buffer[t], old_buffer[t], buffer_position[t], terminal_can_read[t], r,
              <<>>, typed[t], line[t], mixed[t])
  BY <1>5, Unchanged DEF Becomes, buffers, history
<1>7. /\ Holds(keyboard_buffer[t], old_buffer[t], buffer_position[t], terminal_can_read[t], r,
               <<>>, typed[t], line[t])
      /\ Fits(keyboard_buffer[t], old_buffer[t], buffer_position[t], r)
  BY <1>2, <1>3, <1>4 DEF Holds, Fits
<1>8. FitsInv'
  <2>1. active' \in Terminals /\ scheduled' \in Terminals
    BY <1>5 DEF FitsInv
  <2>2. mixed[t] \in BOOLEAN
    BY Zenon DEF FitsInv
  <2> QED
    BY <1>6, <1>7, <2>1, <2>2, BecomesKeepsFits
<1>9. ASSUME AgreeInv, ~mixed[t]
      PROVE  Agree(keyboard_buffer[t], buffer_position[t], terminal_can_read[t], r, <<>>, typed[t],
                   line[t])
  <2>1. Agree(keyboard_buffer[t], buffer_position[t], terminal_can_read[t], reader[t], out[t], typed[t], line[t])
    BY <1>9 DEF AgreeInv
  <2> QED
    BY <1>4, <1>5, <2>1 DEF Agree, Entered
<1>10. AgreeInv => AgreeInv'
  BY <1>2, <1>6, <1>9, BecomesKeepsAgree DEF FitsInv
<1> QED
  BY <1>8, <1>10

\* A step of the reader, by the record it leaves.
ReaderAt(t, n, point) == reader' = [reader EXCEPT ![t].i = n, ![t].pc = point]

LEMMA ReaderMoves ==
  ASSUME FitsInv, NEW t \in Terminals, NEW n \in Nat, NEW point \in {"none", "copying"},
         ReaderAt(t, n, point)
  PROVE  reader' = [reader EXCEPT ![t] = [pc |-> point, i |-> n, nbytes |-> reader[t].nbytes]]
<1>1. PICK r \in Readers : r = reader[t]
  BY DEF FitsInv
<1>2. PICK x, y, z : r = [pc |-> x, i |-> y, nbytes |-> z]
  BY DEF Readers
<1>3. [[r EXCEPT !.i = n] EXCEPT !.pc = point] = [pc |-> point, i |-> n, nbytes |-> r.nbytes]
  <2>1. PICK moved : moved = [r EXCEPT !.i = n]
    OBVIOUS
  <2>2. moved = [pc |-> x, i |-> n, nbytes |-> z]
    BY <1>2, <2>1
  <2>3. [moved EXCEPT !.pc = point] = [pc |-> point, i |-> n, nbytes |-> z]
    BY <2>2
  <2>4. r.nbytes = z
    BY <1>2
  <2> QED
    BY <2>1, <2>3, <2>4
<1> QED
  BY <1>1, <1>3 DEF FitsInv, ReaderAt

\* A step that leaves i alone.
LEMMA ReaderStays ==
  ASSUME FitsInv, NEW t \in Terminals, NEW point \in {"none", "copying"}
  PROVE  [reader EXCEPT ![t].pc = point]
           = [reader EXCEPT ![t] = [pc |-> point, i |-> reader[t].i, nbytes |-> reader[t].nbytes]]
<1>1. PICK r \in Readers : r = reader[t]
  BY DEF FitsInv
<1>2. PICK x, y, z : r = [pc |-> x, i |-> y, nbytes |-> z]
  BY DEF Readers
<1>3. [r EXCEPT !.pc = point] = [pc |-> point, i |-> r.i, nbytes |-> r.nbytes]
  BY <1>2
<1> QED
  BY <1>1, <1>3 DEF FitsInv

\* The old line is forgotten; the line that was entered stays in the buffer.
LEMMA ReadWakesKeeps ==
  ASSUME FitsInv, ReadWakes
  PROVE  FitsInv' /\ (AgreeInv => AgreeInv')
<1>1. PICK t \in Terminals : t = scheduled
  BY DEF FitsInv
<1>2. /\ Holds(keyboard_buffer[t], old_buffer[t], buffer_position[t], terminal_can_read[t],
               reader[t], out[t], typed[t], line[t])
      /\ Fits(keyboard_buffer[t], old_buffer[t], buffer_position[t], reader[t])
  BY TerminalHolds
<1>3. PICK r \in Readers : r = [pc |-> "copying", i |-> reader[t].i, nbytes |-> reader[t].nbytes]
  BY <1>2 DEF Readers, Holds
<1>4. PICK old : old = [i \in OldCells |-> IF i < BUF THEN NUL ELSE old_buffer[t][i]]
  OBVIOUS
<1>5. /\ reader[t].pc = "waiting" /\ terminal_can_read[t] # 0
      /\ old_buffer' = [old_buffer EXCEPT ![t] = old]
      /\ reader' = [reader EXCEPT ![t].pc = "copying"]
      /\ UNCHANGED <<active, scheduled, keyboard_buffer, buffer_position, terminal_can_read, out,
                     history>>
  BY <1>1, <1>4 DEF ReadWakes
<1>6. reader' = [reader EXCEPT ![t] = r]
  BY <1>3, <1>5, ReaderStays
<1>7. Becomes(t, keyboard_buffer[t], old, buffer_position[t], terminal_can_read[t], r, out[t],
              typed[t], line[t], mixed[t])
  BY <1>5, <1>6, Unchanged DEF Becomes, history
<1>8. /\ Holds(keyboard_buffer[t], old, buffer_position[t], terminal_can_read[t], r, out[t],
               typed[t], line[t])
      /\ Fits(keyboard_buffer[t], old, buffer_position[t], r)
  <2>1. old \in [OldCells -> Typeable]
    BY <1>2, <1>4, CellFacts DEF Holds
  <2>2. \A i \in OldCells : i >= BUF - 1 => old[i] = NUL
    BY <1>2, <1>4 DEF Fits
  <2> QED
    BY <1>2, <1>3, <2>1, <2>2 DEF Holds, Fits
<1>9. FitsInv'
  <2>1. active' \in Terminals /\ scheduled' \in Terminals
    BY <1>5 DEF FitsInv
  <2>2. mixed[t] \in BOOLEAN
    BY Zenon DEF FitsInv
  <2> QED
    BY <1>7, <1>8, <2>1, <2>2, BecomesKeepsFits
<1>10. ASSUME AgreeInv, ~mixed[t]
       PROVE  Agree(keyboard_buffer[t], buffer_position[t], terminal_can_read[t], r, out[t], typed[t],
                    line[t])
  <2>1. Agree(keyboard_buffer[t], buffer_position[t], terminal_can_read[t], reader[t], out[t], typed[t], line[t])
    BY <1>10 DEF AgreeInv
  <2>2. terminal_can_read[t] = 1
    BY <1>2, <1>5 DEF Holds
  <2>3. /\ r.pc = "copying" /\ r.i = 0 /\ r.nbytes \in Nat /\ out[t] = <<>>
        /\ Entered(keyboard_buffer[t], reader[t], line[t]) /\ buffer_position[t] = 0
    BY <1>2, <1>3, <1>5, <2>1, <2>2 DEF Agree, Holds, Readers
  <2>4. Entered(keyboard_buffer[t], r, line[t])
    BY <1>5, <2>3 DEF Entered
  <2>5. 0 < Len(line[t])
    BY <2>3 DEF Entered
  <2> QED
    BY <2>1, <2>3, <2>4, <2>5 DEF Agree
<1>11. AgreeInv => AgreeInv'
  BY <1>7, <1>10, BecomesKeepsAgree DEF FitsInv
<1> QED
  BY <1>9, <1>11

\* What a program has when its copying ends is what it was to get.
Delivered(t) ==
  ~mixed[t] /\ reader[t].pc = "copying" /\ reader'[t].pc = "none" =>
    out'[t] = SubSeq(line[t], 1, Shorter(Len(line[t]), reader[t].nbytes))

\* The start of a line, by its characters.
LEMMA StartOfLine ==
  ASSUME NEW entered \in Seq(Chars), NEW got \in Seq(Chars), NEW n \in Nat,
         n <= Len(entered), Len(got) = n, \A j \in 1..n : got[j] = entered[j]
  PROVE  got = SubSeq(entered, 1, n)
<1>1. Len(entered) \in Nat
  BY LenProperties
<1>2. 1 \in 1..(Len(entered) + 1) /\ 1 - 1 <= n
  BY <1>1
<1>3. /\ SubSeq(entered, 1, n) \in Seq(Chars)
      /\ Len(SubSeq(entered, 1, n)) = n - 1 + 1
      /\ \A i \in 1..(n - 1 + 1) : SubSeq(entered, 1, n)[i] = entered[1 + i - 1]
  BY <1>2, PartOfSeq
<1>4. PICK start \in Seq(Chars) : start = SubSeq(entered, 1, n)
  BY <1>3
<1>5. Len(got) = Len(start)
  BY <1>3, <1>4
<1>6. \A i \in 1..Len(got) : got[i] = start[i]
  BY <1>3, <1>4
<1>7. got = start
  BY <1>5, <1>6, SeqEqual
<1> QED
  BY <1>4, <1>7

\* nbytes characters without a line feed among them: the start of the line.
LEMMA ReadFullKeeps ==
  ASSUME FitsInv, ReadFull
  PROVE  FitsInv' /\ (AgreeInv => AgreeInv' /\ Delivered(scheduled))
<1>1. PICK t \in Terminals : t = scheduled
  BY DEF FitsInv
<1>2. /\ Holds(keyboard_buffer[t], old_buffer[t], buffer_position[t], terminal_can_read[t],
               reader[t], out[t], typed[t], line[t])
      /\ Fits(keyboard_buffer[t], old_buffer[t], buffer_position[t], reader[t])
  BY TerminalHolds
<1>3. PICK r \in Readers : r = [pc |-> "none", i |-> reader[t].i, nbytes |-> reader[t].nbytes]
  BY <1>2 DEF Readers, Holds
<1>4. /\ reader[t].pc = "copying" /\ reader[t].i = reader[t].nbytes
      /\ terminal_can_read' = [terminal_can_read EXCEPT ![t] = 0]
      /\ reader' = [reader EXCEPT ![t].pc = "none"]
      /\ UNCHANGED <<active, scheduled, keyboard_buffer, old_buffer, buffer_position, out, history>>
  BY <1>1 DEF ReadFull
<1>5. reader' = [reader EXCEPT ![t] = r]
  BY <1>3, <1>4, ReaderStays
<1>6. Becomes(t, keyboard_buffer[t], old_buffer[t], buffer_position[t], 0, r, out[t], typed[t], line[t],
              mixed[t])
  BY <1>4, <1>5, Unchanged DEF Becomes, history
<1>7. /\ Holds(keyboard_buffer[t], old_buffer[t], buffer_position[t], 0, r, out[t], typed[t], line[t])
      /\ Fits(keyboard_buffer[t], old_buffer[t], buffer_position[t], r)
  BY <1>2, <1>3 DEF Holds, Fits
<1>8. FitsInv'
  <2>1. active' \in Terminals /\ scheduled' \in Terminals
    BY <1>4 DEF FitsInv
  <2>2. mixed[t] \in BOOLEAN
    BY Zenon DEF FitsInv
  <2> QED
    BY <1>6, <1>7, <2>1, <2>2, BecomesKeepsFits
<1>9. ASSUME AgreeInv, ~mixed[t]
      PROVE  /\ Agree(keyboard_buffer[t], buffer_position[t], 0, r, out[t], typed[t], line[t])
             /\ Delivered(t)
  <2>1. Agree(keyboard_buffer[t], buffer_position[t], terminal_can_read[t], reader[t], out[t], typed[t], line[t])
    BY <1>9 DEF AgreeInv
  <2>2. Agree(keyboard_buffer[t], buffer_position[t], 0, r, out[t], typed[t], line[t])
    BY <1>3, <2>1 DEF Agree
  <2>4. PICK n \in Nat : n = reader[t].nbytes
    BY <1>2 DEF Holds, Readers
  <2>5. /\ n < Len(line[t]) /\ Len(out[t]) = n
        /\ \A j \in 1..n : out[t][j] = line[t][j]
    BY <1>4, <2>1, <2>4 DEF Agree
  <2>6. line[t] \in Seq(Chars) /\ out[t] \in Seq(Chars) /\ Len(line[t]) \in Nat
    BY <1>2, LenProperties DEF Holds
  <2>7. out[t] = SubSeq(line[t], 1, n)
    BY <2>5, <2>6, StartOfLine
  <2>8. Shorter(Len(line[t]), n) = n
    BY <2>5, <2>6 DEF Shorter
  <2>9. out' = out
    BY <1>4
  <2> QED
    BY <2>2, <2>4, <2>7, <2>8, <2>9 DEF Delivered
<1>10. AgreeInv => AgreeInv' /\ Delivered(t)
  BY <1>6, <1>9, BecomesKeepsAgree DEF FitsInv, Delivered
<1> QED
  BY <1>1, <1>8, <1>10

\* One character more: the next of the line, and with the line feed the whole
\* line.  A cell that was read is empty again, the last one too.
LEMMA ReadCopiesKeeps ==
  ASSUME FitsInv, ReadCopies
  PROVE  FitsInv' /\ (AgreeInv => AgreeInv' /\ Delivered(scheduled))
<1>1. PICK t \in Terminals : t = scheduled
  BY DEF FitsInv
<1>2. /\ Holds(keyboard_buffer[t], old_buffer[t], buffer_position[t], terminal_can_read[t],
               reader[t], out[t], typed[t], line[t])
      /\ Fits(keyboard_buffer[t], old_buffer[t], buffer_position[t], reader[t])
  BY TerminalHolds
<1>3. PICK i \in Cells : i = reader[t].i /\ i < reader[t].nbytes
  BY <1>1, <1>2, CellFacts DEF ReadCopies, Holds, Fits, Readers
<1>4. PICK c \in Chars : c = keyboard_buffer[t][i]
  BY <1>2 DEF Holds
<1>5. PICK point \in {"none", "copying"} : point = IF c = NL THEN "none" ELSE "copying"
  OBVIOUS
<1>6. PICK r \in Readers : r = [pc |-> point, i |-> i + 1, nbytes |-> reader[t].nbytes]
  <2>1. i + 1 \in Nat /\ reader[t].nbytes \in Nat
    BY <1>2, CellFacts DEF Readers, Holds
  <2>2. [pc |-> point, i |-> i + 1, nbytes |-> reader[t].nbytes] \in Readers
    BY <2>1 DEF Readers
  <2> QED
    BY <2>2
<1>7. PICK kb \in [Cells -> Chars] : kb = [keyboard_buffer[t] EXCEPT ![i] = NUL]
  BY <1>2, CellFacts DEF Holds
<1>8. PICK old \in [OldCells -> Typeable] :
        old = IF c # NL THEN [old_buffer[t] EXCEPT ![i] = c] ELSE old_buffer[t]
  BY <1>2, CellFacts DEF Holds, Typeable
<1>9. PICK got \in Seq(Chars) :
        /\ got = Append(out[t], c)
        /\ Len(got) = Len(out[t]) + 1
        /\ \A j \in 1..Len(out[t]) : got[j] = out[t][j]
        /\ got[Len(out[t]) + 1] = c
  <2>1. out[t] \in Seq(Chars)
    BY <1>2 DEF Holds
  <2>2. /\ Append(out[t], c) \in Seq(Chars)
        /\ Len(Append(out[t], c)) = Len(out[t]) + 1
        /\ \A j \in 1..Len(out[t]) : Append(out[t], c)[j] = out[t][j]
        /\ Append(out[t], c)[Len(out[t]) + 1] = c
    BY <2>1, AppendProperties
  <2> QED
    BY <2>2
<1>10. /\ reader[t].pc = "copying"
       /\ out' = [out EXCEPT ![t] = Append(out[t], keyboard_buffer[t][i])]
       /\ keyboard_buffer' = [keyboard_buffer EXCEPT ![t][i] = NUL]
       /\ terminal_can_read' = [terminal_can_read EXCEPT ![t] = 0]
       /\ old_buffer' = IF keyboard_buffer[t][i] # NL
                        THEN [old_buffer EXCEPT ![t][i] = keyboard_buffer[t][i]]
                        ELSE old_buffer
       /\ UNCHANGED <<active, scheduled, buffer_position, history>>
  BY <1>1, <1>3 DEF ReadCopies
<1>11. reader' = [reader EXCEPT ![t] = r]
  <2>1. reader' = [reader EXCEPT ![t].i = reader[t].i + 1,
                                 ![t].pc = IF keyboard_buffer[t][reader[t].i] = NL THEN "none"
                                           ELSE reader[t].pc]
    BY <1>1 DEF ReadCopies
  <2>2. PICK n \in Nat : n = reader[t].i + 1 /\ n = i + 1
    BY <1>3, CellFacts
  <2>3. point = IF keyboard_buffer[t][reader[t].i] = NL THEN "none" ELSE reader[t].pc
    BY <1>3, <1>4, <1>5, <1>10
  <2>4. reader' = [reader EXCEPT ![t].i = n, ![t].pc = point]
    BY <2>1, <2>2, <2>3, Zenon
  <2>5. r = [pc |-> point, i |-> n, nbytes |-> reader[t].nbytes]
    BY <1>6, <2>2
  <2>6. ReaderAt(t, n, point)
    BY <2>4 DEF ReaderAt
  <2>7. reader' = [reader EXCEPT ![t] = [pc |-> point, i |-> n, nbytes |-> reader[t].nbytes]]
    BY <2>6, ReaderMoves
  <2> QED
    BY <2>5, <2>7
<1>12. Becomes(t, kb, old, buffer_position[t], 0, r, got, typed[t], line[t], mixed[t])
  <2>1. keyboard_buffer' = [keyboard_buffer EXCEPT ![t] = kb]
    BY <1>7, <1>10
  <2>2. old_buffer' = [old_buffer EXCEPT ![t] = old]
    BY <1>4, <1>8, <1>10, Unchanged
  <2>3. out' = [out EXCEPT ![t] = got]
    BY <1>4, <1>9, <1>10
  <2> QED
    BY <1>10, <1>11, <2>1, <2>2, <2>3, Unchanged DEF Becomes, history
<1>13. Holds(kb, old, buffer_position[t], 0, r, got, typed[t], line[t])
  BY <1>2 DEF Holds
<1>14. Fits(kb, old, buffer_position[t], r)
  <2>1. kb[BUF - 1] \in {NL, NUL}
    BY <1>2, <1>7, CellFacts DEF Holds, Fits
  <2>2. ASSUME NEW k \in OldCells, k >= BUF - 1 PROVE old[k] = NUL
    <3>1. CASE k = i
      <4>1. i = BUF - 1
        BY <2>2, <3>1, CellFacts
      <4>2. c \in {NL, NUL}
        BY <1>2, <1>4, <4>1 DEF Fits
      <4> QED
        BY <1>2, <1>8, <2>2, <3>1, <4>2, CellFacts DEF Holds, Fits
    <3>2. CASE k # i
      BY <1>2, <1>8, <2>2, <3>2 DEF Holds, Fits
    <3> QED
      BY <3>1, <3>2
  <2>3. buffer_position[t] <= BUF - 1 /\ r.nbytes <= BUF
    <3>1. buffer_position[t] <= BUF - 1 /\ reader[t].nbytes <= BUF
      BY <1>2 DEF Fits
    <3>2. r.nbytes = reader[t].nbytes
      BY <1>6
    <3> QED
      BY <3>1, <3>2
  <2> QED
    BY <2>1, <2>2, <2>3, Zenon DEF Fits
<1>15. FitsInv'
  <2>1. active' \in Terminals /\ scheduled' \in Terminals
    BY <1>4, <1>10 DEF FitsInv
  <2>2. mixed[t] \in BOOLEAN
    BY DEF FitsInv
  <2> QED
    BY <1>12, <1>13, <1>14, <2>1, <2>2, BecomesKeepsFits
<1>16. ASSUME AgreeInv, ~mixed[t]
       PROVE  /\ Agree(kb, buffer_position[t], 0, r, got, typed[t], line[t])
              /\ Delivered(t)
  <2>1. Agree(keyboard_buffer[t], buffer_position[t], terminal_can_read[t], reader[t], out[t], typed[t], line[t])
    BY <1>16 DEF AgreeInv
  <2>2. /\ buffer_position[t] = 0 /\ Len(typed[t]) = 0
        /\ Entered(keyboard_buffer[t], reader[t], line[t])
        /\ i < Len(line[t]) /\ Len(out[t]) = i
        /\ \A j \in 1..i : out[t][j] = line[t][j]
    BY <1>3, <1>10, <2>1 DEF Agree
  <2>3. /\ line[t] \in Seq(Chars) /\ Len(line[t]) \in Nat /\ reader[t].nbytes \in Nat
        /\ i \in Nat /\ i + 1 \in 1..Len(line[t])
    <3>1. line[t] \in Seq(Chars)
      BY <1>2 DEF Holds
    <3>2. Len(line[t]) \in Nat
      BY <3>1, LenProperties
    <3>3. reader[t].nbytes \in Nat
      BY <1>2 DEF Holds, Readers
    <3>4. i \in Nat
      BY CellFacts
    <3>5. i + 1 \in 1..Len(line[t])
      BY <2>2, <3>2, <3>4
    <3> QED
      BY <3>1, <3>2, <3>3, <3>4, <3>5
  <2>4. c = line[t][i + 1]
    <3>1. ~(i + 1 <= i) /\ (i + 1) - 1 = i
      BY <2>3
    <3> QED
      BY <1>3, <1>4, <2>2, <2>3, <3>1 DEF Entered
  <2>5. c = NL <=> i + 1 = Len(line[t])
    BY <2>2, <2>3, <2>4 DEF Entered
  <2>6. Len(got) = i + 1 /\ \A j \in 1..(i + 1) : got[j] = line[t][j]
    BY <1>9, <2>2, <2>3, <2>4
  <2>7. Agree(kb, buffer_position[t], 0, r, got, typed[t], line[t])
    <3>1. CASE c = NL
      BY <1>5, <1>6, <2>2, <3>1 DEF Agree
    <3>2. CASE c # NL
      <4>1. r.pc = "copying" /\ r.i = i + 1 /\ r.nbytes = reader[t].nbytes
        BY <1>5, <1>6, <3>2
      <4>2. i + 1 < Len(line[t])
        BY <2>3, <2>5, <3>2
      <4>3. ASSUME NEW j \in 1..Len(line[t]), ~(j <= i + 1) PROVE kb[j - 1] = line[t][j]
        <5>1. j - 1 # i /\ ~(j <= reader[t].i) /\ Len(line[t]) <= BUF
          BY <1>3, <2>2, <2>3, <4>3 DEF Entered
        <5>2. j - 1 \in Cells
          BY <2>3, <5>1, CellFacts
        <5>3. kb[j - 1] = keyboard_buffer[t][j - 1]
          BY <1>2, <1>7, <5>1, <5>2 DEF Holds
        <5>4. keyboard_buffer[t][j - 1] = line[t][j]
          BY <2>2, <5>1 DEF Entered
        <5> QED
          BY <5>3, <5>4
      <4>4. Entered(kb, r, line[t])
        BY <2>2, <4>1, <4>3 DEF Entered
      <4>5. i + 1 <= reader[t].nbytes
        BY <1>3, <2>3
      <4> QED
        BY <2>2, <2>6, <4>1, <4>2, <4>4, <4>5 DEF Agree
    <3> QED
      BY <3>1, <3>2
  <2>9. Delivered(t)
    <3> SUFFICES ASSUME reader'[t].pc = "none"
                 PROVE  out'[t] = SubSeq(line[t], 1, Shorter(Len(line[t]), reader[t].nbytes))
      BY DEF Delivered
    <3>1. reader'[t] = r /\ out'[t] = got
      BY <1>12 DEF Becomes, FitsInv
    <3>2. c = NL
      BY <1>5, <1>6, <3>1
    <3>3. PICK n \in Nat : n = i + 1 /\ n = Len(line[t]) /\ n <= reader[t].nbytes
      BY <1>3, <2>3, <2>5, <3>2
    <3>4. Shorter(Len(line[t]), reader[t].nbytes) = n
      BY <3>3 DEF Shorter
    <3>5. got = SubSeq(line[t], 1, n)
      BY <2>3, <2>6, <3>3, StartOfLine
    <3> QED
      BY <3>1, <3>4, <3>5
  <2> QED
    BY <2>7, <2>9
<1>17. AgreeInv => AgreeInv' /\ Delivered(t)
  BY <1>12, <1>16, BecomesKeepsAgree DEF FitsInv, Delivered
<1> QED
  BY <1>1, <1>15, <1>17

-----------------------------------------------------------------------------
(* Every step.                                                             *)

LEMMA NextTerminalIsTerminal ==
  ASSUME scheduled \in Terminals
  PROVE  NextTerminal \in Terminals
<1>1. NTerminals \in Nat \ {0} /\ scheduled + 1 \in Nat
  BY DEF Terminals
<1>2. (scheduled + 1) % NTerminals \in 0..(NTerminals - 1)
  BY <1>1
<1> QED
  BY <1>2 DEF NextTerminal, Terminals

LEMMA StepKeeps ==
  ASSUME FitsInv, RecallEmpty, [Next]_vars
  PROVE  FitsInv' /\ (AgreeInv => AgreeInv')
<1>1. active \in Terminals /\ scheduled \in Terminals
  BY DEF FitsInv
<1>2. CASE (\E c \in Letters \cup {SPACE} : Character(c)) \/ TabBlanks
  BY <1>2, CharacterKeeps
<1>3. CASE \E name \in Names : \E f \in 0..Len(name) : TabCompletes(name, f)
  BY <1>3, TabCompletesKeeps
<1>4. CASE Enter
  BY <1>4, EnterKeeps
<1>5. CASE Backspace
  BY <1>5, BackspaceKeeps
<1>6. CASE Recall
  BY <1>6, RecallKeeps
<1>7. CASE \E t \in Terminals \ {active} : Switch(t)
  BY <1>1, <1>7, NothingKeeps DEF Switch
<1>8. CASE Tick
  BY <1>1, <1>8, NothingKeeps, NextTerminalIsTerminal DEF Tick
<1>9. CASE \E nbytes \in Requests : Read(nbytes)
  BY <1>9, ReadKeeps
<1>10. CASE Reading
  BY <1>10, ReadWakesKeeps, ReadCopiesKeeps, ReadFullKeeps DEF Reading
<1>11. CASE UNCHANGED vars
  BY <1>1, <1>11, NothingKeeps DEF vars
<1> QED
  BY <1>2, <1>3, <1>4, <1>5, <1>6, <1>7, <1>8, <1>9, <1>10, <1>11 DEF Next

\* The invariants hold for a user who presses Up on an empty line.
LEMMA FitsInvHolds ==
  ASSUME RecallEmpty PROVE Spec => []FitsInv
<1>1. FitsInv /\ [Next]_vars => FitsInv'
  BY StepKeeps
<1> QED
  BY <1>1, FitsInvInit, PTL DEF Spec

LEMMA BothInvHold ==
  ASSUME RecallEmpty PROVE Spec => [](FitsInv /\ AgreeInv)
<1>1. FitsInv /\ AgreeInv /\ [Next]_vars => FitsInv' /\ AgreeInv'
  BY StepKeeps
<1> QED
  BY <1>1, FitsInvInit, AgreeInvInit, PTL DEF Spec

-----------------------------------------------------------------------------
(* What follows.                                                           *)

\* However the keys fall, a line never passes the last cell of its buffer: the
\* tests of putc_key, tab_key and buffer_key in keyboard.c suffice, for buffers
\* of every size and names of every length, while Up is pressed on empty lines.
THEOREM LineAlwaysFits ==
  ASSUME RecallEmpty PROVE Spec => []LineFits
<1>1. FitsInv => LineFits
  BY DEF FitsInv, Fits, LineFits
<1> QED
  BY <1>1, FitsInvHolds, PTL

\* keyboard_buffer and the echo of putc_key and removec_key never come apart while
\* the user does not type into a line that is being copied: what is on the screen
\* is what is in the buffer, also after a line that waited was typed over.
THEOREM ShownAlwaysBuffered ==
  ASSUME RecallEmpty PROVE Spec => []ShownIsBuffered
<1>1. FitsInv /\ AgreeInv => ShownIsBuffered
  <2> SUFFICES ASSUME FitsInv, AgreeInv, NEW t \in Terminals, ~mixed[t]
               PROVE  /\ Len(typed[t]) = buffer_position[t]
                      /\ \A i \in 1..Len(typed[t]) :
                           i - 1 \in Cells => keyboard_buffer[t][i - 1] = typed[t][i]
    BY DEF ShownIsBuffered
  <2> QED
    BY DEF AgreeInv, Agree
<1> QED
  BY <1>1, BothInvHold, PTL

\* What terminal_read returns to a program is the line that was entered last on
\* its terminal, up to nbytes characters: neither the timer, which may take the
\* processor away between any two characters, nor a switch of the terminal, nor
\* typing over a line that waits mixes the lines of two terminals or two lines of
\* one.  Keys that fall into the copying itself do (mixed).
THEOREM LineAlwaysDelivered ==
  ASSUME RecallEmpty PROVE Spec => DeliversLine
<1>1. ASSUME FitsInv, AgreeInv, [Next]_vars, NEW t \in Terminals
      PROVE  Delivered(t)
  <2>1. CASE ReadCopies \/ ReadFull
    <3>1. Delivered(scheduled)
      BY <1>1, <2>1, ReadCopiesKeeps, ReadFullKeeps
    <3>2. \A u \in Terminals \ {scheduled} : reader'[u] = reader[u]
      BY <1>1, <2>1 DEF ReadCopies, ReadFull, FitsInv
    <3> QED
      BY <3>1, <3>2 DEF Delivered
  <2>2. CASE ReadWakes
    BY <1>1, <2>2 DEF ReadWakes, FitsInv, Delivered
  <2>3. CASE \E nbytes \in Requests : Read(nbytes)
    BY <1>1, <2>3 DEF Read, FitsInv, Delivered
  <2>4. CASE UNCHANGED reader
    BY <2>4 DEF Delivered
  <2> QED
    BY <1>1, <2>1, <2>2, <2>3, <2>4
    DEF Next, Reading, vars, program, Character, TabBlanks, TabCompletes, Enter, Backspace, Recall,
        Switch, Tick
<1>2. FitsInv /\ AgreeInv /\ [Next]_vars =>
        [\A t \in Terminals :
           ~mixed[t] /\ reader[t].pc = "copying" /\ reader'[t].pc = "none" =>
             out'[t] = SubSeq(line[t], 1, Shorter(Len(line[t]), reader[t].nbytes))]_vars
  BY <1>1 DEF Delivered
<1> QED
  BY <1>2, BothInvHold, PTL DEF DeliversLine, Spec
=============================================================================
