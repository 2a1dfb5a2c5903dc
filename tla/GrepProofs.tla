------------------------------ MODULE GrepProofs ------------------------------
(***************************************************************************)
(* Theorems about Arguments and Grep, for names, commands, files and       *)
(* buffers of every size.                                                  *)
(***************************************************************************)
EXTENDS Grep, SequenceTheorems, FiniteSetTheorems, NaturalsInduction,
        WellFoundedInduction, TLAPS

-----------------------------------------------------------------------------
(* Numbers and parts of sequences.                                         *)

\* Every set of numbers but the empty one has a least element.
LEMMA Least ==
  ASSUME NEW T, T \subseteq Nat, T # {}
  PROVE  \E x \in T : \A y \in T : x <= y
<1>1. PICK R : R = OpToRel(<, Nat)
  BY Zenon
<1>2. PICK x \in T : \A y \in T : ~(<<y, x>> \in R)
  BY <1>1, NatLessThanWellFounded, WFMin, Zenon
<1>3. \A y, z \in Nat : y < z => <<y, z>> \in R
  BY <1>1 DEF OpToRel
<1>4. ASSUME NEW y \in T PROVE x <= y
  <2>1. x \in Nat /\ y \in Nat
    OBVIOUS
  <2>2. ~(y < x)
    BY <1>2, <1>3, <2>1
  <2> QED
    BY <2>1, <2>2
<1> QED
  BY <1>4

\* What is between two positions.
LEMMA Part ==
  ASSUME NEW S, NEW s \in Seq(S), NEW a \in 1..(Len(s) + 1), NEW b \in a..(Len(s) + 1)
  PROVE  /\ SubSeq(s, a, b - 1) \in Seq(S) /\ Len(SubSeq(s, a, b - 1)) = b - a
         /\ \A i \in 1..(b - a) : SubSeq(s, a, b - 1)[i] = s[a + i - 1]
<1>1. \A i \in a..(b - 1) : s[i] \in S
  <2>1. \A i \in 1..Len(s) : s[i] \in S
    BY ElementOfSeq
  <2> QED
    BY <2>1
<1>2. /\ SubSeq(s, a, b - 1) \in Seq(S)
      /\ Len(SubSeq(s, a, b - 1)) = IF a <= b - 1 THEN b - 1 - a + 1 ELSE 0
      /\ \A i \in 1..(b - 1 - a + 1) : SubSeq(s, a, b - 1)[i] = s[a + i - 1]
  <2>1. a \in Int /\ b - 1 \in Int
    OBVIOUS
  <2> QED
    BY <1>1, <2>1, SubSeqProperties
<1>3. b - 1 - a + 1 = b - a /\ (a <= b - 1 \/ b - a = 0)
  OBVIOUS
<1> QED
  BY <1>2, <1>3

-----------------------------------------------------------------------------
(* The parts of a command.                                                 *)

LEMMA CommandIsSeq ==
  ASSUME NEW s \in Commands
  PROVE  s \in Seq(Bytes)
BY ArgumentsAssumption DEF Commands, BoundedSeq, SeqOf

LEMMA ProgramIsSeq ==
  ASSUME NEW p \in Programs
  PROVE  p \in Seq(Bytes) /\ p # <<>> /\ Len(p) <= FILE_NAME_SIZE
<1>1. p \in BoundedSeq(Bytes \ {SPACE_CHAR}, FILE_NAME_SIZE) /\ p # <<>>
  BY ArgumentsAssumption
<1>2. PICK n \in 0..FILE_NAME_SIZE : p \in [1..n -> Bytes \ {SPACE_CHAR}]
  BY <1>1 DEF BoundedSeq, SeqOf
<1> QED
  BY <1>1, <1>2, ArgumentsAssumption

\* Spaces, a word from a to b, spaces, and what follows from c on.
Parts(s, a, b, c) ==
  /\ a \in 1..Len(s) /\ b \in (a + 1)..(Len(s) + 1) /\ c \in b..(Len(s) + 1)
  /\ \A i \in 1..(a - 1) : s[i] = SPACE_CHAR
  /\ \A i \in a..(b - 1) : s[i] # SPACE_CHAR
  /\ \A i \in b..(c - 1) : s[i] = SPACE_CHAR
  /\ c <= Len(s) => b < c /\ s[c] # SPACE_CHAR

LEMMA SpacesAreBytes ==
  ASSUME NEW n \in Nat
  PROVE  /\ Spaces(n) \in Seq(Bytes) /\ Len(Spaces(n)) = n
         /\ \A i \in 1..n : Spaces(n)[i] = SPACE_CHAR
<1>1. SPACE_CHAR \in Bytes
  BY ArgumentsAssumption
<1>2. PICK f : f = [i \in 1..n |-> SPACE_CHAR]
  OBVIOUS
<1>3. f \in Seq(Bytes) /\ Len(f) = n /\ \A i \in 1..n : f[i] = SPACE_CHAR
  BY <1>1, <1>2
<1> QED
  BY <1>2, <1>3 DEF Spaces

\* The parts in the command's definition are such positions.
LEMMA SplitHasParts ==
  ASSUME NEW s \in Seq(Bytes), NEW word \in Seq(Bytes), NEW rest \in Seq(Bytes),
         IsSplit(s, word, rest)
  PROVE  \E a, b, c \in Nat : /\ Parts(s, a, b, c)
                             /\ word = SubSeq(s, a, b - 1) /\ rest = SubSeq(s, c, Len(s))
<1>1. PICK lead \in 0..Len(s), gap \in 0..Len(s) :
        /\ s = Spaces(lead) \o word \o Spaces(gap) \o rest
        /\ rest # <<>> => gap > 0
  BY DEF IsSplit
<1>2. /\ word # <<>> /\ SPACE_CHAR \notin {word[i] : i \in DOMAIN word}
      /\ rest # <<>> => Head(rest) # SPACE_CHAR
  BY DEF IsSplit
<1>3. PICK before \in Seq(Bytes) : /\ before = Spaces(lead) /\ Len(before) = lead
                                   /\ \A i \in 1..lead : before[i] = SPACE_CHAR
  BY SpacesAreBytes
<1>4. PICK between \in Seq(Bytes) : /\ between = Spaces(gap) /\ Len(between) = gap
                                    /\ \A i \in 1..gap : between[i] = SPACE_CHAR
  BY SpacesAreBytes
<1>5. PICK n \in Nat, m \in Nat \ {0}, r \in Nat :
        n = Len(s) /\ m = Len(word) /\ r = Len(rest) /\ (rest # <<>> <=> r > 0)
  <2>1. Len(s) \in Nat /\ Len(word) \in Nat \ {0} /\ Len(rest) \in Nat
    BY <1>2, EmptySeq
  <2>2. rest # <<>> <=> Len(rest) > 0
    BY EmptySeq
  <2> QED
    BY <2>1, <2>2
<1>l. PICK l \in Nat : l = lead
  OBVIOUS
<1>k. PICK k \in Nat : k = gap
  OBVIOUS
<1>e. PICK e \in Nat : e = l + m
  OBVIOUS
<1>p. PICK p \in Nat : p = e + k
  OBVIOUS
<1>6. PICK x \in Seq(Bytes) : /\ x = before \o word /\ Len(x) = e
                              /\ \A i \in 1..e :
                                   x[i] = IF i <= l THEN before[i] ELSE word[i - l]
  <2>1. /\ before \o word \in Seq(Bytes) /\ Len(before \o word) = Len(before) + Len(word)
        /\ \A i \in 1..(Len(before) + Len(word)) :
             (before \o word)[i] = IF i <= Len(before) THEN before[i] ELSE word[i - Len(before)]
    BY ConcatProperties
  <2>2. Len(before) = l /\ Len(before) + Len(word) = e
    BY <1>3, <1>5, <1>l, <1>e
  <2> QED
    BY <2>1, <2>2
<1>7. PICK y \in Seq(Bytes) : /\ y = x \o between /\ Len(y) = p
                              /\ \A i \in 1..p :
                                   y[i] = IF i <= e THEN x[i] ELSE between[i - e]
  <2>1. /\ x \o between \in Seq(Bytes) /\ Len(x \o between) = Len(x) + Len(between)
        /\ \A i \in 1..(Len(x) + Len(between)) :
             (x \o between)[i] = IF i <= Len(x) THEN x[i] ELSE between[i - Len(x)]
    BY ConcatProperties
  <2>2. Len(x) = e /\ Len(x) + Len(between) = p
    BY <1>4, <1>k, <1>p, <1>6
  <2> QED
    BY <2>1, <2>2
<1>8. n = p + r /\ \A i \in 1..n : s[i] = IF i <= p THEN y[i]
                                                  ELSE rest[i - p]
  <2>1. s = y \o rest
    BY <1>1, <1>3, <1>4, <1>6, <1>7
  <2>2. /\ Len(y \o rest) = Len(y) + Len(rest)
        /\ \A i \in 1..(Len(y) + Len(rest)) :
             (y \o rest)[i] = IF i <= Len(y) THEN y[i] ELSE rest[i - Len(y)]
    BY ConcatProperties
  <2> QED
    BY <1>5, <1>l, <1>k, <1>e, <1>p, <1>7, <2>1, <2>2
<1>n. n = p + r /\ n = Len(s) /\ m = Len(word) /\ r = Len(rest)
  BY <1>5, <1>8
<1>w. ASSUME NEW i \in 1..m PROVE s[l + i] = word[i]
  <2>1. PICK j \in Nat : j = l + i /\ j \in 1..n /\ j <= p /\ j <= e /\ j - l = i
                         /\ ~(j <= l) /\ j >= 1
    BY <1>n, <1>e, <1>p
  <2>2. s[j] = y[j]
    BY <1>8, <2>1
  <2>3. y[j] = x[j]
    BY <1>7, <2>1
  <2>4. x[j] = word[j - l]
    <3>1. j \in 1..e /\ ~(j <= l)
      BY <2>1
    <3> QED
      BY <1>6, <3>1
  <2> QED
    BY <2>1, <2>2, <2>3, <2>4
<1>b. ASSUME NEW i \in 1..l PROVE s[i] = SPACE_CHAR
  <2>1. i \in 1..n /\ i <= p /\ i <= e /\ i \in 1..e /\ i \in 1..p
        /\ i <= l
    BY <1>n, <1>e, <1>p
  <2>2. s[i] = y[i]
    BY <1>8, <2>1
  <2>3. y[i] = x[i]
    BY <1>7, <2>1
  <2>4. x[i] = before[i]
    BY <1>6, <2>1
  <2> QED
    BY <1>3, <1>l, <2>2, <2>3, <2>4
<1>g. ASSUME NEW i \in 1..k PROVE s[e + i] = SPACE_CHAR
  <2>1. PICK j \in Nat : j = e + i
    OBVIOUS
  <2>2. j - e = i /\ ~(j <= e) /\ j >= 1 /\ j <= p
    BY <1>p, <2>1
  <2>3. j <= n
    BY <1>n, <2>2
  <2>4. s[j] = y[j]
    BY <1>8, <2>2, <2>3
  <2>5. y[j] = between[j - e]
    BY <1>7, <2>2
  <2> QED
    BY <1>4, <1>k, <2>1, <2>2, <2>4, <2>5
<1>r. ASSUME NEW i \in 1..r PROVE s[p + i] = rest[i]
  <2>1. PICK j \in Nat : j = p + i
    OBVIOUS
  <2>2. j \in 1..n /\ ~(j <= p) /\ j - p = i
    BY <1>n, <2>1
  <2>3. s[j] = rest[j - p]
    BY <1>8, <2>2
  <2> QED
    BY <2>1, <2>2, <2>3
<1>9. PICK a \in Nat, b \in Nat, c \in Nat : a = l + 1 /\ b = e + 1 /\ c = p + 1
  OBVIOUS
<1>10. Parts(s, a, b, c)
  <2>1. /\ a \in 1..Len(s) /\ b \in (a + 1)..(Len(s) + 1) /\ c \in b..(Len(s) + 1)
    <3>1. n = l + m + k + r /\ m >= 1
      BY <1>n, <1>e, <1>p
    <3>2. a \in 1..n
      BY <1>9, <3>1
    <3>3. b \in (a + 1)..(n + 1)
      BY <1>9, <1>e, <3>1
    <3>4. c \in b..(n + 1)
      BY <1>9, <1>e, <1>p, <3>1
    <3> QED
      BY <1>n, <3>2, <3>3, <3>4
  <2>2. ASSUME NEW i \in 1..(a - 1) PROVE s[i] = SPACE_CHAR
    <3>1. a - 1 = l
      BY <1>9
    <3>2. i \in 1..l
      BY <3>1
    <3> QED
      BY <1>b, <3>2
  <2>3. ASSUME NEW i \in a..(b - 1) PROVE s[i] # SPACE_CHAR
    <3>1. PICK h \in 1..m : h = i - l /\ l + h = i
      BY <1>9, <1>e, <1>p
    <3>2. s[l + h] = word[h]
      BY <1>w
    <3>3. h \in DOMAIN word
      BY <1>n, <1>e, <1>p
    <3> QED
      BY <1>2, <3>1, <3>2, <3>3
  <2>4. ASSUME NEW i \in b..(c - 1) PROVE s[i] = SPACE_CHAR
    <3>1. PICK h \in 1..k : e + h = i
      <4>1. i - e \in 1..k /\ e + (i - e) = i
        BY <1>9, <1>e, <1>p
      <4> QED
        BY <4>1
    <3> QED
      BY <1>g, <3>1
  <2>5. c <= Len(s) => b < c /\ s[c] # SPACE_CHAR
    <3>1. SUFFICES ASSUME r > 0 PROVE b < c /\ s[c] # SPACE_CHAR
      BY <1>n, <1>e, <1>p, <1>9
    <3>2. rest # <<>> /\ k > 0 /\ Head(rest) = rest[1]
      BY <1>1, <1>5, <1>k, <3>1
    <3>3. 1 \in 1..r /\ p + 1 = c
      BY <1>9, <1>e, <1>p, <3>1
    <3>4. s[c] = rest[1]
      BY <1>r, <3>3
    <3>5. b < c
      BY <1>9, <1>p, <3>2
    <3> QED
      BY <1>2, <3>2, <3>4, <3>5
  <2> QED
    BY <2>1, <2>2, <2>3, <2>4, <2>5 DEF Parts
<1>11. word = SubSeq(s, a, b - 1)
  <2>1. /\ SubSeq(s, a, b - 1) \in Seq(Bytes) /\ Len(SubSeq(s, a, b - 1)) = b - a
        /\ \A i \in 1..(b - a) : SubSeq(s, a, b - 1)[i] = s[a + i - 1]
    <3>1. a \in 1..(Len(s) + 1) /\ b \in a..(Len(s) + 1)
      BY <1>10 DEF Parts
    <3> QED
      BY <3>1, Part
  <2>2. PICK w \in Seq(Bytes) : w = SubSeq(s, a, b - 1)
    BY <2>1
  <2>3. Len(w) = Len(word)
    BY <1>n, <1>e, <1>p, <1>9, <2>1, <2>2
  <2>4. ASSUME NEW i \in 1..Len(w) PROVE w[i] = word[i]
    <3>1. i \in 1..m /\ i \in 1..(b - a) /\ a + i - 1 = l + i
      BY <1>n, <1>e, <1>p, <1>9, <2>3
    <3>2. w[i] = s[a + i - 1]
      BY <2>1, <2>2, <3>1
    <3> QED
      BY <1>w, <3>1, <3>2
  <2>5. w = word
    BY <2>3, <2>4, SeqEqual
  <2> QED
    BY <2>2, <2>5
<1>12. rest = SubSeq(s, c, Len(s))
  <2>1. PICK d \in Nat : d = Len(s) + 1 /\ d - 1 = Len(s)
    OBVIOUS
  <2>2. /\ SubSeq(s, c, d - 1) \in Seq(Bytes) /\ Len(SubSeq(s, c, d - 1)) = d - c
        /\ \A i \in 1..(d - c) : SubSeq(s, c, d - 1)[i] = s[c + i - 1]
    <3>1. c \in 1..(Len(s) + 1) /\ d \in c..(Len(s) + 1)
      BY <1>10, <2>1 DEF Parts
    <3> QED
      BY <3>1, Part
  <2>3. PICK w \in Seq(Bytes) : w = SubSeq(s, c, d - 1)
    BY <2>2
  <2>4. d - c = r
    <3>1. c = p + 1 /\ d = p + r + 1
      BY <1>n, <1>9, <1>p, <2>1
    <3> QED
      BY <3>1
  <2>5. Len(w) = Len(rest)
    BY <1>n, <1>e, <1>p, <2>2, <2>3, <2>4
  <2>6. ASSUME NEW i \in 1..Len(w) PROVE w[i] = rest[i]
    <3>1. i \in 1..r /\ i \in 1..(d - c) /\ c + i - 1 = p + i
      BY <1>n, <1>e, <1>p, <1>9, <2>4, <2>5
    <3>2. w[i] = s[c + i - 1]
      BY <2>2, <2>3, <3>1
    <3> QED
      BY <1>r, <3>1, <3>2
  <2>7. w = rest
    BY <2>5, <2>6, SeqEqual
  <2> QED
    BY <2>1, <2>3, <2>7
<1> QED
  BY <1>10, <1>11, <1>12

\* Such positions are parts.
LEMMA PartsAreSplit ==
  ASSUME NEW s \in Seq(Bytes), NEW a \in Nat, NEW b \in Nat, NEW c \in Nat, Parts(s, a, b, c)
  PROVE  <<SubSeq(s, a, b - 1), SubSeq(s, c, Len(s))>> \in Splits(s)
<1>1. PICK n \in Nat : n = Len(s)
  OBVIOUS
<1>2. /\ a \in 1..n /\ b \in (a + 1)..(n + 1) /\ c \in b..(n + 1)
      /\ \A i \in 1..(a - 1) : s[i] = SPACE_CHAR
      /\ \A i \in a..(b - 1) : s[i] # SPACE_CHAR
      /\ \A i \in b..(c - 1) : s[i] = SPACE_CHAR
      /\ c <= n => b < c /\ s[c] # SPACE_CHAR
  BY <1>1 DEF Parts
<1>3. PICK word \in Seq(Bytes) : /\ word = SubSeq(s, a, b - 1) /\ Len(word) = b - a
                                 /\ \A i \in 1..(b - a) : word[i] = s[a + i - 1]
  <2>1. /\ SubSeq(s, a, b - 1) \in Seq(Bytes) /\ Len(SubSeq(s, a, b - 1)) = b - a
        /\ \A i \in 1..(b - a) : SubSeq(s, a, b - 1)[i] = s[a + i - 1]
    BY <1>1, <1>2, Part
  <2> QED
    BY <2>1
<1>4. PICK rest \in Seq(Bytes) : /\ rest = SubSeq(s, c, n) /\ Len(rest) = n + 1 - c
                                 /\ \A i \in 1..(n + 1 - c) : rest[i] = s[c + i - 1]
  <2>1. PICK d \in Nat : d = n + 1 /\ d - 1 = n
    OBVIOUS
  <2>2. /\ SubSeq(s, c, d - 1) \in Seq(Bytes) /\ Len(SubSeq(s, c, d - 1)) = d - c
        /\ \A i \in 1..(d - c) : SubSeq(s, c, d - 1)[i] = s[c + i - 1]
    <3>1. c \in 1..(Len(s) + 1) /\ d \in c..(Len(s) + 1)
      BY <1>1, <1>2, <2>1
    <3> QED
      BY <3>1, Part
  <2>3. d - c = n + 1 - c
    BY <2>1
  <2> QED
    BY <2>1, <2>2, <2>3
<1>5. PICK lead \in Nat, gap \in Nat : lead = a - 1 /\ gap = c - b
  BY <1>2
<1>6. PICK before \in Seq(Bytes) : /\ before = Spaces(lead) /\ Len(before) = lead
                                   /\ \A i \in 1..lead : before[i] = SPACE_CHAR
  BY SpacesAreBytes
<1>7. PICK between \in Seq(Bytes) : /\ between = Spaces(gap) /\ Len(between) = gap
                                    /\ \A i \in 1..gap : between[i] = SPACE_CHAR
  BY SpacesAreBytes
<1>8. PICK x \in Seq(Bytes) : /\ x = before \o word /\ Len(x) = b - 1
                              /\ \A i \in 1..(b - 1) : x[i] = s[i]
  <2>1. /\ before \o word \in Seq(Bytes) /\ Len(before \o word) = Len(before) + Len(word)
        /\ \A i \in 1..(Len(before) + Len(word)) :
             (before \o word)[i] = IF i <= Len(before) THEN before[i] ELSE word[i - Len(before)]
    BY ConcatProperties
  <2>2. Len(before) = a - 1 /\ Len(before) + Len(word) = b - 1
    <3>1. Len(before) = a - 1 /\ Len(word) = b - a
      BY <1>3, <1>5, <1>6
    <3>2. (a - 1) + (b - a) = b - 1
      OBVIOUS
    <3> QED
      BY <3>1, <3>2
  <2>3. ASSUME NEW i \in 1..(b - 1) PROVE (before \o word)[i] = s[i]
    <3>1. (before \o word)[i] = IF i <= a - 1 THEN before[i] ELSE word[i - (a - 1)]
      BY <2>1, <2>2
    <3>2. CASE i <= a - 1
      BY <1>2, <1>5, <1>6, <3>1, <3>2
    <3>3. CASE ~(i <= a - 1)
      <4>1. PICK j \in Nat : j = i - (a - 1)
        BY <1>2, <3>3
      <4>2. j \in 1..(b - a) /\ a + j - 1 = i
        BY <1>2, <3>3, <4>1
      <4>3. word[j] = s[a + j - 1]
        BY <1>3, <4>2
      <4> QED
        BY <3>1, <3>3, <4>1, <4>2, <4>3
    <3> QED
      BY <3>2, <3>3
  <2> QED
    BY <2>1, <2>2, <2>3
<1>9. PICK y \in Seq(Bytes) : /\ y = x \o between /\ Len(y) = c - 1
                              /\ \A i \in 1..(c - 1) : y[i] = s[i]
  <2>1. /\ x \o between \in Seq(Bytes) /\ Len(x \o between) = Len(x) + Len(between)
        /\ \A i \in 1..(Len(x) + Len(between)) :
             (x \o between)[i] = IF i <= Len(x) THEN x[i] ELSE between[i - Len(x)]
    BY ConcatProperties
  <2>2. Len(x) = b - 1 /\ Len(x) + Len(between) = c - 1
    BY <1>2, <1>5, <1>7, <1>8
  <2>3. ASSUME NEW i \in 1..(c - 1) PROVE (x \o between)[i] = s[i]
    <3>1. (x \o between)[i] = IF i <= b - 1 THEN x[i] ELSE between[i - (b - 1)]
      BY <2>1, <2>2
    <3>2. CASE i <= b - 1
      BY <1>8, <3>1, <3>2
    <3>3. CASE ~(i <= b - 1)
      <4>1. PICK j \in Nat : j = i - (b - 1)
        BY <1>2, <3>3
      <4>2. j \in 1..gap /\ i \in b..(c - 1)
        BY <1>2, <1>5, <3>3, <4>1
      <4>3. between[j] = SPACE_CHAR /\ s[i] = SPACE_CHAR
        BY <1>2, <1>7, <4>2
      <4> QED
        BY <3>1, <3>3, <4>1, <4>3
    <3> QED
      BY <3>2, <3>3
  <2> QED
    BY <2>1, <2>2, <2>3
<1>10. s = y \o rest
  <2>1. PICK z \in Seq(Bytes) : z = y \o rest
    BY ConcatProperties
  <2>2. /\ Len(z) = Len(y) + Len(rest)
        /\ \A i \in 1..(Len(y) + Len(rest)) :
             z[i] = IF i <= Len(y) THEN y[i] ELSE rest[i - Len(y)]
    BY <2>1, ConcatProperties
  <2>3. Len(y) = c - 1 /\ Len(y) + Len(rest) = n
    BY <1>2, <1>4, <1>9
  <2>4. ASSUME NEW i \in 1..n PROVE z[i] = s[i]
    <3>1. z[i] = IF i <= c - 1 THEN y[i] ELSE rest[i - (c - 1)]
      <4>1. i \in 1..(Len(y) + Len(rest))
        BY <2>3
      <4>2. z[i] = IF i <= Len(y) THEN y[i] ELSE rest[i - Len(y)]
        BY <2>2, <4>1
      <4> QED
        BY <2>3, <4>2, Zenon
    <3>2. CASE i <= c - 1
      BY <1>9, <3>1, <3>2
    <3>3. CASE ~(i <= c - 1)
      <4>1. PICK j \in Nat : j = i - (c - 1)
        BY <1>2, <3>3
      <4>2. j \in 1..(n + 1 - c) /\ c + j - 1 = i
        BY <1>2, <3>3, <4>1
      <4>3. rest[j] = s[c + j - 1]
        BY <1>4, <4>2
      <4> QED
        BY <3>1, <3>3, <4>1, <4>2, <4>3
    <3> QED
      BY <3>2, <3>3
  <2>5. z = s
    BY <1>1, <2>2, <2>3, <2>4, SeqEqual
  <2> QED
    BY <2>1, <2>5
<1>11. IsSplit(s, word, rest)
  <2>1. word # <<>> /\ SPACE_CHAR \notin {word[i] : i \in DOMAIN word}
    <3>1. Len(word) # 0
      BY <1>2, <1>3
    <3>2. ASSUME NEW i \in DOMAIN word PROVE word[i] # SPACE_CHAR
      <4>1. i \in 1..(b - a)
        BY <1>3
      <4>2. PICK j : j = a + i - 1
        OBVIOUS
      <4>3. j \in a..(b - 1) /\ word[i] = s[j]
        BY <1>2, <1>3, <4>1, <4>2
      <4> QED
        BY <1>2, <4>3
    <3> QED
      BY <3>1, <3>2
  <2>2. rest # <<>> => Head(rest) # SPACE_CHAR /\ gap > 0
    <3>1. SUFFICES ASSUME rest # <<>> PROVE Head(rest) # SPACE_CHAR /\ gap > 0
      OBVIOUS
    <3>2. Len(rest) > 0 /\ Head(rest) = rest[1]
      BY <3>1, EmptySeq
    <3>3. c <= n /\ 1 \in 1..(n + 1 - c) /\ c + 1 - 1 = c
      BY <1>2, <1>4, <3>2
    <3>4. rest[1] = s[c]
      BY <1>4, <3>3
    <3>5. gap > 0
      BY <1>2, <1>5, <3>3
    <3> QED
      BY <1>2, <3>2, <3>3, <3>4, <3>5
  <2>3. s = Spaces(lead) \o word \o Spaces(gap) \o rest
    BY <1>6, <1>7, <1>8, <1>9, <1>10
  <2>4. lead \in 0..Len(s) /\ gap \in 0..Len(s)
    BY <1>1, <1>2, <1>5
  <2> QED
    BY <2>1, <2>2, <2>3, <2>4 DEF IsSplit
<1>12. DOMAIN s = 1..n /\ a \in 1..n /\ b - 1 \in 1..n /\ c \in 1..(n + 1)
  BY <1>1, <1>2
<1>13. word \in {SubSeq(s, cut[1], cut[2]) : cut \in (DOMAIN s) \X (DOMAIN s)}
  <2>1. PICK cut : cut = <<a, b - 1>>
    OBVIOUS
  <2>2. cut \in (DOMAIN s) \X (DOMAIN s) /\ cut[1] = a /\ cut[2] = b - 1
    BY <1>12, <2>1
  <2>3. SubSeq(s, cut[1], cut[2]) \in
          {SubSeq(s, part[1], part[2]) : part \in (DOMAIN s) \X (DOMAIN s)}
    BY <2>2, Zenon
  <2> QED
    BY <1>3, <2>2, <2>3, Zenon
<1>14. rest \in {SubSeq(s, i, Len(s)) : i \in 1..(Len(s) + 1)}
  BY <1>1, <1>4, <1>12
<1>15. <<word, rest>> \in Splits(s)
  <2>1. PICK split : split = <<word, rest>>
    OBVIOUS
  <2>2. split[1] = word /\ split[2] = rest
    BY <2>1
  <2>3. PICK A, B : /\ A = {SubSeq(s, cut[1], cut[2]) : cut \in (DOMAIN s) \X (DOMAIN s)}
                    /\ B = {SubSeq(s, i, Len(s)) : i \in 1..(Len(s) + 1)}
    BY Zenon
  <2>4. word \in A /\ rest \in B
    BY <1>13, <1>14, <2>3
  <2>5. split \in A \X B /\ IsSplit(s, split[1], split[2])
    BY <1>11, <2>1, <2>2, <2>4
  <2>6. Splits(s) = {pair \in A \X B : IsSplit(s, pair[1], pair[2])}
    BY <2>3, Zenon DEF Splits
  <2> QED
    BY <2>1, <2>5, <2>6
<1> QED
  BY <1>1, <1>3, <1>4, <1>15

LEMMA SplitsAreParts ==
  ASSUME NEW s \in Seq(Bytes), NEW split \in Splits(s)
  PROVE  \E a, b, c \in Nat :
           Parts(s, a, b, c) /\ split = <<SubSeq(s, a, b - 1), SubSeq(s, c, Len(s))>>
<1>1. PICK A, B : /\ A = {SubSeq(s, cut[1], cut[2]) : cut \in (DOMAIN s) \X (DOMAIN s)}
                  /\ B = {SubSeq(s, i, Len(s)) : i \in 1..(Len(s) + 1)}
  BY Zenon
<1>2. Splits(s) = {pair \in A \X B : IsSplit(s, pair[1], pair[2])}
  BY <1>1, Zenon DEF Splits
<1>3. split \in A \X B /\ IsSplit(s, split[1], split[2])
  BY <1>2
<1>4. split[1] \in A /\ split[2] \in B /\ split = <<split[1], split[2]>>
  BY <1>3
<1>5. split[1] \in Seq(Bytes)
  <2>1. PICK cut \in (DOMAIN s) \X (DOMAIN s) : split[1] = SubSeq(s, cut[1], cut[2])
    BY <1>1, <1>4, Zenon
  <2>2. cut[1] \in 1..Len(s) /\ cut[2] \in 1..Len(s)
    BY <2>1
  <2>3. SubSeq(s, cut[1], cut[2]) \in Seq(Bytes)
    <3>1. \A i \in cut[1]..cut[2] : s[i] \in Bytes
      BY <2>2
    <3> QED
      BY <2>2, <3>1, SubSeqProperties
  <2> QED
    BY <2>1, <2>3
<1>6. split[2] \in Seq(Bytes)
  <2>1. PICK i \in 1..(Len(s) + 1) : split[2] = SubSeq(s, i, Len(s))
    BY <1>1, <1>4, Zenon
  <2>2. SubSeq(s, i, Len(s)) \in Seq(Bytes)
    <3>1. \A k \in i..Len(s) : s[k] \in Bytes
      OBVIOUS
    <3>2. i \in Int /\ Len(s) \in Int
      OBVIOUS
    <3> QED
      BY <3>1, <3>2, SubSeqProperties
  <2> QED
    BY <2>1, <2>2
<1>7. PICK word \in Seq(Bytes), rest \in Seq(Bytes) : word = split[1] /\ rest = split[2]
  BY <1>5, <1>6
<1>8. \E a, b, c \in Nat : /\ Parts(s, a, b, c)
                           /\ word = SubSeq(s, a, b - 1) /\ rest = SubSeq(s, c, Len(s))
  <2>1. IsSplit(s, word, rest)
    BY <1>3, <1>7
  <2> QED
    BY <2>1, SplitHasParts
<1> QED
  BY <1>4, <1>7, <1>8

\* No command has two first words.
LEMMA PartsAgree ==
  ASSUME NEW s \in Seq(Bytes),
         NEW a \in Nat, NEW b \in Nat, NEW c \in Nat, Parts(s, a, b, c),
         NEW x \in Nat, NEW y \in Nat, NEW z \in Nat, Parts(s, x, y, z)
  PROVE  a = x /\ b = y /\ c = z
<1>1. PICK n \in Nat : n = Len(s)
  OBVIOUS
<1>2. /\ a \in 1..n /\ b \in (a + 1)..(n + 1) /\ c \in b..(n + 1)
      /\ \A i \in 1..(a - 1) : s[i] = SPACE_CHAR
      /\ \A i \in a..(b - 1) : s[i] # SPACE_CHAR
      /\ \A i \in b..(c - 1) : s[i] = SPACE_CHAR
      /\ c <= n => b < c /\ s[c] # SPACE_CHAR
  BY <1>1 DEF Parts
<1>3. /\ x \in 1..n /\ y \in (x + 1)..(n + 1) /\ z \in y..(n + 1)
      /\ \A i \in 1..(x - 1) : s[i] = SPACE_CHAR
      /\ \A i \in x..(y - 1) : s[i] # SPACE_CHAR
      /\ \A i \in y..(z - 1) : s[i] = SPACE_CHAR
      /\ z <= n => y < z /\ s[z] # SPACE_CHAR
  BY <1>1 DEF Parts
<1>4. a = x
  <2>1. s[a] # SPACE_CHAR /\ s[x] # SPACE_CHAR
    BY <1>2, <1>3
  <2> QED
    BY <1>2, <1>3, <2>1
<1>5. b = y
  <2>1. CASE b < y
    <3>1. s[b] # SPACE_CHAR /\ b <= n
      BY <1>2, <1>3, <1>4, <2>1
    <3>2. s[b] = SPACE_CHAR \/ b = c
      BY <1>2
    <3> QED
      BY <1>2, <3>1, <3>2
  <2>2. CASE y < b
    <3>1. s[y] # SPACE_CHAR /\ y <= n
      BY <1>2, <1>3, <1>4, <2>2
    <3>2. s[y] = SPACE_CHAR \/ y = z
      BY <1>3
    <3> QED
      BY <1>3, <3>1, <3>2
  <2> QED
    BY <1>2, <1>3, <2>1, <2>2
<1>6. c = z
  <2>1. CASE c < z
    BY <1>2, <1>3, <1>5, <2>1
  <2>2. CASE z < c
    BY <1>2, <1>3, <1>5, <2>2
  <2> QED
    BY <1>2, <1>3, <2>1, <2>2
<1> QED
  BY <1>4, <1>5, <1>6

\* A command that is not all spaces has parts.
LEMMA PartsExist ==
  ASSUME NEW s \in Seq(Bytes), NEW some \in 1..Len(s), s[some] # SPACE_CHAR
  PROVE  \E a, b, c \in Nat : Parts(s, a, b, c)
<1>1. PICK n \in Nat : n = Len(s)
  OBVIOUS
<1>2. PICK a \in {i \in 1..n : s[i] # SPACE_CHAR} :
        \A i \in {i \in 1..n : s[i] # SPACE_CHAR} : a <= i
  <2>1. PICK T : T = {i \in 1..n : s[i] # SPACE_CHAR}
    OBVIOUS
  <2>2. T \subseteq Nat /\ T # {}
    BY <1>1, <2>1
  <2> QED
    BY <2>1, <2>2, Least
<1>3. a \in 1..n /\ s[a] # SPACE_CHAR /\ \A i \in 1..(a - 1) : s[i] = SPACE_CHAR
  BY <1>2
<1>4. PICK b \in {i \in (a + 1)..(n + 1) : i = n + 1 \/ s[i] = SPACE_CHAR} :
        \A i \in {i \in (a + 1)..(n + 1) : i = n + 1 \/ s[i] = SPACE_CHAR} : b <= i
  <2>1. PICK T : T = {i \in (a + 1)..(n + 1) : i = n + 1 \/ s[i] = SPACE_CHAR}
    OBVIOUS
  <2>2. T \subseteq Nat /\ n + 1 \in T
    BY <1>3, <2>1
  <2> QED
    BY <2>1, <2>2, Least
<1>5. /\ b \in (a + 1)..(n + 1) /\ (b = n + 1 \/ s[b] = SPACE_CHAR)
      /\ \A i \in a..(b - 1) : s[i] # SPACE_CHAR
  BY <1>3, <1>4
<1>6. PICK c \in {i \in b..(n + 1) : i = n + 1 \/ s[i] # SPACE_CHAR} :
        \A i \in {i \in b..(n + 1) : i = n + 1 \/ s[i] # SPACE_CHAR} : c <= i
  <2>1. PICK T : T = {i \in b..(n + 1) : i = n + 1 \/ s[i] # SPACE_CHAR}
    OBVIOUS
  <2>2. T \subseteq Nat /\ n + 1 \in T
    BY <1>3, <1>5, <2>1
  <2> QED
    BY <2>1, <2>2, Least
<1>7. /\ c \in b..(n + 1) /\ (c = n + 1 \/ s[c] # SPACE_CHAR)
      /\ \A i \in b..(c - 1) : s[i] = SPACE_CHAR
  BY <1>3, <1>5, <1>6
<1>8. c <= n => b < c /\ s[c] # SPACE_CHAR
  BY <1>3, <1>5, <1>7
<1>9. Parts(s, a, b, c) /\ a \in Nat /\ b \in Nat /\ c \in Nat
  BY <1>1, <1>3, <1>5, <1>7, <1>8 DEF Parts
<1> QED
  BY <1>9

-----------------------------------------------------------------------------
(* What parse_arguments makes of them.                                     *)

\* The command as parse_arguments reads it.
LEMMA TextIs ==
  ASSUME NEW s \in Seq(Bytes), NEW after
  PROVE  /\ Len(s \o <<NUL, after>>) = Len(s) + 2
         /\ \A i \in 1..Len(s) : (s \o <<NUL, after>>)[i] = s[i]
         /\ (s \o <<NUL, after>>)[Len(s) + 1] = NUL
         /\ (s \o <<NUL, after>>)[Len(s) + 2] = after
<1>1. PICK S : S = Bytes \cup {NUL, after}
  OBVIOUS
<1>2. PICK tail \in Seq(S) : tail = <<NUL, after>> /\ Len(tail) = 2
                             /\ tail[1] = NUL /\ tail[2] = after
  <2>1. PICK tail : tail = <<NUL, after>>
    OBVIOUS
  <2>2. Len(tail) = 2 /\ tail[1] = NUL /\ tail[2] = after /\ tail \in Seq(S)
    BY <1>1, <2>1
  <2> QED
    BY <2>1, <2>2
<1>3. s \in Seq(S)
  BY <1>1
<1>4. PICK txt : txt = s \o tail
  OBVIOUS
<1>5. /\ Len(txt) = Len(s) + Len(tail)
      /\ \A i \in 1..(Len(s) + Len(tail)) :
           txt[i] = IF i <= Len(s) THEN s[i] ELSE tail[i - Len(s)]
  BY <1>2, <1>3, <1>4, ConcatProperties
<1>6. PICK n \in Nat : n = Len(s)
  OBVIOUS
<1>7. txt[n + 1] = tail[1]
  <2>1. n + 1 \in 1..(n + 2) /\ ~(n + 1 <= n) /\ n + 1 - n = 1
    OBVIOUS
  <2> QED
    BY <1>2, <1>5, <1>6, <2>1
<1>8. txt[n + 2] = tail[2]
  <2>1. n + 2 \in 1..(n + 2) /\ ~(n + 2 <= n) /\ n + 2 - n = 2
    OBVIOUS
  <2> QED
    BY <1>2, <1>5, <1>6, <2>1
<1> QED
  BY <1>2, <1>4, <1>5, <1>6, <1>7, <1>8

LEMMA SkipSpacesIs ==
  ASSUME NEW txt, NEW i \in Nat, NEW k \in Nat, NEW stop \in Nat, stop = Len(txt) + 1,
         k \in i..stop, k = stop \/ txt[k] # SPACE_CHAR,
         \A j \in i..(k - 1) : txt[j] = SPACE_CHAR
  PROVE  SkipSpaces(txt, i) = k
<1>1. ASSUME NEW m \in i..stop, m = stop \/ txt[m] # SPACE_CHAR,
             \A j \in i..(m - 1) : ~(txt[j] # SPACE_CHAR)
      PROVE  m = k
  BY <1>1
<1>2. k \in i..stop /\ (k = stop \/ txt[k] # SPACE_CHAR)
      /\ \A j \in i..(k - 1) : ~(txt[j] # SPACE_CHAR)
  OBVIOUS
<1>3. SkipSpaces(txt, i) =
        CHOOSE m \in i..stop : (m = stop \/ txt[m] # SPACE_CHAR)
                               /\ \A j \in i..(m - 1) : ~(txt[j] # SPACE_CHAR)
  BY Zenon DEF SkipSpaces, FirstFrom
<1> QED
  BY <1>1, <1>2, <1>3

LEMMA WordEndIs ==
  ASSUME NEW txt, NEW n \in Nat, NEW i \in Nat, NEW k \in Nat,
         k \in i..(n + 2), k = n + 2 \/ txt[k] = SPACE_CHAR,
         \A j \in i..(k - 1) : txt[j] # SPACE_CHAR
  PROVE  WordEnd(txt, n, i) = k
<1>1. ASSUME NEW m \in i..(n + 2), m = n + 2 \/ txt[m] = SPACE_CHAR,
             \A j \in i..(m - 1) : ~(txt[j] = SPACE_CHAR)
      PROVE  m = k
  BY <1>1
<1>2. k \in i..(n + 2) /\ (k = n + 2 \/ txt[k] = SPACE_CHAR)
      /\ \A j \in i..(k - 1) : ~(txt[j] = SPACE_CHAR)
  OBVIOUS
<1>3. WordEnd(txt, n, i) =
        CHOOSE m \in i..(n + 2) : (m = n + 2 \/ txt[m] = SPACE_CHAR)
                               /\ \A j \in i..(m - 1) : ~(txt[j] = SPACE_CHAR)
  BY Zenon DEF WordEnd, FirstFrom
<1> QED
  BY <1>1, <1>2, <1>3

\* The name ends at the NUL, if there is one in the word.
LEMMA NameEndIs ==
  ASSUME NEW txt, NEW stop \in Nat, NEW i \in Nat, NEW k \in Nat,
         k \in i..stop, k = stop \/ txt[k] = NUL,
         \A j \in i..(k - 1) : txt[j] # NUL
  PROVE  NameEnd(txt, i, stop) = k
<1>1. ASSUME NEW m \in i..stop, m = stop \/ txt[m] = NUL,
             \A j \in i..(m - 1) : ~(txt[j] = NUL)
      PROVE  m = k
  BY <1>1
<1>2. k \in i..stop /\ (k = stop \/ txt[k] = NUL)
      /\ \A j \in i..(k - 1) : ~(txt[j] = NUL)
  OBVIOUS
<1>3. NameEnd(txt, i, stop) =
        CHOOSE m \in i..stop : (m = stop \/ txt[m] = NUL)
                               /\ \A j \in i..(m - 1) : ~(txt[j] = NUL)
  BY Zenon DEF NameEnd, FirstFrom
<1> QED
  BY <1>1, <1>2, <1>3

\* A space is a byte, and NUL is none.
LEMMA SpaceIsNotNul == SPACE_CHAR \in Bytes /\ NUL \notin Bytes /\ SPACE_CHAR # NUL
BY ArgumentsAssumption

\* parse_arguments finds the word, whatever the byte after the NUL is, and what
\* follows it; only the length it counts differs where the word is the last.
LEMMA ParsedIs ==
  ASSUME NEW s \in Seq(Bytes), NEW after \in Bytes \cup {NUL}, NEW leftover,
         NEW a \in Nat, NEW b \in Nat, NEW c \in Nat, Parts(s, a, b, c)
  PROVE  /\ Parsed(s, after, leftover).ok
              <=> WordFits(a, IF b <= Len(s) THEN b ELSE Len(s) + 2)
         /\ Parsed(s, after, leftover).name = SubSeq(s, a, b - 1)
         /\ b <= Len(s) => Parsed(s, after, leftover).arguments = SubSeq(s, c, Len(s))
         /\ b > Len(s) => Parsed(s, after, leftover).arguments \in {leftover, <<>>}
<1>1. PICK n \in Nat : n = Len(s)
  OBVIOUS
<1>2. /\ a \in 1..n /\ b \in (a + 1)..(n + 1) /\ c \in b..(n + 1)
      /\ \A i \in 1..(a - 1) : s[i] = SPACE_CHAR
      /\ \A i \in a..(b - 1) : s[i] # SPACE_CHAR
      /\ \A i \in b..(c - 1) : s[i] = SPACE_CHAR
      /\ c <= n => b < c /\ s[c] # SPACE_CHAR
  BY <1>1 DEF Parts
<1>3. PICK txt : txt = s \o <<NUL, after>>
  OBVIOUS
<1>4. /\ Len(txt) = n + 2 /\ \A i \in 1..n : txt[i] = s[i]
      /\ txt[n + 1] = NUL /\ txt[n + 2] = after
  BY <1>1, <1>3, TextIs
<1>5. SkipSpaces(txt, 1) = a
  <2>1. a \in 1..(n + 3) /\ txt[a] # SPACE_CHAR
    BY <1>2, <1>4
  <2>2. ASSUME NEW j \in 1..(a - 1) PROVE txt[j] = SPACE_CHAR
    BY <1>2, <1>4
  <2>3. PICK stop \in Nat : stop = n + 3 /\ stop = Len(txt) + 1
    BY <1>4
  <2> QED
    BY <2>1, <2>2, <2>3, SkipSpacesIs
<1>6. PICK e \in Nat : e = IF b <= n THEN b ELSE n + 2
  OBVIOUS
<1>7. WordEnd(txt, n, a) = e
  <2>1. CASE b <= n
    <3>1. e = b /\ b \in a..(n + 2) /\ s[b] = SPACE_CHAR
      BY <1>2, <1>6, <2>1
    <3>2. txt[b] = SPACE_CHAR
      BY <1>2, <1>4, <2>1, <3>1
    <3>3. ASSUME NEW j \in a..(b - 1) PROVE txt[j] # SPACE_CHAR
      BY <1>2, <1>4, <2>1
    <3> QED
      BY <3>1, <3>2, <3>3, WordEndIs
  <2>2. CASE ~(b <= n)
    <3>1. e = n + 2 /\ b = n + 1 /\ e \in a..(n + 2)
      BY <1>2, <1>6, <2>2
    <3>2. ASSUME NEW j \in a..(e - 1) PROVE txt[j] # SPACE_CHAR
      <4>1. j \in a..n \/ j = n + 1
        BY <3>1
      <4>2. CASE j \in a..n
        BY <1>2, <1>4, <3>1, <4>2
      <4>3. CASE j = n + 1
        BY <1>4, <4>3, SpaceIsNotNul
      <4> QED
        BY <4>1, <4>2, <4>3
    <3> QED
      BY <3>1, <3>2, WordEndIs
  <2> QED
    BY <2>1, <2>2
<1>8. NameEnd(txt, a, e) = b
  <2>1. b \in a..e /\ (b = e \/ txt[b] = NUL)
    BY <1>2, <1>4, <1>6
  <2>2. ASSUME NEW j \in a..(b - 1) PROVE txt[j] # NUL
    <3>1. j \in 1..n
      BY <1>2
    <3>2. s[j] \in Bytes
      BY <1>1, <3>1
    <3> QED
      BY <1>4, <3>1, <3>2, SpaceIsNotNul
  <2> QED
    BY <2>1, <2>2, NameEndIs
<1>9. SubSeq(txt, a, b - 1) = SubSeq(s, a, b - 1)
  <2>1. PICK S : S = Bytes \cup {NUL, after}
    OBVIOUS
  <2>2. s \in Seq(S) /\ <<NUL, after>> \in Seq(S)
    BY <2>1
  <2>3. txt \in Seq(S)
    BY <1>3, <2>2, ConcatProperties
  <2>4. /\ SubSeq(txt, a, b - 1) \in Seq(S) /\ Len(SubSeq(txt, a, b - 1)) = b - a
        /\ \A i \in 1..(b - a) : SubSeq(txt, a, b - 1)[i] = txt[a + i - 1]
    <3>1. a \in 1..(Len(txt) + 1) /\ b \in a..(Len(txt) + 1)
      BY <1>2, <1>4
    <3> QED
      BY <2>3, <3>1, Part
  <2>5. /\ SubSeq(s, a, b - 1) \in Seq(S) /\ Len(SubSeq(s, a, b - 1)) = b - a
        /\ \A i \in 1..(b - a) : SubSeq(s, a, b - 1)[i] = s[a + i - 1]
    <3>1. a \in 1..(Len(s) + 1) /\ b \in a..(Len(s) + 1)
      BY <1>1, <1>2
    <3> QED
      BY <2>2, <3>1, Part
  <2>6. PICK x \in Seq(S), y \in Seq(S) : x = SubSeq(txt, a, b - 1) /\ y = SubSeq(s, a, b - 1)
    BY <2>4, <2>5
  <2>7. ASSUME NEW i \in 1..(b - a) PROVE x[i] = y[i]
    <3>1. PICK j \in 1..n : j = a + i - 1
      BY <1>2
    <3>2. x[i] = txt[j] /\ y[i] = s[j]
      BY <2>4, <2>5, <2>6, <3>1
    <3> QED
      BY <1>4, <3>2
  <2>8. x = y
    BY <2>4, <2>5, <2>6, <2>7, SeqEqual
  <2> QED
    BY <2>6, <2>8
<1>10. b <= n => txt[e] = SPACE_CHAR /\ SkipSpaces(txt, e) = c
  <2>1. SUFFICES ASSUME b <= n PROVE txt[e] = SPACE_CHAR /\ SkipSpaces(txt, e) = c
    OBVIOUS
  <2>2. e = b /\ s[b] = SPACE_CHAR /\ txt[b] = s[b]
    BY <1>2, <1>4, <1>6, <2>1
  <2>3. PICK stop \in Nat : stop = n + 3 /\ stop = Len(txt) + 1
    BY <1>4
  <2>4. c \in b..stop /\ txt[c] # SPACE_CHAR
    <3>1. CASE c <= n
      BY <1>2, <1>4, <2>3, <3>1
    <3>2. CASE c = n + 1
      BY <1>2, <1>4, <2>3, <3>2, SpaceIsNotNul
    <3>3. c <= n \/ c = n + 1
      BY <1>2
    <3> QED
      BY <3>1, <3>2, <3>3
  <2>5. ASSUME NEW j \in b..(c - 1) PROVE txt[j] = SPACE_CHAR
    <3>1. j \in 1..n
      BY <1>2
    <3>2. s[j] = SPACE_CHAR
      BY <1>2
    <3> QED
      BY <1>4, <3>1, <3>2
  <2>6. SkipSpaces(txt, b) = c
    BY <2>3, <2>4, <2>5, SkipSpacesIs
  <2> QED
    BY <2>2, <2>6
<1>11. Parsed(s, after, leftover) =
         [ok |-> WordFits(a, e),
          name |-> SubSeq(txt, a, NameEnd(txt, a, e) - 1),
          arguments |-> IF txt[e] = SPACE_CHAR
                        THEN SubSeq(s, SkipSpaces(txt, e), Len(s)) ELSE leftover]
  BY <1>1, <1>3, <1>5, <1>7, Zenon DEF Parsed
<1>12. Parsed(s, after, leftover) =
         [ok |-> WordFits(a, e),
          name |-> SubSeq(s, a, b - 1),
          arguments |-> IF txt[e] = SPACE_CHAR
                        THEN SubSeq(s, SkipSpaces(txt, e), Len(s)) ELSE leftover]
  BY <1>8, <1>9, <1>11, Zenon
<1>13. b > n /\ txt[e] = SPACE_CHAR => SubSeq(s, SkipSpaces(txt, e), Len(s)) = <<>>
  <2>1. SUFFICES ASSUME b > n, txt[e] = SPACE_CHAR
                 PROVE  SubSeq(s, SkipSpaces(txt, e), Len(s)) = <<>>
    OBVIOUS
  <2>2. PICK stop \in Nat : stop = n + 3 /\ stop = Len(txt) + 1
    BY <1>4
  <2>3. e = n + 2 /\ stop \in e..stop
    BY <1>6, <2>1, <2>2
  <2>4. ASSUME NEW j \in e..(stop - 1) PROVE txt[j] = SPACE_CHAR
    <3>1. j = e
      BY <2>2, <2>3
    <3> QED
      BY <2>1, <3>1
  <2>5. SkipSpaces(txt, e) = stop
    BY <2>2, <2>3, <2>4, SkipSpacesIs
  <2>6. PICK rest : rest = SubSeq(s, stop, n)
    OBVIOUS
  <2>7. rest \in Seq(Bytes) /\ Len(rest) = 0
    <3>1. stop \in Int /\ n \in Int /\ stop > n /\ \A i \in stop..n : s[i] \in Bytes
      BY <2>2
    <3> QED
      BY <2>6, <3>1, SubSeqProperties
  <2> QED
    BY <1>1, <2>5, <2>6, <2>7, EmptySeq
<1>14. b > n => Parsed(s, after, leftover).arguments \in {leftover, <<>>}
  BY <1>12, <1>13
<1> QED
  BY <1>1, <1>6, <1>10, <1>12, <1>14

\* Of a command of spaces alone it makes the empty name.
LEMMA ParsedOfSpaces ==
  ASSUME NEW s \in Seq(Bytes), NEW after \in Bytes \cup {NUL}, NEW leftover,
         \A i \in 1..Len(s) : s[i] = SPACE_CHAR
  PROVE  Parsed(s, after, leftover).name = <<>>
<1>1. PICK n \in Nat : n = Len(s)
  OBVIOUS
<1>2. PICK txt : txt = s \o <<NUL, after>>
  OBVIOUS
<1>3. /\ Len(txt) = n + 2 /\ \A i \in 1..n : txt[i] = s[i]
      /\ txt[n + 1] = NUL /\ txt[n + 2] = after
  BY <1>1, <1>2, TextIs
<1>4. PICK a \in Nat, e \in Nat : a = n + 1 /\ e = n + 2
  OBVIOUS
<1>5. SkipSpaces(txt, 1) = a
  <2>1. PICK stop \in Nat : stop = n + 3 /\ stop = Len(txt) + 1
    BY <1>3
  <2>2. a \in 1..stop /\ txt[a] # SPACE_CHAR
    BY <1>3, <1>4, <2>1, SpaceIsNotNul
  <2>3. ASSUME NEW j \in 1..(a - 1) PROVE txt[j] = SPACE_CHAR
    BY <1>1, <1>3, <1>4
  <2> QED
    BY <2>1, <2>2, <2>3, SkipSpacesIs
<1>6. WordEnd(txt, n, a) = e
  <2>1. e \in a..(n + 2) /\ e = n + 2
    BY <1>4
  <2>2. ASSUME NEW j \in a..(e - 1) PROVE txt[j] # SPACE_CHAR
    BY <1>3, <1>4, SpaceIsNotNul
  <2> QED
    BY <2>1, <2>2, WordEndIs
<1>7. NameEnd(txt, a, e) = a
  <2>1. a \in a..e /\ txt[a] = NUL
    BY <1>3, <1>4
  <2>2. ASSUME NEW j \in a..(a - 1) PROVE txt[j] # NUL
    OBVIOUS
  <2> QED
    BY <2>1, <2>2, NameEndIs
<1>8. Parsed(s, after, leftover) =
         [ok |-> WordFits(a, e),
          name |-> SubSeq(txt, a, NameEnd(txt, a, e) - 1),
          arguments |-> IF txt[e] = SPACE_CHAR
                        THEN SubSeq(s, SkipSpaces(txt, e), Len(s)) ELSE leftover]
  BY <1>1, <1>2, <1>5, <1>6, Zenon DEF Parsed
<1>9. Parsed(s, after, leftover).name = SubSeq(txt, a, a - 1)
  BY <1>7, <1>8
<1>10. SubSeq(txt, a, a - 1) = <<>>
  <2>1. PICK S : S = Bytes \cup {NUL, after}
    OBVIOUS
  <2>2. s \in Seq(S) /\ <<NUL, after>> \in Seq(S)
    BY <2>1
  <2>3. txt \in Seq(S)
    BY <1>2, <2>2, ConcatProperties
  <2>4. SubSeq(txt, a, a - 1) \in Seq(S) /\ Len(SubSeq(txt, a, a - 1)) = a - a
    <3>1. a \in 1..(Len(txt) + 1) /\ a \in a..(Len(txt) + 1)
      BY <1>3, <1>4
    <3> QED
      BY <2>3, <3>1, Part
  <2>5. PICK x \in Seq(S) : x = SubSeq(txt, a, a - 1) /\ Len(x) = 0
    <3>1. PICK x \in Seq(S) : x = SubSeq(txt, a, a - 1)
      BY <2>4
    <3>2. Len(x) = a - a
      BY <2>4, <3>1
    <3>3. Len(x) = 0
      BY <3>2
    <3> QED
      BY <3>1, <3>3
  <2> QED
    BY <2>5, EmptySeq
<1> QED
  BY <1>9, <1>10

\* There is one way to split a command with a word in it, and none otherwise.
LEMMA OneSplit ==
  ASSUME NEW s \in Seq(Bytes), NEW a \in Nat, NEW b \in Nat, NEW c \in Nat, Parts(s, a, b, c)
  PROVE  Words(s) = {SubSeq(s, a, b - 1)} /\ Rests(s) = {SubSeq(s, c, Len(s))}
<1>1. PICK one : one = <<SubSeq(s, a, b - 1), SubSeq(s, c, Len(s))>>
  OBVIOUS
<1>2. one \in Splits(s)
  BY <1>1, PartsAreSplit
<1>3. ASSUME NEW split \in Splits(s) PROVE split = one
  <2>1. PICK x \in Nat, y \in Nat, z \in Nat :
          Parts(s, x, y, z) /\ split = <<SubSeq(s, x, y - 1), SubSeq(s, z, Len(s))>>
    BY SplitsAreParts
  <2>2. x = a /\ y = b /\ z = c
    BY <2>1, PartsAgree
  <2> QED
    BY <1>1, <2>1, <2>2
<1>4. Splits(s) = {one}
  BY <1>2, <1>3
<1>5. Words(s) = {one[1]} /\ Rests(s) = {one[2]}
  BY <1>4 DEF Words, Rests
<1> QED
  BY <1>1, <1>5

\* The condition under which a word of a command starts a program.
AcceptedIn(s, word) ==
  /\ word \in Programs
  /\ Len(word) < FILE_NAME_SIZE \/ s[Len(s)] = SPACE_CHAR \/ Rests(s) # {<<>>}

\* What parse_arguments and the search for the file make of a command is what its
\* definition says.
LEMMA ParsedIsSplit ==
  ASSUME NEW s \in Seq(Bytes), NEW after \in Bytes \cup {NUL}, NEW leftover,
         NEW parsed, parsed = Parsed(s, after, leftover)
  PROVE  IF parsed.ok /\ parsed.name \in Programs
         THEN /\ Words(s) = {parsed.name}
              /\ \A rest \in Rests(s) :
                   \/ parsed.arguments = rest
                   \/ rest = <<>> /\ parsed.arguments = leftover
         ELSE \A word \in Words(s) : ~AcceptedIn(s, word)
<1>1. PICK n \in Nat : n = Len(s)
  OBVIOUS
<1>2. CASE \A i \in 1..n : s[i] = SPACE_CHAR
  <2>1. parsed.name = <<>> /\ <<>> \notin Programs
    BY <1>1, <1>2, ParsedOfSpaces, ArgumentsAssumption
  <2>2. Words(s) = {}
    <3>1. ASSUME NEW split \in Splits(s) PROVE FALSE
      <4>1. PICK x \in Nat, y \in Nat, z \in Nat : Parts(s, x, y, z)
        BY SplitsAreParts
      <4>2. x \in 1..n /\ x \in x..(y - 1) /\ \A i \in x..(y - 1) : s[i] # SPACE_CHAR
        BY <1>1, <4>1 DEF Parts
      <4> QED
        BY <1>2, <4>2
    <3> QED
      BY <3>1 DEF Words
  <2> QED
    BY <2>1, <2>2
<1>3. CASE ~\A i \in 1..n : s[i] = SPACE_CHAR
  <2>1. PICK a \in Nat, b \in Nat, c \in Nat : Parts(s, a, b, c)
    BY <1>1, <1>3, PartsExist
  <2>2. PICK word, rest : word = SubSeq(s, a, b - 1) /\ rest = SubSeq(s, c, Len(s))
    OBVIOUS
  <2>3. Words(s) = {word} /\ Rests(s) = {rest}
    BY <2>1, <2>2, OneSplit
  <2>4. /\ parsed.ok <=> WordFits(a, IF b <= n THEN b ELSE n + 2)
        /\ parsed.name = word
        /\ b <= n => parsed.arguments = rest
        /\ b > n => parsed.arguments \in {leftover, <<>>}
    <3>1. /\ Parsed(s, after, leftover).ok
               <=> WordFits(a, IF b <= Len(s) THEN b ELSE Len(s) + 2)
          /\ Parsed(s, after, leftover).name = SubSeq(s, a, b - 1)
          /\ b <= Len(s) => Parsed(s, after, leftover).arguments = SubSeq(s, c, Len(s))
          /\ b > Len(s) => Parsed(s, after, leftover).arguments \in {leftover, <<>>}
      BY <2>1, ParsedIs
    <3> QED
      BY <1>1, <2>2, <3>1, Zenon
  <2>5. /\ a \in 1..n /\ b \in (a + 1)..(n + 1) /\ c \in b..(n + 1)
        /\ \A i \in a..(b - 1) : s[i] # SPACE_CHAR
        /\ c <= n => b < c
    BY <1>1, <2>1 DEF Parts
  <2>6. rest # <<>> => c <= n
    <3>1. SUFFICES ASSUME c = n + 1 PROVE rest = <<>>
      BY <2>5
    <3>2. SubSeq(s, c, c - 1) \in Seq(Bytes) /\ Len(SubSeq(s, c, c - 1)) = c - c
      <4>1. c \in 1..(Len(s) + 1) /\ c \in c..(Len(s) + 1)
        BY <1>1, <3>1
      <4> QED
        BY <4>1, Part
    <3>3. c - 1 = Len(s)
      BY <1>1, <3>1
    <3>4. rest \in Seq(Bytes) /\ Len(rest) = 0
      BY <2>2, <3>2, <3>3
    <3> QED
      BY <3>4, EmptySeq
  <2>7. Len(word) = b - a
    <3>1. a \in 1..(Len(s) + 1) /\ b \in a..(Len(s) + 1)
      BY <1>1, <2>5
    <3> QED
      BY <2>2, <3>1, Part
  <2>8. CASE parsed.ok /\ parsed.name \in Programs
    <3>1. CASE b <= n
      BY <2>3, <2>4, <2>8, <3>1
    <3>2. CASE b > n
      <4>1. rest = <<>>
        BY <2>5, <2>6, <3>2
      <4>2. parsed.arguments = rest \/ (rest = <<>> /\ parsed.arguments = leftover)
        BY <2>4, <3>2, <4>1
      <4> QED
        BY <2>3, <2>4, <2>8, <4>2
    <3> QED
      BY <2>5, <3>1, <3>2
  <2>9. CASE ~(parsed.ok /\ parsed.name \in Programs)
    <3>1. SUFFICES ASSUME AcceptedIn(s, word) PROVE FALSE
      BY <2>3, <2>9
    <3>2. word \in Programs /\ ~parsed.ok /\ FILE_NAME_SIZE \in Nat
      BY <2>4, <2>9, <3>1, ArgumentsAssumption DEF AcceptedIn
    <3>3. b - a <= FILE_NAME_SIZE
      BY <2>7, <3>2, ProgramIsSeq
    <3>4. ~(b <= n) /\ n + 2 - a > FILE_NAME_SIZE
      <4>1. ~WordFits(a, IF b <= n THEN b ELSE n + 2)
        BY <2>4, <3>2, Zenon
      <4>2. ~((IF b <= n THEN b ELSE n + 2) - a <= FILE_NAME_SIZE)
        BY <4>1, Zenon DEF WordFits
      <4> QED
        BY <2>5, <3>2, <3>3, <4>2
    <3>5. b = n + 1 /\ ~(Len(word) < FILE_NAME_SIZE)
      BY <2>5, <2>7, <3>2, <3>4
    <3>6. s[n] # SPACE_CHAR
      BY <2>5, <3>5
    <3>7. rest = <<>>
      BY <2>5, <2>6, <3>5
    <3> QED
      BY <1>1, <2>3, <3>1, <3>5, <3>6, <3>7 DEF AcceptedIn
  <2> QED
    BY <2>8, <2>9
<1> QED
  BY <1>2, <1>3

-----------------------------------------------------------------------------
(* The invariant of the process control block.                             *)

\* What is known of the command that came last and of what is kept of it.
KeepsWord ==
  \A s : s = command =>
    /\ status = "runs" => Words(s) = {name}
    /\ status = "refused" => \A word \in Words(s) : ~AcceptedIn(s, word)
KeepsArguments ==
  \A s : s = command =>
    /\ s \in Seq(Bytes)
    /\ status = "runs" => \A rest \in Rests(s) :
                             arguments = rest \/ (rest = <<>> /\ arguments \in Leftovers)
    /\ status # "runs" => answer = "none"
Answers ==
  answer # "none" => IF GetargsRefuses THEN answer = "refused"
                                       ELSE answer = "given" /\ buf = arguments
CommandInv == KeepsWord /\ KeepsArguments /\ Answers

LEMMA CommandHolds ==
  ASSUME CommandInv
  PROVE  RunsFirstWord /\ GivesOwnArguments
<1>1. RunsFirstWord
  BY DEF CommandInv, KeepsWord, RunsFirstWord, Accepted, AcceptedIn
<1>2. GivesOwnArguments
  <2>1. SUFFICES ASSUME answer # "none", NEW rest \in Rests(command)
                 PROVE  IF \/ Len(rest) > MAX_FILE_NAME_LENGTH
                           \/ Len(rest) = FOUR /\ Head(rest) = MAX
                        THEN answer = "refused"
                        ELSE IF rest = <<>> THEN answer = "refused" \/ buf \in Leftovers
                        ELSE answer = "given" /\ buf = rest
    BY DEF GivesOwnArguments
  <2>2. /\ status = "runs" /\ command \in Seq(Bytes)
        /\ arguments = rest \/ (rest = <<>> /\ arguments \in Leftovers)
    BY <2>1 DEF CommandInv, KeepsArguments
  <2>3. rest \in Seq(Bytes) /\ Len(rest) \in Nat
    <3>1. PICK split \in Splits(command) : rest = split[2]
      BY DEF Rests
    <3>2. PICK a \in Nat, b \in Nat, c \in Nat :
            Parts(command, a, b, c)
            /\ split = <<SubSeq(command, a, b - 1), SubSeq(command, c, Len(command))>>
      BY <2>2, SplitsAreParts
    <3>3. PICK s \in Seq(Bytes) : s = command
      BY <2>2
    <3>4. SubSeq(s, c, Len(s)) \in Seq(Bytes)
      <4>1. c \in Int /\ Len(s) \in Int /\ \A i \in c..Len(s) : s[i] \in Bytes
        BY <3>2, <3>3 DEF Parts
      <4> QED
        BY <4>1, SubSeqProperties
    <3>5. rest \in Seq(Bytes)
      BY <3>1, <3>2, <3>3, <3>4
    <3> QED
      BY <3>5
  <2>4. MAX_FILE_NAME_LENGTH \in Nat /\ FOUR \in Nat \ {0}
    BY ArgumentsAssumption
  <2>5. IF GetargsRefuses THEN answer = "refused" ELSE answer = "given" /\ buf = arguments
    BY <2>1 DEF CommandInv, Answers
  <2>6. CASE rest = <<>>
    <3>1. Len(rest) = 0
      BY <2>6
    <3>2. ~(\/ Len(rest) > MAX_FILE_NAME_LENGTH
            \/ Len(rest) = FOUR /\ Head(rest) = MAX)
      BY <2>4, <3>1
    <3>3. arguments = rest => GetargsRefuses
      BY <3>1 DEF GetargsRefuses, LengthFits
    <3>4. answer = "refused" \/ buf \in Leftovers
      BY <2>2, <2>5, <3>3
    <3> QED
      BY <2>6, <3>2, <3>4
  <2>7. CASE rest # <<>>
    <3>1. Len(rest) > 0
      BY <2>3, <2>7, EmptySeq
    <3>2. arguments = rest
      BY <2>2, <2>7
    <3>3. GetargsRefuses <=> \/ Len(rest) > MAX_FILE_NAME_LENGTH
                             \/ Len(rest) = FOUR /\ Head(rest) = MAX
      BY <2>3, <2>4, <3>1, <3>2 DEF GetargsRefuses, LengthFits
    <3> QED
      BY <2>5, <2>7, <3>2, <3>3
  <2> QED
    BY <2>6, <2>7
<1> QED
  BY <1>1, <1>2

LEMMA CommandStarts ==
  ASSUME Init
  PROVE  CommandInv
<1>1. KeepsWord
  BY DEF Init, KeepsWord
<1>2. KeepsArguments
  BY DEF Init, KeepsArguments
<1>3. Answers
  BY DEF Init, Answers
<1> QED
  BY <1>1, <1>2, <1>3 DEF CommandInv

LEMMA HaltForgets ==
  ASSUME Halt
  PROVE  CommandInv'
<1>1. KeepsWord'
  BY DEF Halt, KeepsWord
<1>2. KeepsArguments'
  BY DEF Halt, KeepsArguments
<1>3. Answers'
  BY DEF Halt, Answers
<1> QED
  BY <1>1, <1>2, <1>3 DEF CommandInv

LEMMA ExecuteKeeps ==
  ASSUME NEW s \in Commands, CommandInv, Execute(s)
  PROVE  CommandInv'
<1>1. PICK after \in Bytes \cup {NUL}, leftover \in Leftovers :
        /\ status = "waits" /\ command' = s
        /\ IF Parsed(s, after, leftover).ok /\ Parsed(s, after, leftover).name \in Programs
           THEN /\ status' = "runs" /\ name' = Parsed(s, after, leftover).name
                /\ arguments' = Parsed(s, after, leftover).arguments
           ELSE status' = "refused" /\ UNCHANGED <<name, arguments>>
        /\ UNCHANGED <<answer, buf>>
  BY Zenon DEF Execute
<1>2. PICK parsed : parsed = Parsed(s, after, leftover)
  OBVIOUS
<1>3. s \in Seq(Bytes)
  BY CommandIsSeq
<1>4. IF parsed.ok /\ parsed.name \in Programs
      THEN /\ Words(s) = {parsed.name}
           /\ \A rest \in Rests(s) :
                \/ parsed.arguments = rest
                \/ rest = <<>> /\ parsed.arguments = leftover
      ELSE \A word \in Words(s) : ~AcceptedIn(s, word)
  BY <1>2, <1>3, ParsedIsSplit
<1>5. answer' = "none"
  <2>1. status # "runs"
    BY <1>1
  <2> QED
    BY <1>1, <2>1 DEF CommandInv, KeepsArguments
<1>6. IF parsed.ok /\ parsed.name \in Programs
      THEN status' = "runs" /\ name' = parsed.name /\ arguments' = parsed.arguments
      ELSE status' = "refused"
  BY <1>1, <1>2
<1>7. KeepsWord'
  BY <1>1, <1>4, <1>6 DEF KeepsWord
<1>8. KeepsArguments'
  BY <1>1, <1>3, <1>4, <1>5, <1>6 DEF KeepsArguments
<1>9. Answers'
  BY <1>5 DEF Answers
<1> QED
  BY <1>7, <1>8, <1>9 DEF CommandInv

LEMMA GetargsKeeps ==
  ASSUME CommandInv, Getargs
  PROVE  CommandInv'
<1>1. KeepsWord'
  BY DEF CommandInv, KeepsWord, Getargs
<1>2. KeepsArguments'
  BY DEF CommandInv, KeepsArguments, Getargs
<1>3. Answers'
  BY DEF Answers, Getargs, GetargsRefuses
<1> QED
  BY <1>1, <1>2, <1>3 DEF CommandInv

LEMMA CommandSame ==
  ASSUME CommandInv, UNCHANGED commandVars
  PROVE  CommandInv'
<1>1. KeepsWord'
  BY DEF CommandInv, KeepsWord, commandVars
<1>2. KeepsArguments'
  BY DEF CommandInv, KeepsArguments, commandVars
<1>3. Answers'
  BY DEF CommandInv, Answers, GetargsRefuses, commandVars
<1> QED
  BY <1>1, <1>2, <1>3 DEF CommandInv

LEMMA CommandStep ==
  ASSUME CommandInv, [GrepNext]_<<commandVars, grepVars>>
  PROVE  CommandInv'
<1>1. ASSUME NEW s \in Commands, Execute(s) PROVE CommandInv'
  BY <1>1, ExecuteKeeps
<1>2. CASE Getargs
  BY <1>2, GetargsKeeps
<1>3. CASE Halt
  BY <1>3, HaltForgets
<1>4. CASE Search
  <2>1. CASE Return
    BY <2>1, HaltForgets DEF Return
  <2>2. CASE Start
    BY <2>2, CommandSame DEF Start
  <2>3. CASE Read
    BY <2>3, CommandSame DEF Read
  <2>4. CASE KeepLine
    BY <2>4, CommandSame DEF KeepLine
  <2>5. CASE SearchLine
    BY <2>5, CommandSame DEF SearchLine
  <2>6. CASE ReadFails
    BY <2>6, CommandSame DEF ReadFails
  <2> QED
    BY <1>4, <2>1, <2>2, <2>3, <2>4, <2>5, <2>6 DEF Search
<1>5. CASE UNCHANGED <<commandVars, grepVars>>
  BY <1>5, CommandSame
<1> QED
  BY <1>1, <1>2, <1>3, <1>4, <1>5 DEF GrepNext

LEMMA CommandAlways == GrepSpec => []CommandInv
<1>1. GrepInit => CommandInv
  BY CommandStarts DEF GrepInit
<1>2. CommandInv /\ [GrepNext]_<<commandVars, grepVars>> => CommandInv'
  BY CommandStep
<1> QED
  BY <1>1, <1>2, PTL DEF GrepSpec

\* A program that runs is the one the first word of the command names, and a command
\* is refused only if there is none of this name or its word fills the room of a
\* name: parse_arguments and execute_help agree with what syscalls.c says of them.
THEOREM FirstWordRuns == GrepSpec => []RunsFirstWord
BY CommandAlways, CommandHolds, PTL

\* A program called with arguments is given its own, whole, or refused where getargs
\* cannot give them; one called without any is refused or given what the variable of
\* execute_help held before.  initialize_pcb, execute_help and getargs add nothing.
THEOREM ArgumentsAreOwn == GrepSpec => []GivesOwnArguments
BY CommandAlways, CommandHolds, PTL

-----------------------------------------------------------------------------
(* The lines of a text, by the definitions of Grep for any text.           *)

TextBytes == Bytes \cup {NUL, NEWLINE}
StartsIn(t) == {i \in DOMAIN t : i = 1 \/ t[i - 1] = NEWLINE}
EndIn(t, i) ==
  CHOOSE k \in i..(Len(t) + 1) : /\ k = Len(t) + 1 \/ t[k] = NEWLINE
                                 /\ \A n \in i..(k - 1) : t[n] # NEWLINE
LineIn(t, i) == SubSeq(t, i, EndIn(t, i) - 1)
MatchIn(b, t) == {i \in StartsIn(t) : Occurs(b, LineIn(t, i))}
FitsIn(t) == /\ \A i \in StartsIn(t) : Len(LineIn(t, i)) < BUFSIZE
             /\ Len(t) <= BLOCK /\ \A i \in DOMAIN t : t[i] # NUL
RankIn(M, i) == Cardinality({k \in M : k <= i})

LEMMA SameLines ==
  /\ FitBuffer /\ OneBlockOfText <=> FitsIn(text)
  /\ Matching = MatchIn(buf, text)
  /\ \A i : LineAt(i) = LineIn(text, i) /\ Rank(i) = RankIn(MatchIn(buf, text), i)
<1>1. Starts = StartsIn(text)
  BY Zenon DEF Starts, StartsIn
<1>2. ASSUME NEW i PROVE LineAt(i) = LineIn(text, i)
  BY Zenon DEF LineAt, LineIn, EndIn
<1>3. Matching = MatchIn(buf, text)
  BY <1>1, <1>2 DEF Matching, MatchIn
<1>4. FitBuffer /\ OneBlockOfText <=> FitsIn(text)
  BY <1>1, <1>2, Zenon DEF FitBuffer, OneBlockOfText, FitsIn
<1>5. ASSUME NEW i PROVE Rank(i) = RankIn(MatchIn(buf, text), i)
  BY <1>3, Zenon DEF Rank, RankIn
<1> QED
  BY <1>2, <1>3, <1>4, <1>5

\* The line from p on ends before e.
Ends(t, p, e) ==
  /\ p \in 1..Len(t) /\ e \in p..(Len(t) + 1)
  /\ e = Len(t) + 1 \/ t[e] = NEWLINE
  /\ \A n \in p..(e - 1) : t[n] # NEWLINE

\* Without a NUL a string is copied and printed to its end.
LEMMA WholeWithoutNul ==
  ASSUME NEW s \in Seq(TextBytes), \A i \in 1..Len(s) : s[i] # NUL
  PROVE  UpToNul(s) = s
<1>1. PICK n \in Nat, k \in Nat : n = Len(s) /\ k = n + 1
  OBVIOUS
<1>2. k \in 1..k /\ \A j \in 1..(k - 1) : s[j] # NUL
  BY <1>1
<1>3. NameEnd(s, 1, k) = k
  BY <1>2, NameEndIs
<1>4. UpToNul(s) = SubSeq(s, 1, k - 1)
  BY <1>1, <1>3, Zenon DEF UpToNul
<1>5. k - 1 = Len(s)
  BY <1>1
<1> QED
  BY <1>4, <1>5

LEMMA LineFound ==
  ASSUME NEW t \in Seq(TextBytes), NEW p \in Nat, NEW e \in Nat, Ends(t, p, e)
  PROVE  /\ LineIn(t, p) = SubSeq(t, p, e - 1)
         /\ LineIn(t, p) \in Seq(TextBytes) /\ Len(LineIn(t, p)) = e - p
         /\ \A i \in 1..(e - p) : LineIn(t, p)[i] = t[p + i - 1]
<1>1. PICK n \in Nat : n = Len(t)
  OBVIOUS
<1>2. /\ p \in 1..n /\ e \in p..(n + 1) /\ (e = n + 1 \/ t[e] = NEWLINE)
      /\ \A i \in p..(e - 1) : t[i] # NEWLINE
  BY <1>1 DEF Ends
<1>3. ASSUME NEW k \in p..(n + 1), k = n + 1 \/ t[k] = NEWLINE,
             \A i \in p..(k - 1) : t[i] # NEWLINE
      PROVE  k = e
  BY <1>2, <1>3
<1>4. EndIn(t, p) = CHOOSE k \in p..(n + 1) : /\ k = n + 1 \/ t[k] = NEWLINE
                                              /\ \A i \in p..(k - 1) : t[i] # NEWLINE
  BY <1>1, Zenon DEF EndIn
<1>5. EndIn(t, p) = e
  BY <1>2, <1>3, <1>4
<1>6. LineIn(t, p) = SubSeq(t, p, e - 1)
  BY <1>5, Zenon DEF LineIn
<1>7. /\ SubSeq(t, p, e - 1) \in Seq(TextBytes) /\ Len(SubSeq(t, p, e - 1)) = e - p
      /\ \A i \in 1..(e - p) : SubSeq(t, p, e - 1)[i] = t[p + i - 1]
  <2>1. p \in 1..(Len(t) + 1) /\ e \in p..(Len(t) + 1)
    BY <1>1, <1>2
  <2> QED
    BY <2>1, Part
<1> QED
  BY <1>6, <1>7

\* What is printed when the lines before p were searched.
ShownTo(sh, b, t, p) ==
  /\ sh \in Seq(Seq(TextBytes))
  /\ Len(sh) = Cardinality({k \in MatchIn(b, t) : k < p})
  /\ \A i \in MatchIn(b, t) : i < p => sh[RankIn(MatchIn(b, t), i)] = LineIn(t, i)

LEMMA MatchesAreFinite ==
  ASSUME NEW t \in Seq(TextBytes), NEW b
  PROVE  /\ MatchIn(b, t) \subseteq 1..Len(t)
         /\ \A S \in SUBSET MatchIn(b, t) : IsFiniteSet(S) /\ Cardinality(S) \in Nat
<1>1. MatchIn(b, t) \subseteq 1..Len(t)
  BY DEF MatchIn, StartsIn
<1>2. IsFiniteSet(1..Len(t))
  <2>1. 1 \in Int /\ Len(t) \in Int
    OBVIOUS
  <2> QED
    BY <2>1, FS_Interval
<1>3. ASSUME NEW S \in SUBSET MatchIn(b, t) PROVE IsFiniteSet(S) /\ Cardinality(S) \in Nat
  <2>1. S \subseteq 1..Len(t)
    BY <1>1
  <2> QED
    BY <1>2, <2>1, FS_Subset, FS_CardinalityType
<1> QED
  BY <1>1, <1>3

\* The search of one line, and the step to the next.
LEMMA ShowsNext ==
  ASSUME NEW t \in Seq(TextBytes), NEW b, NEW sh, NEW p \in Nat, NEW e \in Nat,
         NEW q \in Nat, NEW next,
         ShownTo(sh, b, t, p), Ends(t, p, e), p = 1 \/ t[p - 1] = NEWLINE,
         p < q, q <= e + 1,
         next = IF Occurs(b, LineIn(t, p)) THEN Append(sh, LineIn(t, p)) ELSE sh
  PROVE  ShownTo(next, b, t, q)
<1>1. PICK M : M = MatchIn(b, t)
  OBVIOUS
<1>2. PICK line \in Seq(TextBytes) : line = LineIn(t, p)
  BY LineFound
<1>3. p \in StartsIn(t)
  BY DEF Ends, StartsIn
<1>4. ASSUME NEW i \in StartsIn(t), p < i PROVE ~(i < q)
  <2>1. i \in 1..Len(t) /\ t[i - 1] = NEWLINE
    BY <1>4 DEF StartsIn, Ends
  <2>2. ~(i - 1 \in p..(e - 1))
    BY <2>1 DEF Ends
  <2> QED
    BY <1>4, <2>1, <2>2
<1>5. M \subseteq StartsIn(t) /\ StartsIn(t) \subseteq Nat
  BY <1>1 DEF MatchIn, StartsIn
<1>6. PICK B : B = {k \in M : k < p}
  OBVIOUS
<1>7. /\ sh \in Seq(Seq(TextBytes)) /\ Len(sh) = Cardinality(B)
      /\ \A i \in B : sh[RankIn(M, i)] = LineIn(t, i)
  BY <1>1, <1>6 DEF ShownTo
<1>8. IsFiniteSet(B) /\ Cardinality(B) \in Nat /\ p \notin B
  BY <1>1, <1>5, <1>6, MatchesAreFinite
<1>9. ASSUME NEW i \in B PROVE RankIn(M, i) \in 1..Len(sh)
  <2>1. PICK R : R = {k \in M : k <= i}
    OBVIOUS
  <2>2. R \subseteq B /\ i \in R
    BY <1>5, <1>6, <2>1
  <2>3. Cardinality(R) \in Nat /\ Cardinality(R) <= Cardinality(B)
    BY <1>8, <2>2, FS_Subset, FS_CardinalityType
  <2>4. Cardinality(R) # 0
    BY <1>8, <2>2, FS_Subset, FS_EmptySet
  <2>5. RankIn(M, i) = Cardinality(R)
    BY <2>1, Zenon DEF RankIn
  <2> QED
    BY <1>7, <1>8, <2>3, <2>4, <2>5
<1>10. CASE ~Occurs(b, line)
  <2>1. p \notin M
    BY <1>1, <1>2, <1>10 DEF MatchIn
  <2>2. {k \in M : k < q} = B
    BY <1>4, <1>5, <1>6, <2>1
  <2>3. next = sh
    BY <1>2, <1>10
  <2>4. ASSUME NEW i \in M, i < q PROVE i \in B
    BY <2>2, <2>4
  <2> QED
    BY <1>1, <1>7, <2>2, <2>3, <2>4 DEF ShownTo
<1>11. CASE Occurs(b, line)
  <2>1. p \in M
    BY <1>1, <1>2, <1>3, <1>11 DEF MatchIn
  <2>m. ASSUME NEW k \in M
        PROVE  (k < q <=> k \in B \/ k = p) /\ (k <= p <=> k \in B \/ k = p)
    <3>1. k \in Nat /\ ~(p < k /\ k < q)
      BY <1>4, <1>5
    <3>2. k \in B <=> k < p
      BY <1>6
    <3> QED
      BY <3>1, <3>2
  <2>n. B \subseteq M
    BY <1>6
  <2>2. {k \in M : k < q} = B \cup {p}
    BY <2>1, <2>m, <2>n, Zenon
  <2>3. {k \in M : k <= p} = B \cup {p}
    BY <2>1, <2>m, <2>n, Zenon
  <2>4. Cardinality(B \cup {p}) = Cardinality(B) + 1
    BY <1>8, FS_AddElement
  <2>5. next = Append(sh, line)
    BY <1>2, <1>11
  <2>6. /\ next \in Seq(Seq(TextBytes)) /\ Len(next) = Len(sh) + 1
        /\ \A i \in 1..Len(sh) : next[i] = sh[i]
        /\ next[Len(sh) + 1] = line
    BY <1>7, <2>5, AppendProperties
  <2>7. RankIn(M, p) = Len(sh) + 1
    BY <1>7, <2>3, <2>4, Zenon DEF RankIn
  <2>8. ASSUME NEW i \in M, i < q PROVE next[RankIn(M, i)] = LineIn(t, i)
    <3>1. i \in B \/ i = p
      BY <2>2, <2>8
    <3>2. CASE i \in B
      BY <1>7, <1>9, <2>6, <3>2
    <3>3. CASE i = p
      BY <1>2, <2>6, <2>7, <3>3
    <3> QED
      BY <3>1, <3>2, <3>3
  <2>9. Len(next) = Cardinality({k \in M : k < q})
    BY <1>7, <2>2, <2>4, <2>6
  <2> QED
    BY <1>1, <2>6, <2>8, <2>9 DEF ShownTo
<1> QED
  BY <1>10, <1>11

-----------------------------------------------------------------------------
(* The buffer holds the text from a line on.                               *)

\* From base on the buffer d, l bytes of it in use, holds the text up to pos; base
\* is where a line begins, and the lines before it were searched.
Held(sh, b, t, d, pos, l, base) ==
  /\ t \in Seq(TextBytes)
  /\ pos \in 0..Len(t) /\ l \in 0..BUFSIZE /\ l <= pos /\ base \in 0..l
  /\ d[BUFSIZE] # NEWLINE
  /\ \A i \in base..(l - 1) : d[i] = t[pos - l + i + 1]
  /\ \E p \in Nat : /\ p = pos - l + base + 1
                    /\ p = 1 \/ p = Len(t) + 1 \/ t[p - 1] = NEWLINE
                    /\ ShownTo(sh, b, t, p)

\* A read appends the next part of the text.
LEMMA ReadHolds ==
  ASSUME NEW sh, NEW b, NEW t, NEW d, NEW pos, NEW l, NEW c, NEW d2,
         Held(sh, b, t, d, pos, l, 0), l < BUFSIZE,
         c = IF BUFSIZE - l < Len(t) - pos THEN BUFSIZE - l ELSE Len(t) - pos,
         d2 = [i \in 0..BUFSIZE |->
                IF i \in l..(l + c - 1) THEN t[pos + i - l + 1] ELSE d[i]]
  PROVE  /\ Held(sh, b, t, d2, pos + c, l + c, 0)
         /\ l + c < BUFSIZE => pos + c = Len(t)
         /\ c = 0 => pos + c = Len(t)
<1>1. PICK n \in Nat : n = Len(t)
  BY DEF Held
<1>2. /\ t \in Seq(TextBytes)
      /\ pos \in 0..n /\ l \in 0..BUFSIZE /\ l <= pos /\ d[BUFSIZE] # NEWLINE
      /\ \A i \in 0..(l - 1) : d[i] = t[pos - l + i + 1]
  BY <1>1 DEF Held
<1>3. BUFSIZE \in Nat
  BY GrepAssumption
<1>4. c \in Nat /\ c <= BUFSIZE - l /\ c <= n - pos
  BY <1>1, <1>2, <1>3
<1>5. /\ l + c < BUFSIZE => pos + c = n
      /\ c = 0 => pos + c = n
  BY <1>1, <1>2, <1>3
<1>t. PICK pc \in Nat, lc \in Nat : pc = pos + c /\ lc = l + c
  <2>1. pos \in Nat /\ l \in Nat /\ c \in Nat
    BY <1>2, <1>4
  <2>2. pos + c \in Nat /\ l + c \in Nat
    BY <2>1
  <2> QED
    BY <2>2
<1>s. /\ pc - lc = pos - l /\ pc \in 0..n /\ lc \in 0..BUFSIZE
      /\ lc <= pc /\ 0 \in 0..lc
  BY <1>2, <1>3, <1>4, <1>t
<1>6. PICK p \in Nat : /\ p = pos - l + 1
                       /\ p = 1 \/ p = Len(t) + 1 \/ t[p - 1] = NEWLINE
                       /\ ShownTo(sh, b, t, p)
  <2>1. PICK p \in Nat : /\ p = pos - l + 0 + 1
                         /\ p = 1 \/ p = Len(t) + 1 \/ t[p - 1] = NEWLINE
                         /\ ShownTo(sh, b, t, p)
    BY DEF Held
  <2>2. p = pos - l + 1
    BY <1>2, <2>1
  <2> QED
    BY <2>1, <2>2
<1>7. d2[BUFSIZE] # NEWLINE
  BY <1>2, <1>3, <1>4
<1>8. ASSUME NEW i \in 0..(lc - 1) PROVE d2[i] = t[pc - lc + i + 1]
  <2>1. PICK j : j = pos - l + i + 1
    OBVIOUS
  <2>2. pc - lc + i + 1 = j
    BY <1>s, <2>1
  <2>3. i \in 0..BUFSIZE /\ i \in Nat
    BY <1>s, <1>3
  <2>4. CASE i < l
    <3>1. d2[i] = d[i] /\ i \in 0..(l - 1)
      BY <1>2, <1>4, <2>3, <2>4
    <3> QED
      BY <1>2, <2>1, <2>2, <3>1
  <2>5. CASE ~(i < l)
    <3>1. i \in l..(l + c - 1)
      BY <1>2, <1>4, <1>t, <2>3, <2>5
    <3>2. pos + i - l + 1 = j
      BY <1>2, <2>1, <2>3
    <3>3. d2[i] = t[pos + i - l + 1]
      BY <2>3, <3>1
    <3> QED
      BY <2>2, <3>2, <3>3
  <2> QED
    BY <2>4, <2>5
<1>9. p = pc - lc + 0 + 1
  BY <1>s, <1>6
<1>10. \E x \in Nat : /\ x = pc - lc + 0 + 1
                      /\ x = 1 \/ x = Len(t) + 1 \/ t[x - 1] = NEWLINE
                      /\ ShownTo(sh, b, t, x)
  BY <1>6, <1>9
<1>11. Held(sh, b, t, d2, pc, lc, 0)
  <2>1. /\ t \in Seq(TextBytes)
        /\ pc \in 0..Len(t) /\ lc \in 0..BUFSIZE /\ lc <= pc /\ 0 \in 0..lc
        /\ d2[BUFSIZE] # NEWLINE
        /\ \A i \in 0..(lc - 1) : d2[i] = t[pc - lc + i + 1]
    BY <1>1, <1>2, <1>7, <1>8, <1>s
  <2> QED
    BY <1>10, <2>1, Zenon DEF Held
<1> QED
  BY <1>1, <1>5, <1>11, <1>t

\* The line cut by the end of the buffer is moved to its front.
LEMMA KeepHolds ==
  ASSUME NEW sh, NEW b, NEW t, NEW d, NEW pos, NEW l, NEW k, NEW d2, NEW kept,
         Held(sh, b, t, d, pos, l, k), k # 0, k < l, kept = l - k + 1,
         \A i \in 0..(kept - 2) : d2[i] = d[k + i],
         d2[BUFSIZE] = NUL \/ d2[BUFSIZE] = d[BUFSIZE]
  PROVE  Held(sh, b, t, d2, pos, l - k, 0) /\ l - k < BUFSIZE
<1>1. PICK n \in Nat : n = Len(t)
  BY DEF Held
<1>2. /\ t \in Seq(TextBytes)
      /\ pos \in 0..n /\ l \in 0..BUFSIZE /\ l <= pos /\ k \in 0..l /\ d[BUFSIZE] # NEWLINE
      /\ \A i \in k..(l - 1) : d[i] = t[pos - l + i + 1]
  BY <1>1 DEF Held
<1>3. BUFSIZE \in Nat
  BY GrepAssumption
<1>4. PICK p \in Nat : /\ p = pos - l + k + 1
                       /\ p = 1 \/ p = Len(t) + 1 \/ t[p - 1] = NEWLINE
                       /\ ShownTo(sh, b, t, p)
  BY DEF Held
<1>5. PICK m \in Nat : m = l - k
  BY <1>2
<1>6. ASSUME NEW i \in 0..(m - 1) PROVE d2[i] = t[pos - m + i + 1]
  <2>1. PICK h \in Nat : h = k + i
    BY <1>2
  <2>2. h \in k..(l - 1) /\ i \in 0..(kept - 2)
    BY <1>2, <1>5, <2>1
  <2>3. d2[i] = d[h] /\ d[h] = t[pos - l + h + 1]
    BY <1>2, <2>1, <2>2
  <2>4. pos - l + h + 1 = pos - m + i + 1
    BY <1>2, <1>5, <2>1
  <2> QED
    BY <2>3, <2>4
<1>7. d2[BUFSIZE] # NEWLINE
  BY <1>2 DEF NUL, NEWLINE
<1>8. m \in 0..BUFSIZE /\ m <= pos /\ 0 \in 0..m /\ m < BUFSIZE /\ p = pos - m + 0 + 1
  BY <1>2, <1>3, <1>4, <1>5
<1>9. Held(sh, b, t, d2, pos, m, 0)
  <2>1. \E x \in Nat : /\ x = pos - m + 0 + 1
                       /\ x = 1 \/ x = Len(t) + 1 \/ t[x - 1] = NEWLINE
                       /\ ShownTo(sh, b, t, x)
    BY <1>4, <1>8
  <2>2. /\ t \in Seq(TextBytes)
        /\ pos \in 0..Len(t) /\ m \in 0..BUFSIZE /\ m <= pos /\ 0 \in 0..m
        /\ d2[BUFSIZE] # NEWLINE
        /\ \A i \in 0..(m - 1) : d2[i] = t[pos - m + i + 1]
    BY <1>1, <1>2, <1>6, <1>7, <1>8
  <2> QED
    BY <2>1, <2>2, Zenon DEF Held
<1> QED
  BY <1>5, <1>8, <1>9

\* What a search reads, prints and overwrites.
LineFrom(d, k, m) == [i \in 1..(m - k) |-> d[k + i - 1]]
NextShown(sh, b, line) == IF Occurs(b, line) THEN Append(sh, UpToNul(line)) ELSE sh
Cleared(d, m) == [d EXCEPT ![m] = NUL]

\* A line from k to m that is not kept for the next read.
Searched(sh, b, t, d, pos, l, k, m) ==
  /\ Held(sh, b, t, d, pos, l, k) /\ FitsIn(t)
  /\ k < l \/ k = 0
  /\ l < BUFSIZE => pos = Len(t)
  /\ m \in k..l /\ (m = l \/ d[m] = NEWLINE) /\ \A i \in k..(m - 1) : d[i] # NEWLINE
  /\ m = l => k = 0 \/ pos = Len(t)
  /\ DOMAIN d = 0..BUFSIZE

\* The search of a line in the buffer, the line being one of the text's, whole.
LEMMA SearchHolds ==
  ASSUME NEW sh, NEW b, NEW t, NEW d, NEW pos, NEW l, NEW k, NEW m,
         Searched(sh, b, t, d, pos, l, k, m),
         NEW next, next = NextShown(sh, b, LineFrom(d, k, m)),
         NEW d2, d2 = Cleared(d, m)
  PROVE  /\ m + 1 < l => Held(next, b, t, d2, pos, l, m + 1)
         /\ ~(m + 1 < l) => Held(next, b, t, d2, pos, 0, 0)
<1>h. /\ Held(sh, b, t, d, pos, l, k) /\ FitsIn(t) /\ (k < l \/ k = 0)
      /\ l < BUFSIZE => pos = Len(t)
      /\ m \in k..l /\ (m = l \/ d[m] = NEWLINE) /\ \A i \in k..(m - 1) : d[i] # NEWLINE
      /\ m = l => k = 0 \/ pos = Len(t)
      /\ DOMAIN d = 0..BUFSIZE
  BY Zenon DEF Searched
<1>l. PICK line : line = LineFrom(d, k, m)
  OBVIOUS
<1>1. PICK n \in Nat : n = Len(t)
  BY <1>h DEF Held
<1>2. /\ t \in Seq(TextBytes)
      /\ pos \in 0..n /\ l \in 0..BUFSIZE /\ l <= pos /\ k \in 0..l /\ d[BUFSIZE] # NEWLINE
      /\ \A i \in k..(l - 1) : d[i] = t[pos - l + i + 1]
  BY <1>1, <1>h DEF Held
<1>3. BUFSIZE \in Nat
  BY GrepAssumption
<1>4. PICK p \in Nat : /\ p = pos - l + k + 1
                       /\ p = 1 \/ p = Len(t) + 1 \/ t[p - 1] = NEWLINE
                       /\ ShownTo(sh, b, t, p)
  BY <1>h DEF Held
<1>d. /\ line = [i \in 1..(m - k) |-> d[k + i - 1]]
      /\ next = IF Occurs(b, line) THEN Append(sh, UpToNul(line)) ELSE sh
      /\ d2 = [d EXCEPT ![m] = NUL]
  BY <1>l, Zenon DEF LineFrom, NextShown, Cleared
<1>5. PICK off \in Nat : off = pos - l
  BY <1>2
<1>m. m \in Nat
  BY <1>2, <1>h
<1>6. PICK e \in Nat : e = off + m + 1
  BY <1>5, <1>m
<1>7. /\ p = off + k + 1 /\ off + l = pos
      /\ m <= l /\ k <= m /\ k \in Nat /\ l \in Nat /\ m \in Nat
  BY <1>2, <1>4, <1>5, <1>h
<1>8. ASSUME NEW i \in k..(l - 1) PROVE off + i + 1 \in p..pos /\ d[i] = t[off + i + 1]
  <2>1. pos - l + i + 1 = off + i + 1 /\ off + i + 1 \in p..pos
    BY <1>2, <1>5, <1>7
  <2> QED
    BY <1>2, <2>1
<1>9. ASSUME NEW x \in p..(e - 1) PROVE t[x] # NEWLINE
  <2>1. PICK i : i = x - off - 1
    OBVIOUS
  <2>2. i \in k..(m - 1) /\ i \in k..(l - 1) /\ off + i + 1 = x
    BY <1>6, <1>7, <2>1
  <2>3. d[i] # NEWLINE
    BY <1>h, <2>2
  <2> QED
    BY <1>8, <2>2, <2>3
<1>10. m < l => Ends(t, p, e) /\ t[e] = NEWLINE
  <2>1. SUFFICES ASSUME m < l PROVE Ends(t, p, e) /\ t[e] = NEWLINE
    OBVIOUS
  <2>2. m \in k..(l - 1) /\ e = off + m + 1
    BY <1>6, <1>7, <2>1
  <2>3. e \in p..pos /\ d[m] = t[e]
    BY <1>8, <2>2
  <2>4. t[e] = NEWLINE
    BY <1>h, <1>7, <2>1, <2>3
  <2>5. p \in 1..Len(t) /\ e \in p..(Len(t) + 1)
    BY <1>1, <1>2, <1>7, <2>3
  <2> QED
    BY <1>9, <2>4, <2>5 DEF Ends
<1>11. m = l => pos = n
  <2>1. SUFFICES ASSUME m = l, k = 0, l = BUFSIZE PROVE FALSE
    BY <1>1, <1>2, <1>3, <1>h
  <2>2. p \in StartsIn(t)
    <3>1. p \in 1..n
      BY <1>2, <1>3, <1>7, <2>1, GrepAssumption
    <3>2. p = 1 \/ t[p - 1] = NEWLINE
      BY <1>1, <1>4, <3>1
    <3> QED
      BY <1>1, <1>2, <3>1, <3>2 DEF StartsIn
  <2>3. PICK f \in {x \in p..(n + 1) : x = n + 1 \/ t[x] = NEWLINE} :
          \A x \in {x \in p..(n + 1) : x = n + 1 \/ t[x] = NEWLINE} : f <= x
    <3>1. PICK T : T = {x \in p..(n + 1) : x = n + 1 \/ t[x] = NEWLINE}
      OBVIOUS
    <3>2. T \subseteq Nat /\ n + 1 \in T
      BY <1>1, <1>2, <2>2, <3>1 DEF StartsIn
    <3> QED
      BY <3>1, <3>2, Least
  <2>4. f \in Nat /\ Ends(t, p, f)
    <3>1. p \in 1..n
      BY <1>1, <2>2 DEF StartsIn
    <3>2. f \in p..(n + 1) /\ (f = n + 1 \/ t[f] = NEWLINE)
      OBVIOUS
    <3>3. ASSUME NEW x \in p..(f - 1) PROVE t[x] # NEWLINE
      BY <2>3, <3>1, <3>2
    <3> QED
      BY <1>1, <3>1, <3>2, <3>3 DEF Ends
  <2>5. f >= e
    <3>1. SUFFICES ASSUME f < e PROVE FALSE
      BY <2>4
    <3>2. f \in p..(e - 1) /\ f # n + 1
      BY <1>2, <1>6, <1>7, <2>1, <2>4, <3>1
    <3> QED
      BY <1>9, <3>2
  <2>6. Len(LineIn(t, p)) = f - p
    BY <1>2, <2>4, LineFound
  <2>7. f - p < BUFSIZE
    BY <1>h, <2>2, <2>6 DEF FitsIn
  <2> QED
    BY <1>3, <1>6, <1>7, <2>1, <2>4, <2>5, <2>7
<1>12. m = l /\ k < l => Ends(t, p, e) /\ e = n + 1
  <2>1. SUFFICES ASSUME m = l, k < l PROVE Ends(t, p, e) /\ e = n + 1
    OBVIOUS
  <2>2. e = n + 1 /\ p \in 1..n
    BY <1>2, <1>6, <1>7, <1>11, <2>1
  <2> QED
    BY <1>1, <1>9, <2>2 DEF Ends
<1>13. Ends(t, p, e) => line = LineIn(t, p) /\ (p = 1 \/ t[p - 1] = NEWLINE)
  <2>1. SUFFICES ASSUME Ends(t, p, e)
                 PROVE  line = LineIn(t, p) /\ (p = 1 \/ t[p - 1] = NEWLINE)
    OBVIOUS
  <2>2. PICK found \in Seq(TextBytes) :
          /\ found = LineIn(t, p) /\ Len(found) = e - p
          /\ \A i \in 1..(e - p) : found[i] = t[p + i - 1]
    BY <1>2, <2>1, LineFound
  <2>3. e - p = m - k
    BY <1>6, <1>7
  <2>4. ASSUME NEW i \in 1..(m - k) PROVE line[i] \in TextBytes /\ line[i] = found[i]
    <3>1. PICK h : h = k + i - 1
      OBVIOUS
    <3>2. h \in k..(l - 1) /\ off + h + 1 = p + i - 1
      BY <1>7, <3>1
    <3>3. line[i] = d[h] /\ d[h] = t[off + h + 1] /\ found[i] = t[p + i - 1]
      BY <1>d, <1>8, <2>2, <2>3, <3>1, <3>2
    <3>4. i \in 1..Len(found)
      BY <2>2, <2>3
    <3>5. found[i] \in TextBytes
      BY <3>4, ElementOfSeq
    <3> QED
      BY <3>2, <3>3, <3>5
  <2>5. PICK r \in Nat : r = m - k
    BY <1>7
  <2>6. line \in Seq(TextBytes) /\ Len(line) = r
    <3>1. PICK f : f = [i \in 1..r |-> line[i]]
      OBVIOUS
    <3>2. \A i \in 1..r : line[i] \in TextBytes
      BY <2>4, <2>5
    <3>3. f \in Seq(TextBytes) /\ Len(f) = r
      BY <3>1, <3>2
    <3>4. line = f
      BY <1>d, <2>5, <3>1
    <3> QED
      BY <3>3, <3>4
  <2>7. line = found
    BY <2>2, <2>3, <2>4, <2>5, <2>6, SeqEqual
  <2>8. p # Len(t) + 1
    BY <2>1 DEF Ends
  <2> QED
    BY <1>4, <2>2, <2>7, <2>8
<1>14. ASSUME NEW q \in Nat, Ends(t, p, e), p < q, q <= e + 1
       PROVE  ShownTo(next, b, t, q)
  <2>l. UpToNul(LineIn(t, p)) = LineIn(t, p)
    <3>1. PICK found \in Seq(TextBytes) :
            /\ found = LineIn(t, p) /\ Len(found) = e - p
            /\ \A i \in 1..(e - p) : found[i] = t[p + i - 1]
      BY <1>2, <1>14, LineFound
    <3>2. ASSUME NEW i \in 1..Len(found) PROVE found[i] # NUL
      <4>1. PICK x : x = p + i - 1
        OBVIOUS
      <4>2. x \in 1..n
        BY <1>1, <1>14, <3>1, <4>1 DEF Ends
      <4>3. t[x] # NUL
        BY <1>h, <1>1, <1>2, <4>2 DEF FitsIn
      <4> QED
        BY <3>1, <4>1, <4>3
    <3> QED
      BY <3>1, <3>2, WholeWithoutNul
  <2>1. next = IF Occurs(b, LineIn(t, p)) THEN Append(sh, LineIn(t, p)) ELSE sh
    BY <1>d, <1>13, <1>14, <2>l
  <2>2. /\ ShownTo(sh, b, t, p) /\ Ends(t, p, e) /\ (p = 1 \/ t[p - 1] = NEWLINE)
        /\ p < q /\ q <= e + 1 /\ t \in Seq(TextBytes)
    BY <1>2, <1>4, <1>13, <1>14
  <2> QED
    BY <2>1, <2>2, ShowsNext
<1>15. m = l => pos = n /\ ShownTo(next, b, t, n + 1)
  <2>1. SUFFICES ASSUME m = l PROVE ShownTo(next, b, t, n + 1)
    BY <1>11
  <2>2. CASE k < l
    <3>1. PICK q \in Nat : q = n + 1
      OBVIOUS
    <3>e. Ends(t, p, e) /\ e = n + 1
      BY <1>12, <2>1, <2>2
    <3>p. p \in 1..n
      BY <1>1, <3>e DEF Ends
    <3>2. p < q /\ q <= e + 1
      BY <3>1, <3>e, <3>p
    <3> QED
      BY <1>14, <3>1, <3>2, <3>e
  <2>3. CASE ~(k < l)
    <3>1. k = 0 /\ l = 0 /\ m = 0
      BY <1>7, <1>h, <2>1, <2>3
    <3>2. DOMAIN line = {}
      BY <1>d, <3>1
    <3>3. next = sh
      BY <1>d, <3>2 DEF Occurs
    <3>4. p = n + 1
      BY <1>7, <1>11, <2>1, <3>1
    <3> QED
      BY <1>4, <3>3, <3>4
  <2> QED
    BY <2>2, <2>3
<1>16. PICK q \in Nat : q = e + 1
  OBVIOUS
<1>17. m < l => ShownTo(next, b, t, q) /\ t[q - 1] = NEWLINE
  <2>1. SUFFICES ASSUME m < l PROVE ShownTo(next, b, t, q) /\ t[q - 1] = NEWLINE
    OBVIOUS
  <2>2. Ends(t, p, e) /\ p < q /\ q <= e + 1 /\ q - 1 = e /\ t[e] = NEWLINE
    BY <1>10, <1>16, <2>1 DEF Ends
  <2> QED
    BY <1>14, <2>2
<1>18. d2[BUFSIZE] # NEWLINE /\ \A i \in (m + 1)..(l - 1) : d2[i] = d[i]
  <2>1. BUFSIZE \in DOMAIN d /\ NUL # NEWLINE
    BY <1>3, <1>h DEF NUL, NEWLINE
  <2>2. ASSUME NEW i \in (m + 1)..(l - 1) PROVE d2[i] = d[i]
    <3>1. i \in DOMAIN d /\ i # m
      BY <1>2, <1>3, <1>7, <1>h
    <3> QED
      BY <1>d, <3>1
  <2>3. d2[BUFSIZE] # NEWLINE
    BY <1>d, <1>2, <2>1
  <2> QED
    BY <2>2, <2>3
<1>19. m + 1 < l => Held(next, b, t, d2, pos, l, m + 1)
  <2>1. SUFFICES ASSUME m + 1 < l PROVE Held(next, b, t, d2, pos, l, m + 1)
    OBVIOUS
  <2>2. PICK g \in Nat : g = m + 1
    BY <1>m
  <2>3. q = pos - l + g + 1 /\ m < l /\ g \in 0..l
    BY <1>5, <1>6, <1>7, <1>16, <2>1, <2>2
  <2>4. ASSUME NEW i \in g..(l - 1) PROVE d2[i] = t[pos - l + i + 1]
    <3>1. i \in k..(l - 1) /\ i \in (m + 1)..(l - 1)
      BY <1>7, <2>2
    <3> QED
      BY <1>2, <1>18, <3>1
  <2>5. \E x \in Nat : /\ x = pos - l + g + 1
                       /\ x = 1 \/ x = Len(t) + 1 \/ t[x - 1] = NEWLINE
                       /\ ShownTo(next, b, t, x)
    BY <1>17, <2>3
  <2>6. /\ t \in Seq(TextBytes)
        /\ pos \in 0..Len(t) /\ l \in 0..BUFSIZE /\ l <= pos /\ g \in 0..l
        /\ d2[BUFSIZE] # NEWLINE
        /\ \A i \in g..(l - 1) : d2[i] = t[pos - l + i + 1]
    BY <1>1, <1>2, <1>18, <2>3, <2>4
  <2>7. Held(next, b, t, d2, pos, l, g)
    BY <2>5, <2>6, Zenon DEF Held
  <2> QED
    BY <2>2, <2>7
<1>20. ~(m + 1 < l) => Held(next, b, t, d2, pos, 0, 0)
  <2>1. SUFFICES ASSUME ~(m + 1 < l) PROVE Held(next, b, t, d2, pos, 0, 0)
    OBVIOUS
  <2>2. PICK x \in Nat : x = pos + 1 /\ x = pos - 0 + 0 + 1 /\ pos \in Nat
    BY <1>2
  <2>3. ShownTo(next, b, t, x) /\ (x = Len(t) + 1 \/ t[x - 1] = NEWLINE)
    <3>1. CASE m = l
      BY <1>1, <1>15, <2>2, <3>1
    <3>2. CASE m < l
      <4>1. q = x
        BY <1>6, <1>7, <1>16, <2>1, <2>2, <3>2
      <4> QED
        BY <1>17, <3>2, <4>1
    <3> QED
      BY <1>7, <3>1, <3>2
  <2>4. \E y \in Nat : /\ y = pos - 0 + 0 + 1
                       /\ y = 1 \/ y = Len(t) + 1 \/ t[y - 1] = NEWLINE
                       /\ ShownTo(next, b, t, y)
    BY <2>2, <2>3
  <2>5. /\ t \in Seq(TextBytes)
        /\ pos \in 0..Len(t) /\ 0 \in 0..BUFSIZE /\ 0 <= pos /\ 0 \in 0..0
        /\ d2[BUFSIZE] # NEWLINE
        /\ \A i \in 0..(0 - 1) : d2[i] = t[pos - 0 + i + 1]
    BY <1>1, <1>2, <1>3, <1>18
  <2> QED
    BY <2>4, <2>5, Zenon DEF Held
<1> QED
  BY <1>19, <1>20

-----------------------------------------------------------------------------
(* The invariant of a search.                                              *)

ReadOk(sh, b, t, d, pos, l) ==
  FitsIn(t) => Held(sh, b, t, d, pos, l, 0) /\ l < BUFSIZE
LinesOk(sh, b, t, d, pos, l, c, k) ==
  FitsIn(t) => /\ Held(sh, b, t, d, pos, l, k)
               /\ l < BUFSIZE => pos = Len(t)
               /\ c = 0 => pos = Len(t)
               /\ k = 0 \/ k < l
DoneOk(sh, b, t) == FitsIn(t) => ShownTo(sh, b, t, Len(t) + 1)

\* Between two reads the buffer holds the text from the beginning of a line on, and
\* all lines before it were searched.  A buffer that is not full after a read holds
\* the end of the file.
SearchInv ==
  /\ DOMAIN data = 0..BUFSIZE
  /\ \A sh, b, t, d, pos, l, c, k :
       /\ sh = shown /\ b = buf /\ t = text /\ d = data
       /\ pos = position /\ l = last /\ c = cnt /\ k = line_start
       => /\ step = "read" => ReadOk(sh, b, t, d, pos, l)
          /\ step = "lines" => LinesOk(sh, b, t, d, pos, l, c, k)
          /\ step = "done" => DoneOk(sh, b, t)

LEMMA SearchPrints ==
  ASSUME SearchInv
  PROVE  PrintsMatches
<1>1. SUFFICES ASSUME step = "done", FitBuffer, OneBlockOfText
               PROVE  /\ Len(shown) = Cardinality(Matching)
                      /\ \A i \in Matching : shown[Rank(i)] = LineAt(i)
  BY DEF PrintsMatches
<1>2. PICK sh, b, t : sh = shown /\ b = buf /\ t = text
  OBVIOUS
<1>3. DoneOk(sh, b, t)
  BY <1>1, <1>2 DEF SearchInv
<1>4. /\ FitsIn(t) /\ Matching = MatchIn(b, t)
      /\ \A i : LineAt(i) = LineIn(t, i) /\ Rank(i) = RankIn(MatchIn(b, t), i)
  BY <1>1, <1>2, SameLines, Zenon
<1>5. ShownTo(sh, b, t, Len(t) + 1)
  BY <1>3, <1>4 DEF DoneOk
<1>6. \A i \in MatchIn(b, t) : i < Len(t) + 1
  <2>1. ASSUME NEW i \in MatchIn(b, t) PROVE i < Len(t) + 1
    BY DEF MatchIn, StartsIn
  <2> QED
    BY <2>1
<1>7. {i \in MatchIn(b, t) : i < Len(t) + 1} = MatchIn(b, t)
  BY <1>6, Zenon
<1>8. /\ Len(sh) = Cardinality(MatchIn(b, t))
      /\ \A i \in MatchIn(b, t) : sh[RankIn(MatchIn(b, t), i)] = LineIn(t, i)
  BY <1>5, <1>6, <1>7, Zenon DEF ShownTo
<1> QED
  BY <1>2, <1>4, <1>8, Zenon

LEMMA SearchStarts ==
  ASSUME GrepInit
  PROVE  SearchInv
BY GrepAssumption DEF GrepInit, SearchInv

LEMMA StartSearches ==
  ASSUME NEWLINE \notin Residues, Start
  PROVE  SearchInv'
<1>1. PICK t \in Texts, byte \in Residues :
        t = text' /\ data' = [i \in 0..BUFSIZE |-> byte]
  BY DEF Start
<1>2. PICK d : d = [i \in 0..BUFSIZE |-> byte]
  OBVIOUS
<1>3. step' = "read" /\ last' = 0 /\ position' = 0 /\ shown' = <<>> /\ data' = d
  BY <1>1, <1>2 DEF Start
<1>4. t \in Seq(TextBytes)
  BY GrepAssumption DEF TextBytes
<1>5. BUFSIZE \in Nat \ {0}
  BY GrepAssumption
<1>6. ASSUME NEW b PROVE Held(<<>>, b, t, d, 0, 0, 0)
  <2>1. d[BUFSIZE] # NEWLINE
    BY <1>1, <1>2, <1>5
  <2>2. {k \in MatchIn(b, t) : k < 1} = {} /\ \A k \in MatchIn(b, t) : ~(k < 1)
    BY <1>4, MatchesAreFinite
  <2>3. Cardinality({k \in MatchIn(b, t) : k < 1}) = 0
    BY <2>2, FS_EmptySet
  <2>4. <<>> \in Seq(Seq(TextBytes)) /\ Len(<<>>) = 0
    OBVIOUS
  <2>5. ShownTo(<<>>, b, t, 1)
    BY <2>2, <2>3, <2>4, Zenon DEF ShownTo
  <2>6. \E p \in Nat : /\ p = 0 - 0 + 0 + 1
                       /\ p = 1 \/ p = Len(t) + 1 \/ t[p - 1] = NEWLINE
                       /\ ShownTo(<<>>, b, t, p)
    BY <2>5
  <2>7. /\ 0 \in 0..Len(t) /\ 0 \in 0..BUFSIZE /\ 0 <= 0 /\ 0 \in 0..0
        /\ \A i \in 0..(0 - 1) : d[i] = t[0 - 0 + i + 1]
    BY <1>4, <1>5
  <2> QED
    BY <1>4, <2>1, <2>6, <2>7, Zenon DEF Held
<1>7. ASSUME NEW b PROVE ReadOk(<<>>, b, t, d, 0, 0)
  BY <1>5, <1>6 DEF ReadOk
<1>8. DOMAIN data' = 0..BUFSIZE
  BY <1>1
<1>9. ASSUME NEW sh, NEW b, NEW u, NEW x, NEW pos, NEW l,
             sh = shown', u = text', x = data', pos = position', l = last'
      PROVE  ReadOk(sh, b, u, x, pos, l)
  <2>1. sh = <<>> /\ u = t /\ x = d /\ pos = 0 /\ l = 0
    BY <1>1, <1>3, <1>9
  <2> QED
    BY <1>7, <2>1
<1>10. step' = "read" /\ step' # "lines" /\ step' # "done"
  BY <1>3
<1> QED
  BY <1>8, <1>9, <1>10 DEF SearchInv

\* In a file of one block read_data finds each byte where it is.
LEMMA InOneBlock ==
  ASSUME NEW offset \in Nat, NEW i \in Nat, offset + i < BLOCK
  PROVE  Position(offset, i) = offset + i
<1>1. BLOCK \in Nat \ {0} /\ offset < BLOCK
  BY BlockAssumption
<1>2. offset % BLOCK = offset /\ offset \div BLOCK = 0
  BY <1>1
<1>3. PICK d \in Nat \ {0} : d = BLOCK - offset
  BY <1>1
<1>4. i \div d = 0
  BY <1>1, <1>3
<1>5. Position(offset, i) =
        (0 + i \div d) * BLOCK + IF i \div d = 0 THEN offset + i ELSE i % d
  BY <1>2, <1>3, Zenon DEF Position
<1>6. Position(offset, i) = (0 + 0) * BLOCK + (offset + i)
  BY <1>4, <1>5
<1> QED
  BY <1>1, <1>6

LEMMA ReadSearches ==
  ASSUME SearchInv, Read
  PROVE  SearchInv'
<1>1. PICK sh, b, t, d, pos, l : /\ sh = shown /\ b = buf /\ t = text /\ d = data
                                 /\ pos = position /\ l = last
  OBVIOUS
<1>2. PICK c : c = IF BUFSIZE - l < Len(t) - pos THEN BUFSIZE - l ELSE Len(t) - pos
  OBVIOUS
<1>3. Count = c
  BY <1>1, <1>2, Zenon DEF Count
<1>o. PICK outside : outside = {i \in 0..(c - 1) : Position(pos, i) >= Len(t)}
  OBVIOUS
<1>w. Outside = outside
  BY <1>1, <1>3, <1>o, Zenon DEF Outside
<1>s. PICK stray \in [outside -> Strays] :
        data' = [i \in 0..BUFSIZE |->
                  IF i \in l..(l + c - 1)
                  THEN IF i - l \in outside THEN stray[i - l]
                       ELSE t[Position(pos, i - l) + 1]
                  ELSE d[i]]
  BY <1>1, <1>3, <1>w, Zenon DEF Read
<1>d. PICK d2 : d2 = [i \in 0..BUFSIZE |->
                        IF i \in l..(l + c - 1)
                        THEN IF i - l \in outside THEN stray[i - l]
                             ELSE t[Position(pos, i - l) + 1]
                        ELSE d[i]]
  OBVIOUS
<1>4. /\ step = "read" /\ step' = "lines"
      /\ data' = d2 /\ position' = pos + c /\ last' = l + c /\ cnt' = c /\ line_start' = 0
      /\ text' = t /\ shown' = sh /\ buf' = b
  <2>1. /\ step = "read" /\ step' = "lines" /\ line_start' = 0
        /\ text' = t /\ shown' = sh /\ buf' = b
    BY <1>1, Zenon DEF Read, commandVars
  <2>2. position' = pos + c /\ last' = l + c /\ cnt' = c
    BY <1>1, <1>3, Zenon DEF Read
  <2> QED
    BY <1>s, <1>d, <2>1, <2>2, Zenon
<1>5. ReadOk(sh, b, t, d, pos, l)
  BY <1>1, <1>4 DEF SearchInv
<1>6. LinesOk(sh, b, t, d2, pos + c, l + c, c, 0)
  <2>1. SUFFICES ASSUME FitsIn(t)
                 PROVE  /\ Held(sh, b, t, d2, pos + c, l + c, 0)
                        /\ l + c < BUFSIZE => pos + c = Len(t)
                        /\ c = 0 => pos + c = Len(t)
    BY DEF LinesOk
  <2>2. Held(sh, b, t, d, pos, l, 0) /\ l < BUFSIZE
    BY <1>5, <2>1 DEF ReadOk
  <2>3. /\ t \in Seq(TextBytes) /\ pos \in 0..Len(t) /\ l \in Nat /\ Len(t) <= BLOCK
        /\ BUFSIZE \in Nat /\ BLOCK \in Nat
    BY <2>1, <2>2, GrepAssumption, BlockAssumption DEF Held, FitsIn
  <2>4. PICK n \in Nat : n = Len(t)
    BY <2>3
  <2>5. c \in Nat /\ c <= n - pos
    BY <1>2, <2>2, <2>3, <2>4
  <2>6. ASSUME NEW i \in l..(l + c - 1)
        PROVE  i - l \notin outside /\ t[Position(pos, i - l) + 1] = t[pos + i - l + 1]
    <3>1. PICK j \in Nat : j = i - l
      BY <2>3, <2>5
    <3>2. pos + j < BLOCK /\ pos + j < n /\ pos \in Nat
      BY <2>3, <2>4, <2>5, <3>1
    <3>3. Position(pos, j) = pos + j
      BY <3>2, InOneBlock
    <3>4. j \notin outside
      BY <1>o, <2>4, <3>2, <3>3
    <3>5. pos + j + 1 = pos + i - l + 1
      BY <2>3, <2>5, <3>1, <3>2
    <3> QED
      BY <3>1, <3>3, <3>4, <3>5
  <2>7. d2 = [i \in 0..BUFSIZE |->
               IF i \in l..(l + c - 1) THEN t[pos + i - l + 1] ELSE d[i]]
    BY <1>d, <2>6
  <2> QED
    BY <1>2, <2>2, <2>7, ReadHolds
<1>7. DOMAIN d2 = 0..BUFSIZE
  BY <1>d
<1> QED
  BY <1>4, <1>6, <1>7 DEF SearchInv

LEMMA LineEndFound ==
  ASSUME NEW k, NEW l, k = line_start, l = last, k \in Nat, l \in Nat, k <= l
  PROVE  \E m \in Nat : /\ m = LineEnd /\ m \in k..l /\ (m = l \/ data[m] = NEWLINE)
                        /\ \A i \in k..(m - 1) : data[i] # NEWLINE
<1>1. PICK T : T = {m \in k..l : m = l \/ data[m] = NEWLINE}
  OBVIOUS
<1>2. T \subseteq Nat /\ l \in T
  BY <1>1
<1>3. PICK m \in T : \A x \in T : m <= x
  BY <1>2, Least
<1>4. /\ m \in k..l /\ (m = l \/ data[m] = NEWLINE)
      /\ \A i \in k..(m - 1) : data[i] # NEWLINE
  BY <1>1, <1>3
<1>5. LineEnd = CHOOSE x \in k..l : /\ x = l \/ data[x] = NEWLINE
                                    /\ \A i \in k..(x - 1) : data[i] # NEWLINE
  BY Zenon DEF LineEnd
<1>6. /\ LineEnd \in k..l /\ (LineEnd = l \/ data[LineEnd] = NEWLINE)
      /\ \A i \in k..(LineEnd - 1) : data[i] # NEWLINE
  BY <1>4, <1>5, Zenon
<1> QED
  BY <1>6

LEMMA KeepSearches ==
  ASSUME SearchInv, KeepLine
  PROVE  SearchInv'
<1>1. PICK sh, b, t, d, pos, l, c, k :
        /\ sh = shown /\ b = buf /\ t = text /\ d = data
        /\ pos = position /\ l = last /\ c = cnt /\ k = line_start
  OBVIOUS
<1>2. LinesOk(sh, b, t, d, pos, l, c, k) /\ DOMAIN d = 0..BUFSIZE
  BY <1>1 DEF SearchInv, KeepLine
<1>3. PICK d2 : d2 = data'
  OBVIOUS
<1>4. /\ step' = "read" /\ last' = l - k /\ position' = pos
      /\ text' = t /\ shown' = sh /\ buf' = b
  BY <1>1 DEF KeepLine, commandVars
<1>5. DOMAIN d2 = 0..BUFSIZE
  BY <1>3 DEF KeepLine
<1>6. ReadOk(sh, b, t, d2, pos, l - k)
  <2>1. SUFFICES ASSUME FitsIn(t)
                 PROVE  Held(sh, b, t, d2, pos, l - k, 0) /\ l - k < BUFSIZE
    BY DEF ReadOk
  <2>2. Held(sh, b, t, d, pos, l, k) /\ (k = 0 \/ k < l)
    BY <1>2, <2>1 DEF LinesOk
  <2>3. k \in Nat /\ l \in Nat /\ k <= l /\ l <= BUFSIZE /\ BUFSIZE \in Nat
    BY <2>2, GrepAssumption DEF Held
  <2>4. PICK m \in Nat : /\ m = LineEnd /\ m \in k..l /\ (m = l \/ data[m] = NEWLINE)
    BY <1>1, <2>3, LineEndFound
  <2>5. data[m] # NEWLINE /\ k # 0 /\ k < l /\ m = l
    BY <1>1, <2>2, <2>4 DEF KeepLine, Keep
  <2>6. PICK r \in Nat : r = l - k
    BY <2>3
  <2>7. PICK line, kept : line = [x \in 1..r |-> d[k + x - 1]] /\ kept = line \o <<NUL>>
    OBVIOUS
  <2>w. UpToNul(line) = line
    <3>1. ASSUME NEW x \in 1..r PROVE d[k + x - 1] \in TextBytes /\ d[k + x - 1] # NUL
      <4>1. PICK h : h = k + x - 1
        OBVIOUS
      <4>2. h \in k..(l - 1)
        BY <2>3, <2>6, <4>1
      <4>3. PICK y : y = pos - l + h + 1
        OBVIOUS
      <4>4. y \in 1..Len(t) /\ d[h] = t[y] /\ t \in Seq(TextBytes)
        BY <2>2, <2>3, <4>2, <4>3 DEF Held
      <4>5. t[y] # NUL /\ t[y] \in TextBytes
        BY <2>1, <4>4, ElementOfSeq DEF FitsIn
      <4> QED
        BY <4>1, <4>4, <4>5
    <3>2. PICK f : f = [x \in 1..r |-> line[x]]
      OBVIOUS
    <3>3. \A x \in 1..r : line[x] \in TextBytes /\ line[x] # NUL
      BY <2>7, <3>1
    <3>4. f \in Seq(TextBytes) /\ Len(f) = r /\ \A x \in 1..r : f[x] # NUL
      BY <3>2, <3>3
    <3>5. line = f
      BY <2>7, <3>2
    <3> QED
      BY <3>4, <3>5, WholeWithoutNul
  <2>8. d2 = [i \in 0..BUFSIZE |-> IF i < Len(kept) THEN kept[i + 1]
                                  ELSE IF i = l THEN NUL ELSE d[i]]
    <3>1. Between(line_start, LineEnd) = line
      BY <1>1, <2>4, <2>5, <2>6, <2>7, Zenon DEF Between
    <3>2. data' = LET keeps == UpToNul(Between(line_start, LineEnd)) \o <<NUL>> IN
                  [i \in 0..BUFSIZE |->
                     IF i < Len(keeps) THEN keeps[i + 1] ELSE IF i = LineEnd THEN NUL ELSE data[i]]
      BY Zenon DEF KeepLine
    <3> QED
      BY <1>1, <1>3, <2>4, <2>5, <2>7, <2>w, <3>1, <3>2, Zenon
  <2>9. Len(kept) = r + 1 /\ \A i \in 1..r : kept[i] = d[k + i - 1]
    <3>1. PICK S : S = {d[k + x - 1] : x \in 1..r} \cup {NUL}
      OBVIOUS
    <3>2. line \in Seq(S) /\ Len(line) = r
      <4>1. \A x \in 1..r : line[x] \in S
        BY <2>7, <3>1
      <4>2. line = [x \in 1..r |-> line[x]]
        BY <2>7
      <4> QED
        BY <4>1, <4>2
    <3>3. <<NUL>> \in Seq(S) /\ Len(<<NUL>>) = 1
      BY <3>1
    <3>4. /\ Len(line \o <<NUL>>) = Len(line) + Len(<<NUL>>)
          /\ \A i \in 1..(Len(line) + Len(<<NUL>>)) :
               (line \o <<NUL>>)[i] = IF i <= Len(line) THEN line[i] ELSE <<NUL>>[i - Len(line)]
      BY <3>2, <3>3, ConcatProperties
    <3>5. ASSUME NEW i \in 1..r PROVE kept[i] = d[k + i - 1]
      <4>1. kept[i] = line[i]
        BY <2>7, <3>2, <3>3, <3>4
      <4> QED
        BY <2>7, <4>1
    <3> QED
      BY <2>7, <3>2, <3>3, <3>4, <3>5
  <2>10. ASSUME NEW i \in 0..(r + 1 - 2) PROVE d2[i] = d[k + i]
    <3>1. i \in 0..BUFSIZE /\ i < Len(kept) /\ i + 1 \in 1..r /\ k + (i + 1) - 1 = k + i
      BY <2>3, <2>6, <2>9
    <3> QED
      BY <2>8, <2>9, <3>1
  <2>11. d2[BUFSIZE] = NUL \/ d2[BUFSIZE] = d[BUFSIZE]
    <3>1. BUFSIZE \in 0..BUFSIZE /\ ~(BUFSIZE < Len(kept))
      BY <2>3, <2>5, <2>6, <2>9
    <3> QED
      BY <2>8, <3>1
  <2>12. PICK len : len = l - k + 1
    OBVIOUS
  <2>13. \A i \in 0..(len - 2) : d2[i] = d[k + i]
    BY <2>6, <2>10, <2>12
  <2> QED
    BY <2>2, <2>5, <2>11, <2>12, <2>13, KeepHolds
<1> QED
  BY <1>3, <1>4, <1>5, <1>6 DEF SearchInv

LEMMA SearchSearches ==
  ASSUME SearchInv, SearchLine
  PROVE  SearchInv'
<1>1. PICK sh, b, t, d, pos, l, c, k :
        /\ sh = shown /\ b = buf /\ t = text /\ d = data
        /\ pos = position /\ l = last /\ c = cnt /\ k = line_start
  OBVIOUS
<1>2. LinesOk(sh, b, t, d, pos, l, c, k) /\ DOMAIN d = 0..BUFSIZE
  BY <1>1 DEF SearchInv, SearchLine
<1>3. PICK line, m : line = Between(line_start, LineEnd) /\ m = LineEnd
  OBVIOUS
<1>4. PICK next, d2 : next = NextShown(sh, b, line) /\ d2 = Cleared(d, m)
  OBVIOUS
<1>5. /\ data' = d2 /\ shown' = next /\ line_start' = m + 1
      /\ text' = t /\ position' = pos /\ cnt' = c /\ buf' = b
  <2>1. text' = t /\ position' = pos /\ cnt' = c /\ buf' = b /\ line_start' = m + 1
    BY <1>1, <1>3, Zenon DEF SearchLine, commandVars
  <2>2. data' = d2 /\ shown' = next
    BY <1>1, <1>3, <1>4, Zenon DEF SearchLine, NextShown, Cleared
  <2> QED
    BY <2>1, <2>2
<1>6. IF m + 1 < l THEN step' = "lines" /\ last' = l
      ELSE last' = 0 /\ step' = IF c = 0 THEN "done" ELSE "read"
  <2>1. step = "lines" /\ IF line_start' < last THEN UNCHANGED <<step, last>>
        ELSE last' = 0 /\ step' = IF cnt = 0 THEN "done" ELSE "read"
    BY Zenon DEF SearchLine
  <2> QED
    BY <1>1, <1>5, <2>1
<1>7. DOMAIN d2 = 0..BUFSIZE
  BY <1>2, <1>4 DEF Cleared
<1>8. FitsIn(t) => /\ m + 1 < l => Held(next, b, t, d2, pos, l, m + 1)
                   /\ ~(m + 1 < l) => Held(next, b, t, d2, pos, 0, 0)
                   /\ l < BUFSIZE => pos = Len(t)
                   /\ c = 0 => pos = Len(t)
                   /\ m \in Nat /\ l \in Nat
  <2>1. SUFFICES ASSUME FitsIn(t)
                 PROVE  /\ m + 1 < l => Held(next, b, t, d2, pos, l, m + 1)
                        /\ ~(m + 1 < l) => Held(next, b, t, d2, pos, 0, 0)
                        /\ m \in Nat /\ l \in Nat
    BY <1>2 DEF LinesOk
  <2>2. /\ Held(sh, b, t, d, pos, l, k) /\ (k = 0 \/ k < l)
        /\ l < BUFSIZE => pos = Len(t)
        /\ c = 0 => pos = Len(t)
    BY <1>2, <2>1 DEF LinesOk
  <2>3. k \in Nat /\ l \in Nat /\ k <= l /\ l <= BUFSIZE /\ BUFSIZE \in Nat
        /\ d[BUFSIZE] # NEWLINE
    BY <2>2, GrepAssumption DEF Held
  <2>4. /\ m \in Nat /\ m \in k..l /\ (m = l \/ d[m] = NEWLINE)
        /\ \A i \in k..(m - 1) : d[i] # NEWLINE
    BY <1>1, <1>3, <2>3, LineEndFound
  <2>5. m = l => k = 0 \/ pos = Len(t)
    <3>1. d[m] = NEWLINE \/ c = 0 \/ k = 0
      BY <1>1, <1>3, Zenon DEF SearchLine, Keep
    <3> QED
      BY <2>2, <2>3, <3>1
  <2>6. line = LineFrom(d, k, m)
    BY <1>1, <1>3, Zenon DEF Between, LineFrom
  <2>7. Searched(sh, b, t, d, pos, l, k, m)
    BY <1>2, <2>1, <2>2, <2>4, <2>5, Zenon DEF Searched
  <2>8. /\ m + 1 < l => Held(next, b, t, d2, pos, l, m + 1)
        /\ ~(m + 1 < l) => Held(next, b, t, d2, pos, 0, 0)
    BY <1>4, <2>6, <2>7, SearchHolds, Zenon
  <2> QED
    BY <2>3, <2>4, <2>8
<1>9. m + 1 < l => LinesOk(next, b, t, d2, pos, l, c, m + 1)
  BY <1>8 DEF LinesOk
<1>10. ~(m + 1 < l) => ReadOk(next, b, t, d2, pos, 0)
  BY <1>8, GrepAssumption DEF ReadOk
<1>11. ~(m + 1 < l) /\ c = 0 => DoneOk(next, b, t)
  <2>1. SUFFICES ASSUME ~(m + 1 < l), c = 0, FitsIn(t)
                 PROVE  ShownTo(next, b, t, Len(t) + 1)
    BY DEF DoneOk
  <2>2. pos = Len(t) /\ Held(next, b, t, d2, pos, 0, 0)
    BY <1>8, <2>1
  <2>3. PICK p \in Nat : p = pos - 0 + 0 + 1 /\ ShownTo(next, b, t, p)
    BY <2>2 DEF Held
  <2>4. pos \in Nat
    BY <2>2 DEF Held
  <2>5. p = Len(t) + 1
    BY <2>2, <2>3, <2>4
  <2> QED
    BY <2>3, <2>5
<1>12. CASE m + 1 < l
  BY <1>5, <1>6, <1>7, <1>9, <1>12 DEF SearchInv
<1>13. CASE ~(m + 1 < l)
  BY <1>5, <1>6, <1>7, <1>10, <1>11, <1>13 DEF SearchInv
<1> QED
  BY <1>12, <1>13

LEMMA FailedSearches ==
  ASSUME SearchInv, ReadFails
  PROVE  SearchInv'
BY DEF SearchInv, ReadFails, commandVars

LEMMA ReturnSearches ==
  ASSUME Return
  PROVE  SearchInv'
BY DEF Return, SearchInv

LEMMA SearchSame ==
  ASSUME SearchInv, UNCHANGED grepVars, step = "off" \/ UNCHANGED buf
  PROVE  SearchInv'
BY DEF SearchInv, grepVars

LEMMA SearchStep ==
  ASSUME NEWLINE \notin Residues, SearchInv, [GrepNext]_<<commandVars, grepVars>>
  PROVE  SearchInv'
<1>1. CASE Search
  BY <1>1, StartSearches, ReadSearches, FailedSearches, KeepSearches, SearchSearches,
     ReturnSearches
  DEF Search
<1>2. CASE step = "off" /\ UNCHANGED grepVars
  BY <1>2, SearchSame
<1>3. CASE UNCHANGED <<commandVars, grepVars>>
  BY <1>3, SearchSame DEF commandVars
<1> QED
  BY <1>1, <1>2, <1>3 DEF GrepNext

\* grep prints each line of a file of one block of text that holds its argument,
\* whole, once and in order, and no other, wherever the end of its buffer cuts the
\* file: do_one_file moves the line cut to the front.  No line is longer than the
\* buffer, and the buffer does not hold a newline where nothing was read into it.
THEOREM MatchesArePrinted ==
  ASSUME NEWLINE \notin Residues
  PROVE  GrepSpec => []PrintsMatches
<1>1. GrepInit => SearchInv
  BY SearchStarts
<1>2. SearchInv /\ [GrepNext]_<<commandVars, grepVars>> => SearchInv'
  BY SearchStep
<1>3. SearchInv => PrintsMatches
  BY SearchPrints
<1> QED
  BY <1>1, <1>2, <1>3, PTL DEF GrepSpec
=============================================================================
