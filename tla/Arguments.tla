------------------------------- MODULE Arguments -------------------------------
(***************************************************************************)
(* A command line on its way to a program: parse_arguments splits it into  *)
(* the name of a file and its arguments, execute_help keeps the arguments  *)
(* in the process control block, and getargs gives them to the program     *)
(* (student-distrib/syscall_helper.c).                                     *)
(*                                                                         *)
(* A string is the sequence of its bytes before the NUL.  Two things the   *)
(* code reads are not its own to choose: the byte after the command's NUL, *)
(* and what the local variable `arguments' held before.                    *)
(***************************************************************************)
EXTENDS Integers, Sequences, FiniteSets, SequencesExt

CONSTANTS
  Bytes,                 \* the bytes strings are made of, NUL not among them
  MaxCommand,            \* commands have at most this many bytes
  Programs,              \* the names of the executable files
  Leftovers,             \* what the local arguments may hold from earlier calls
  FILE_NAME_SIZE,        \* 32 in the kernel
  MAX_FILE_NAME_LENGTH,  \* 32 in the kernel, the limit of getargs
  FOUR                   \* 4 in the kernel

NUL == "NUL"
SPACE_CHAR == "SPACE"
MAX == "255"

ASSUME ArgumentsAssumption ==
  /\ SPACE_CHAR \in Bytes /\ NUL \notin Bytes
  /\ {MaxCommand, FILE_NAME_SIZE, MAX_FILE_NAME_LENGTH, FOUR} \subseteq Nat \ {0}
  /\ Programs \subseteq BoundedSeq(Bytes \ {SPACE_CHAR}, FILE_NAME_SIZE)
  /\ <<>> \notin Programs
  /\ Leftovers \subseteq Seq(Bytes)

Commands == BoundedSeq(Bytes, MaxCommand)

VARIABLES
  command,    \* what execute was called with last
  status,     \* "waits" in the shell, "runs" the program, or was "refused"
  name,       \* the name of the program's file
  arguments,  \* arguments and arg_length of its process control block
  answer,     \* what getargs returned, "none" yet
  buf         \* the buffer it filled
commandVars == <<command, status, name, arguments, answer, buf>>

-----------------------------------------------------------------------------
(* parse_arguments                                                         *)

\* The first position from i on where Test holds, and one at stop at the latest.
FirstFrom(i, stop, Test(_)) ==
  CHOOSE k \in i..stop : (k = stop \/ Test(k)) /\ \A before \in i..(k - 1) : ~Test(before)

SkipSpaces(text, i) == FirstFrom(i, Len(text) + 1, LAMBDA k : text[k] # SPACE_CHAR)

\* A word ends at a space, or where the position is greater than the length of the
\* command: that is after the NUL, which belongs to the word, and the byte there
\* may be a space as well.
WordEnd(text, length, i) == FirstFrom(i, length + 2, LAMBDA k : text[k] = SPACE_CHAR)

\* The copy of the name ends at the NUL, if the word holds one.
NameEnd(text, first, end) == FirstFrom(first, end, LAMBDA k : text[k] = NUL)

\* The NUL is counted like a letter.
WordFitsBelow(first, end) == end - first < FILE_NAME_SIZE
WordFits(first, end) == end - first <= FILE_NAME_SIZE

\* parse_arguments on a command and the byte after it, with what the caller's
\* variable held.  Only a space leads to a store into that variable.
Parsed(s, after, leftover) ==
  LET text == s \o <<NUL, after>>
      first == SkipSpaces(text, 1)
      end == WordEnd(text, Len(s), first)
  IN [ok |-> WordFits(first, end),
      name |-> SubSeq(text, first, NameEnd(text, first, end) - 1),
      arguments |-> IF text[end] = SPACE_CHAR
                    THEN SubSeq(s, SkipSpaces(text, end), Len(s))
                    ELSE leftover]

-----------------------------------------------------------------------------
Init ==
  /\ command = <<>>
  /\ status = "waits"
  /\ name = <<>>
  /\ arguments = <<>>
  /\ answer = "none"
  /\ buf = <<>>

\* execute: initialize_pcb clears the arguments, execute_help stores the new ones.
\* A word that does not fit, or names no program, is refused before.
Execute(s) ==
  \E after \in Bytes \cup {NUL}, leftover \in Leftovers :
    LET parsed == Parsed(s, after, leftover) IN
    /\ status = "waits"
    /\ command' = s
    /\ IF parsed.ok /\ parsed.name \in Programs
       THEN /\ status' = "runs"
            /\ name' = parsed.name
            /\ arguments' = parsed.arguments
       ELSE /\ status' = "refused"
            /\ UNCHANGED <<name, arguments>>
    /\ UNCHANGED <<answer, buf>>

\* The lengths getargs accepts, and the two other tests.
LengthFitsBelow(length) == length > 0 /\ length < MAX_FILE_NAME_LENGTH
LengthFits(length) == length > 0 /\ length <= MAX_FILE_NAME_LENGTH
GetargsRefuses ==
  \/ Len(arguments) = FOUR /\ Head(arguments) = MAX
  \/ ~LengthFits(Len(arguments))

\* getargs copies the arguments whatever the size of the caller's buffer.
Getargs ==
  /\ status = "runs"
  /\ IF GetargsRefuses THEN /\ answer' = "refused"
                            /\ UNCHANGED buf
                       ELSE /\ answer' = "given"
                            /\ buf' = arguments
  /\ UNCHANGED <<command, status, name, arguments>>

\* The program ends, or there was none; the shell reads its next command.
Halt ==
  /\ status # "waits"
  /\ status' = "waits"
  /\ command' = <<>>
  /\ name' = <<>>
  /\ arguments' = <<>>
  /\ answer' = "none"
  /\ buf' = <<>>

-----------------------------------------------------------------------------
(* Properties.                                                             *)

\* What syscalls.c:17 says of a command: words separated by spaces, of which the
\* first is the file name and the rest is kept for getargs.
Spaces(n) == [i \in 1..n |-> SPACE_CHAR]
IsSplit(s, word, rest) ==
  /\ word # <<>> /\ SPACE_CHAR \notin {word[i] : i \in DOMAIN word}
  /\ rest # <<>> => Head(rest) # SPACE_CHAR
  /\ \E lead, gap \in 0..Len(s) :
       /\ s = Spaces(lead) \o word \o Spaces(gap) \o rest
       /\ rest # <<>> => gap > 0
Splits(s) ==
  {split \in {SubSeq(s, cut[1], cut[2]) : cut \in (DOMAIN s) \X (DOMAIN s)}
             \X {SubSeq(s, i, Len(s)) : i \in 1..(Len(s) + 1)} :
     IsSplit(s, split[1], split[2])}
Words(s) == {split[1] : split \in Splits(s)}
Rests(s) == {split[2] : split \in Splits(s)}

\* A command starts the program its first word names, whatever spaces and whatever
\* byte after the NUL it came with.  It is refused only if there is none of this
\* name, or the word is as long as a name can be and nothing follows it.
Accepted(word) ==
  /\ word \in Programs
  /\ Len(word) < FILE_NAME_SIZE \/ command[Len(command)] = SPACE_CHAR
                               \/ Rests(command) # {<<>>}
RunsFirstWord ==
  /\ status = "runs" => Words(command) = {name}
  /\ status = "refused" => \A word \in Words(command) : ~Accepted(word)

\* A program called with arguments that getargs can give is given exactly these,
\* with the spaces inside and after them, and never a part of an earlier command's.
\* One called without any is refused, or given what parse_arguments found in the
\* variable it was to store them in.
GivesOwnArguments ==
  answer # "none" => \A rest \in Rests(command) :
    IF \/ Len(rest) > MAX_FILE_NAME_LENGTH
       \/ Len(rest) = FOUR /\ Head(rest) = MAX
    THEN answer = "refused"
    ELSE IF rest = <<>> THEN answer = "refused" \/ buf \in Leftovers
    ELSE answer = "given" /\ buf = rest
=============================================================================
