------------------------------ MODULE OpenFiles -------------------------------
(***************************************************************************)
(* What open, close and read promise a program: descriptors of its own,    *)
(* given out lowest first, each with a position that only its own reads    *)
(* move.  Descriptors implements this.                                     *)
(***************************************************************************)
EXTENDS Integers

CONSTANTS
  Procs,
  Fds,         \* the descriptors open may give out
  Objects,     \* what can be opened
  Length,      \* [Objects -> Nat], the bytes there are to read
  Requests     \* the nbytes programs pass to read

VARIABLE table   \* [Procs -> [Fds -> Objects with a position, or Closed]]

Closed == [object |-> <<"closed", 0>>, pos |-> 0]
Free(p) == {fd \in Fds : table[p][fd] = Closed}

Init == table = [p \in Procs |-> [fd \in Fds |-> Closed]]

Open(p) ==
  \E fd \in Free(p), object \in Objects :
    /\ \A other \in Free(p) : fd <= other
    /\ table' = [table EXCEPT ![p][fd] = [object |-> object, pos |-> 0]]

Close(p) == \E fd \in Fds : table' = [table EXCEPT ![p][fd] = Closed]

Read(p) ==
  \E fd \in Fds \ Free(p), nbytes \in Requests :
    LET left == Length[table[p][fd].object] - table[p][fd].pos IN
    table' = [table EXCEPT ![p][fd].pos = @ + IF nbytes <= left THEN nbytes ELSE left]

\* The program ends, and the next one has nothing open.
Restart(p) == table' = [table EXCEPT ![p] = [fd \in Fds |-> Closed]]

Next == \E p \in Procs : Open(p) \/ Close(p) \/ Read(p) \/ Restart(p)

Spec == Init /\ [][Next]_table
=============================================================================
