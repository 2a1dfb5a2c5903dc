-------------------------------- MODULE MCGrep --------------------------------
(***************************************************************************)
(* A small instance of Grep: names of one or two letters, arguments of one *)
(* or two, a buffer of four bytes, and blocks of six.  All files of one    *)
(* block of text are searched, some with a NUL, and two of two blocks with *)
(* a line that keeps a read from the beginning of the second.              *)
(***************************************************************************)
EXTENDS Grep

MCBytes == {SPACE_CHAR, "a", MAX}
MCPrograms == {<<"a">>, <<"a", "a">>}
MCGrepName == <<"a", "a">>
MCLeftovers == {<<>>, <<"a">>, <<MAX, "a">>}
MCTexts ==
  BoundedSeq({"a", MAX, NEWLINE}, 6)
  \cup BoundedSeq({"a", NUL, NEWLINE}, 4)
  \cup {<<NEWLINE, "a", "a", "a", NEWLINE>> \o rest :
          rest \in {<<"a", MAX, NEWLINE>>, <<"a", NEWLINE, "a", "a">>}}
MCResidues == {NUL, "a"}
MCStrays == {NUL, NEWLINE}
=============================================================================
