--------------------------- MODULE MCTerminalInput ---------------------------
(***************************************************************************)
(* Instance of TerminalInput for TLC: two terminals, buffers of a few      *)
(* characters, one name to complete.                                       *)
(***************************************************************************)
EXTENDS TerminalInput

MCNames == {<<"a", "b">>}
=============================================================================
