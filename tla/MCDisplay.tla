------------------------------- MODULE MCDisplay -------------------------------
(***************************************************************************)
(* Instance of Display for TLC: two terminals, a screen of two rows and    *)
(* two columns, one glyph, and a banner of a line and a prompt.            *)
(***************************************************************************)
EXTENDS Display

MCBanner == <<"x", NewLine, "x">>
=============================================================================
