---------------------------- MODULE MCDescriptors -----------------------------
(***************************************************************************)
(* An instance of Descriptors: a directory that holds itself, and a file   *)
(* of one block and a half.                                                *)
(***************************************************************************)
EXTENDS Descriptors, TLC

MCDirectory ==
  0 :> [type |-> "dir", length |-> 0]
  @@ 1 :> [type |-> "file", length |-> 3]

AnyTerminal == Permutations(Procs)
=============================================================================
