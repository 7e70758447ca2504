---------------------------- MODULE MCInteractive ----------------------------
(***************************************************************************)
(* Instances of Interactive for TLC: the child and one descendant that     *)
(* left its group.                                                         *)
(***************************************************************************)
EXTENDS Interactive

CONSTANTS child, escapee

OneEscapee == {escapee}
Nobody     == {}
=============================================================================
