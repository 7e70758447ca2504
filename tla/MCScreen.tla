------------------------------- MODULE MCScreen -------------------------------
(***************************************************************************)
(* Instance of Screen for TLC.                                             *)
(***************************************************************************)
EXTENDS Screen

\* Lines differ by where they are written.
Letters == {1}

\* Missing, within the screen, beyond it.
Numbers == {0, 2, 4}
=============================================================================
