---------------------------- MODULE MCOrchestrator ----------------------------
(***************************************************************************)
(* Instances of Orchestrator for TLC.                                      *)
(***************************************************************************)
EXTENDS Orchestrator

CONSTANTS m1, m2

\* A fresh marker for every command.
Fresh == <<m1, m2>>

\* No questions and no menus: the run neither confirms nor approves.
NoLine == {<<>>}
NoText == {}

\* None, for the options of the configurations.
Unset == None
=============================================================================
