---------------------------- MODULE MCPtySession ----------------------------
(***************************************************************************)
(* Instances of PtySession for TLC: one group member beside the child and  *)
(* one descendant that left the group.                                     *)
(***************************************************************************)
EXTENDS PtySession

CONSTANTS child, member, escapee

OneMember  == {member}
OneEscapee == {escapee}
Nobody     == {}
=============================================================================
