------------------------------ MODULE MCSanitizer ------------------------------
(***************************************************************************)
(* Instance of Sanitizer for TLC: the bytes.                               *)
(***************************************************************************)
EXTENDS Sanitizer

\* Controls, a sequence's bytes, text and pieces of characters: BS HT LF CR CAN
\* ESC ( 1 ; ? C D G K [ \ ] a, a continuation byte, leads of two and three.
SomeBytes == {8, 9, 10, 13, 24, 27, 40, 49, 59, 63, 67, 68, 71, 75, 91, 92, 93, 97,
              169, 195, 226}
=============================================================================
